---------------------------- MODULE MCSessionRecv ----------------------------
(* Instances of SessionRecv for TLC: a buffer of a few bytes, and frames from a
   bare header up to one byte more than the buffer. *)
EXTENDS SessionRecv

MCFrameSizes == HeaderLen..(Capacity + 1)
==============================================================================
