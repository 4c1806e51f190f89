--------------------------- MODULE MCDummyClient ---------------------------
(* Instances of DummyClient for TLC; the io threads are model values. *)
EXTENDS DummyClient
==============================================================================
