----------------------------- MODULE MCStartup -----------------------------
(* Instances of Startup for TLC; threads and connections are model values. *)
EXTENDS Startup, TLC

Symmetry == Permutations(Workers) \cup Permutations(Conns)
==============================================================================
