------------------------------- MODULE MCRoom -------------------------------
(* Instances of Room for TLC; the thread and player sets are model values. *)
EXTENDS RoomInv, TLC

Symmetry == Permutations(Workers) \cup Permutations(Players)
==============================================================================
