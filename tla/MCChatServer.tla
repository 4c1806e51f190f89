---------------------------- MODULE MCChatServer ----------------------------
(* Instances of ChatServer for TLC; threads and players are model values. *)
EXTENDS ChatServer, TLC

Symmetry == Permutations(Workers) \cup Permutations(Players)
==============================================================================
