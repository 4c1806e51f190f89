--------------------------- MODULE MCLoadClients ---------------------------
(* Instances of LoadClients for TLC; threads are model values. *)
EXTENDS LoadClients
==============================================================================
