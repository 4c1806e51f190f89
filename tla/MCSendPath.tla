----------------------------- MODULE MCSendPath -----------------------------
(* Instances of SendPath for TLC: headers of two bytes, chats of none or a few. *)
EXTENDS SendPath

MCPayloads == {0, 1}
==============================================================================
