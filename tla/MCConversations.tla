--------------------------- MODULE MCConversations ---------------------------
(* Both stores on one small instance: see README.md for the bounds. *)
EXTENDS Conversations, TLC
==============================================================================
