------------------------------- MODULE MCChat -------------------------------
(* Two chats that follow each other, two permission prompts. *)
EXTENDS ChatSession
=============================================================================
