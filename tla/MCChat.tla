------------------------------- MODULE MCChat -------------------------------
(* Chat for TLC: two requests, which are two exchanges, or an exchange and  *)
(* a change of the conversation.                                            *)
EXTENDS Chat, TLC

=============================================================================
