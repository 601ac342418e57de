----------------------------- MODULE MCChatHost -----------------------------
(* Small instances of ChatHost for TLC. *)
EXTENDS ChatHost, TLC

CONSTANTS a, b

\* The page starts a new session.
Sessions == {<<>>}
=============================================================================
