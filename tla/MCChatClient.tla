---------------------------- MODULE MCChatClient ----------------------------
(* A small instance of ChatClient: two conversations and one request. *)
EXTENDS ChatClient

CONSTANTS h1, h2, i1

=============================================================================
