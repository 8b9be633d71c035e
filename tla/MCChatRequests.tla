--------------------------- MODULE MCChatRequests ---------------------------
(* Small instances of ChatRequests are given by their constants alone.     *)
EXTENDS ChatRequests
=============================================================================
