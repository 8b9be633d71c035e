--------------------------- MODULE MCChatStreaming ---------------------------
(* Small instances of ChatStreaming are given by their constants alone.    *)
EXTENDS ChatStreaming
=============================================================================
