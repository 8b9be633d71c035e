----------------------------- MODULE ReplyOnce -----------------------------
(***************************************************************************)
(* What an idempotent chat request promises: among all the HTTP attempts   *)
(* that carry one key at most one result is ever decided, and an attempt   *)
(* that is answered with a result is answered with that one, also after a  *)
(* restart.  ChatRequests implements this specification.                   *)
(***************************************************************************)
CONSTANTS Attempts,    \* the HTTP requests that carry the key
          NoResults    \* replies that carry no result

VARIABLES decided,     \* the attempt whose result is durable, or "none"
          reply        \* what each attempt was told, "none" while it waits

vars == <<decided, reply>>

Init == decided = "none" /\ reply = [a \in Attempts |-> "none"]

(* The result is decided once. *)
Decide == /\ decided = "none" /\ decided' \in Attempts
          /\ UNCHANGED reply

(* An attempt is told the decided result, or something that is no result. *)
Tell(a) == /\ reply[a] = "none"
           /\ \E t \in NoResults \cup {decided} : reply' = [reply EXCEPT ![a] = t]
           /\ UNCHANGED decided

(* The process dies: the attempts that waited lose their connection. *)
Lose == /\ \E lost \in SUBSET {a \in Attempts : reply[a] = "none"} :
              reply' = [a \in Attempts |-> IF a \in lost THEN "lost" ELSE reply[a]]
        /\ UNCHANGED decided

Next == Decide \/ Lose \/ \E a \in Attempts : Tell(a)

Spec == Init /\ [][Next]_vars
=============================================================================
