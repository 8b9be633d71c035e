---------------------------- MODULE RunLifecycle ----------------------------
(***************************************************************************)
(* What the agent runtime promises of its durable runs, without saying how *)
(* it keeps the promise: the life of a run's status column, the answers    *)
(* written into conversations, and the side effects carried out on behalf  *)
(* of a retry lineage.  AgentRuns implements this specification.           *)
(***************************************************************************)
CONSTANTS Runs,      \* identifiers of runs
          Effects    \* keys under which side effects are journaled

VARIABLES state,     \* state[r]: the status of run r, "none" before its row exists
          answered,  \* the runs whose answer is in the conversation
          performed  \* <<effect, run>>: the effect was carried out on behalf of run

vars == <<state, answered, performed>>

Terminal == {"completed", "failed", "cancelled", "interrupted"}
Statuses == Terminal \cup
            {"none", "queued", "running", "awaiting_approval", "cancelling"}

(* The status changes a single request or executor may make.  "completed"  *)
(* is absent: a run completes only by answering.                           *)
Moves == {<<"none", "queued">>,
          <<"queued", "running">>, <<"queued", "failed">>, <<"queued", "cancelled">>,
          <<"running", "awaiting_approval">>, <<"running", "cancelling">>,
          <<"running", "failed">>,
          <<"awaiting_approval", "running">>, <<"awaiting_approval", "cancelled">>,
          <<"cancelling", "cancelled">>}

Init == /\ state = [r \in Runs |-> "none"]
        /\ answered = {}
        /\ performed = {}

(* One run moves along one edge. *)
Move(r) == /\ \E s \in Statuses : /\ <<state[r], s>> \in Moves
                                  /\ state' = [state EXCEPT ![r] = s]
           /\ UNCHANGED <<answered, performed>>

(* A running run writes its answer and completes in the same step. *)
Answer(r) == /\ state[r] = "running"
             /\ state' = [state EXCEPT ![r] = "completed"]
             /\ answered' = answered \cup {r}
             /\ UNCHANGED performed

(* A side effect happens at most once, for a run that is still executing.  *)
Perform(e, r) == /\ \A q \in Runs : <<e, q>> \notin performed
                 /\ state[r] \in {"running", "cancelling"}
                 /\ performed' = performed \cup {<<e, r>>}
                 /\ UNCHANGED <<state, answered>>

(* After a restart no run is left half executed: cancellations converge,   *)
(* running runs are interrupted, waiting ones keep waiting.                *)
Recover == /\ state' \in [Runs -> Statuses]
           /\ \A r \in Runs :
                 CASE state[r] = "cancelling" -> state'[r] = "cancelled"
                   [] state[r] = "running"    -> state'[r] = "interrupted"
                   [] state[r] = "queued"     -> state'[r] \in {"queued", "interrupted"}
                   [] OTHER                   -> state'[r] = state[r]
           /\ UNCHANGED <<answered, performed>>

Next == \/ \E r \in Runs : Move(r) \/ Answer(r) \/ \E e \in Effects : Perform(e, r)
        \/ Recover

Spec == Init /\ [][Next]_vars
=============================================================================
