-------------------------- MODULE AgentRunsInvariant --------------------------
(***************************************************************************)
(* The inductive invariant of AgentRuns.  The tables of the run journal    *)
(* and the program counters of the executors agree with each other; every  *)
(* safety property of AgentRuns that is proved follows from this.          *)
(***************************************************************************)
EXTENDS AgentRuns

(* The rows of one tool call: approval, call, step, key and artifact.      *)
ToolRowsAgree(r) ==
  /\ approval[r] = "none" => call[r] = "none" /\ step[r] = "none"
  /\ approval[r] = "pending" => call[r] = "awaiting_approval" /\ step[r] = "awaiting_approval"
  /\ approval[r] = "rejected" => call[r] = "cancelled" /\ step[r] = "cancelled"
  /\ approval[r] = "approved" =>
       /\ call[r] \in {"approved", "executing", "completed", "failed", "cancelled", "interrupted"}
       /\ step[r] = IF call[r] = "approved" THEN "awaiting_approval" ELSE call[r]
  /\ call[r] # "none" => key[r] \in EffectKeys
  /\ artifacts[r] \in {0, 1}
  /\ artifacts[r] = 1 => call[r] \in {"executing", "completed", "interrupted"}

(* The run row against its tool call.                                      *)
StatusAgrees(r) ==
  /\ status[r] \in {"none", "queued"} => approval[r] = "none"
  /\ status[r] = "awaiting_approval" <=> approval[r] = "pending"
  /\ status[r] \in Live =>
       call[r] \in {"none", "approved", "executing", "completed", "failed"}
  /\ call[r] = "executing" => status[r] \in Live
  /\ status[r] \in Terminal /\ call[r] = "approved" =>
       status[r] = "failed" /\ code[r] = "toolOutcomeUnknown"
  /\ call[r] = "interrupted" /\ artifacts[r] = 1 =>
       \/ status[r] = "cancelled"
       \/ status[r] = "interrupted" /\ code[r] = "toolOutcomeUnknown"
  /\ phase[r] = "model_request" => approval[r] = "none"

(* The worker: threads exist while the process is up, and an active worker *)
(* owns a live run that has not asked for an approval.                     *)
WorkerAgrees(r) ==
  /\ ~up => wpc[r] = "none" /\ cpc[r] = "none"
  /\ cpc[r] = "prepared" => status[r] = "none"
  /\ WorkerActive(r) => Holds(r, "worker") /\ approval[r] = "none"

(* The approving thread: where it is says how far the call has come, and a *)
(* call that is under way has such a thread.                               *)
ApproverAgrees(r) ==
  /\ ~up => apc[r] = "none"
  /\ apc[r] # "none" => approval[r] = "approved"
  /\ ApproverActive(r) => Holds(r, "approver")
  /\ apc[r] \in {"execute", "raised"} => call[r] = "executing" /\ artifacts[r] = 0
  /\ apc[r] = "saved" => call[r] = "executing" /\ artifacts[r] = 1
  /\ apc[r] = "finished" => call[r] = "completed"
  /\ apc[r] = "reused" => call[r] = "completed" /\ artifacts[r] = 0
  /\ apc[r] = "failing" => call[r] = "failed"
  /\ apc[r] = "claim" /\ status[r] = "running" => call[r] = "approved"
  /\ up /\ call[r] = "executing" => apc[r] \in {"execute", "saved", "raised"}
  /\ up /\ status[r] \in Live /\ call[r] = "failed" => apc[r] = "failing"
  /\ up /\ status[r] \in Live /\ call[r] = "completed" /\ artifacts[r] = 1 =>
       apc[r] = "finished"

(* A live run is in the hands of a thread, or is one that was left behind  *)
(* after reusing an effect.                                                *)
LiveRunsAreHeld(r) ==
  up /\ status[r] \in Live =>
    WorkerActive(r) \/ apc[r] \notin {"none", "release"} \/ Reused(r)

(* The journal of effects against the calls that share them: at most one   *)
(* call of a key has begun, and its effect says so.                        *)
Begun(r) == call[r] = "executing" \/ artifacts[r] = 1

EffectsAgree ==
  /\ \A r, s \in Runs : Begun(r) /\ Begun(s) /\ key[r] = key[s] => r = s
  /\ \A r \in Runs : Begun(r) => effect[key[r]] \in {"executing", "completed", "interrupted"}
  /\ \A r \in Runs : call[r] = "executing" => effect[key[r]] = "executing"
  /\ \A e \in EffectKeys : effect[e] = "completed" =>
       \E r \in Runs : key[r] = e /\ artifacts[r] = 1

(* Answers against run rows: a completed run answered a revision that is   *)
(* in the past of its conversation.                                        *)
AnswersAgree ==
  /\ answers = {r \in Runs : status[r] = "completed"}
  /\ \A r \in Runs : status[r] = "completed" =>
       frozen[r].vec[frozen[r].target] < rev[frozen[r].target]

RunAgrees(r) == /\ ToolRowsAgree(r) /\ StatusAgrees(r)
                /\ WorkerAgrees(r) /\ ApproverAgrees(r)
                /\ LiveRunsAreHeld(r)

RunsAgree == \A r \in Runs : RunAgrees(r)

IInv == TypeOK /\ RunsAgree /\ EffectsAgree /\ AnswersAgree /\ OneAnswerPerRevision
=============================================================================
