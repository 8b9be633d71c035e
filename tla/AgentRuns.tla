------------------------------ MODULE AgentRuns ------------------------------
(***************************************************************************)
(* Durable agent runs: the SQLite journal (agent_runtime/repository.py),   *)
(* the executors that drive it (agent_runtime/service.py) and the          *)
(* dispatcher thread that feeds them (agent_runtime/dispatcher.py).        *)
(*                                                                         *)
(* Every repository method runs in one BEGIN IMMEDIATE transaction under   *)
(* one lock, so each is one atomic action.  What interleaves is everything *)
(* between two transactions: two kinds of executor per run (the worker of  *)
(* _run_created and the HTTP thread of an approval), cancellations,        *)
(* decisions, retries, edits of the conversation route, and a crash.       *)
(*                                                                         *)
(* A run asks for at most one approval (its worker ends there and the      *)
(* approving thread finishes the run), so a run has at most one row in     *)
(* run_approvals, one approved tool call and one step row for it: these    *)
(* are functions of the run.                                               *)
(***************************************************************************)
EXTENDS Integers, SequencesExt

CONSTANTS Runs,         \* identifiers of runs
          Args,         \* argument values of a propose_patch call
          Nodes,        \* conversation instances
          RootNode,     \* the root conversation of the workflow
          Route,        \* Route[n]: n and its ancestors, the parent_id walk
          MaxSteps,     \* AgentRuntimeService.max_steps
          Background,   \* TRUE: one dispatcher thread; FALSE: request threads
          MaxRev,       \* bound: conversation edits stop at this revision
          MaxAttempts,  \* bound: attempts in one retry lineage
          MaxCrashes    \* bound: crashes of the process

ASSUME RouteAssumption == /\ Route \in [Nodes -> SUBSET Nodes]
                          /\ \A n \in Nodes : n \in Route[n]
                          /\ RootNode \in Nodes /\ Route[RootNode] = {RootNode}
ASSUME BoundsAssumption == /\ MaxSteps \in Nat \ {0}
                           /\ MaxRev \in Nat
                           /\ MaxAttempts \in Nat
                           /\ MaxCrashes \in Nat
                           /\ Background \in BOOLEAN

Terminal == {"completed", "failed", "cancelled", "interrupted"}
Live == {"running", "cancelling"}
Statuses == Terminal \cup Live \cup {"none", "queued", "awaiting_approval"}
Phases == {"none", "starting", "model_request", "between_steps",
           "tool_execution", "awaiting_approval", "approval_decided"}
CallStatuses == {"none", "awaiting_approval", "approved", "executing",
                 "completed", "failed", "cancelled", "interrupted"}
EffectStatuses == {"none", "prepared", "executing", "completed", "failed", "interrupted"}
Codes == {"none", "runCancelled", "approvalRejected", "executionError",
          "runRevisionConflict", "toolOutcomeUnknown", "modelOutcomeUnknown",
          "runInterrupted"}
EffectKeys == Runs \X Args                     \* <<root run, arguments>>
NoKey == <<"none", "none">>

VARIABLES
  \* conversation_instances, shared with GraphStore
  rev, active,
  \* agent_runs
  created,      \* run ids in the order their rows were inserted
  status, lease, phase, code,
  frozen,       \* context_snapshot_json: target and routeRevisionVector
  root, attempt,
  \* run_approvals, tool_calls, run_steps (kind tool) of the approved call
  approval, call, step,
  key,          \* tool_calls.effect_key
  effect,       \* tool_effects
  artifacts,    \* number of artifacts rows written for the run
  answers,      \* runs whose final assistant message is in local_messages
  \* the process
  up, crashes, queue,
  cpc,          \* the request thread creating a run
  wpc, steps,   \* the worker executing a run, and its loop counter
  apc           \* the thread holding the approval lock of a run

graphVars == <<rev, active>>
rowVars == <<created, frozen, root, attempt>>
runVars == <<status, lease, phase, code>>
toolVars == <<approval, call, step>>
effectVars == <<key, effect, artifacts>>
sysVars == <<up, crashes>>
vars == <<graphVars, rowVars, runVars, toolVars, effectVars, answers,
          sysVars, queue, cpc, wpc, steps, apc>>

(* A context snapshot: where the run answers, the run it retries (itself   *)
(* for a first attempt) and the revisions of the route it was given.       *)
Contexts == [target : Nodes, parent : Runs, vec : [Nodes -> Nat]]
NoContext(r) == [target |-> RootNode, parent |-> r, vec |-> [n \in Nodes |-> 0]]

(* Revisions of the route of n as a run sees them; nodes off the route are *)
(* not part of the vector (they are masked with 0).                        *)
RouteVector(n) == [m \in Nodes |-> IF m \in Route[n] THEN rev[m] ELSE 0]

Lineage(q) == {r \in Runs : status[r] # "none" /\ root[r] = q}

(* _require_route_revision_vector: every node of the live route is active  *)
(* and carries the frozen revision.                                        *)
RouteUnchanged(r) == \A m \in Route[frozen[r].target] :
                        active[m] /\ rev[m] = frozen[r].vec[m]

Init == /\ rev = [n \in Nodes |-> 0]
        /\ active = [n \in Nodes |-> TRUE]
        /\ created = <<>>
        /\ status = [r \in Runs |-> "none"]
        /\ lease = [r \in Runs |-> "none"]
        /\ phase = [r \in Runs |-> "none"]
        /\ code = [r \in Runs |-> "none"]
        /\ frozen = [r \in Runs |-> NoContext(r)]
        /\ root = [r \in Runs |-> r]
        /\ attempt = [r \in Runs |-> 1]
        /\ approval = [r \in Runs |-> "none"]
        /\ call = [r \in Runs |-> "none"]
        /\ step = [r \in Runs |-> "none"]
        /\ key = [r \in Runs |-> NoKey]
        /\ effect = [e \in EffectKeys |-> "none"]
        /\ artifacts = [r \in Runs |-> 0]
        /\ answers = {}
        /\ up = TRUE /\ crashes = 0 /\ queue = <<>>
        /\ cpc = [r \in Runs |-> "none"]
        /\ wpc = [r \in Runs |-> "none"]
        /\ steps = [r \in Runs |-> 0]
        /\ apc = [r \in Runs |-> "none"]

-----------------------------------------------------------------------------
(* Transactions shared by several callers.                                 *)

(* Columns of agent_runs: a status reached without an executor clears the  *)
(* lease and the phase in the same UPDATE.                                 *)
SetRun(r, st, owner, ph) == /\ status' = [status EXCEPT ![r] = st]
                            /\ lease' = [lease EXCEPT ![r] = owner]
                            /\ phase' = [phase EXCEPT ![r] = ph]

Settle(r, st, c) == /\ SetRun(r, st, "none", "none")
                    /\ code' = [code EXCEPT ![r] = c]

SetTool(r, ap, cl, stp) == /\ approval' = [approval EXCEPT ![r] = ap]
                           /\ call' = [call EXCEPT ![r] = cl]
                           /\ step' = [step EXCEPT ![r] = stp]

Unstarted == {"awaiting_approval", "approved"}

(* Mutant of CancelRun: only the agent_runs row is updated.                *)
CancelRun_RowOnly(r) == Settle(r, "cancelled", "runCancelled") /\ UNCHANGED toolVars

(* finish_cancel, and the second half of request_cancel: pending approvals *)
(* are rejected, calls that have not begun are cancelled, an executing     *)
(* call is left alone.                                                     *)
CancelRun(r) ==
  /\ Settle(r, "cancelled", "runCancelled")
  /\ SetTool(r, IF approval[r] = "pending" THEN "rejected" ELSE approval[r],
                IF call[r] \in Unstarted THEN "cancelled" ELSE call[r],
                IF step[r] \in Unstarted THEN "cancelled" ELSE step[r])

(* _finish_cancel_if_requested, as the exit of a caller whose own          *)
(* transaction was refused: a requested cancellation converges here.       *)
FinishCancelIfRequested(r) ==
  \/ status[r] = "cancelling" /\ CancelRun(r)
  \/ status[r] # "cancelling" /\ UNCHANGED <<runVars, toolVars>>

(* Mutants: the failure is not followed by the check for a cancellation;   *)
(* the run is not failed.                                                  *)
FailOrFinishCancel_FailOnly(r, c) ==
  \/ status[r] \in {"queued", "running"} /\ Settle(r, "failed", c) /\ UNCHANGED toolVars
  \/ status[r] \notin {"queued", "running"} /\ UNCHANGED <<runVars, toolVars>>
FailOrFinishCancel_NoFail(r, c) == FinishCancelIfRequested(r)

(* fail followed by _finish_cancel_if_requested: exactly one terminal      *)
(* transition wins the race of a failure with a cancellation.              *)
FailOrFinishCancel(r, c) ==
  \/ /\ status[r] \in {"queued", "running", "awaiting_approval"}
     /\ Settle(r, "failed", c)
     /\ UNCHANGED toolVars
  \/ /\ status[r] \notin {"queued", "running", "awaiting_approval"}
     /\ FinishCancelIfRequested(r)

(* Mutants: the status, or the route, is not checked when committing.      *)
CanComplete_AnyStatus(r) == RouteUnchanged(r)
CanComplete_AnyRoute(r) == status[r] = "running"

(* complete: commit the answer if the run still runs on the route it read. *)
CanComplete(r) == status[r] = "running" /\ RouteUnchanged(r)
Complete(r) == /\ rev' = [rev EXCEPT ![frozen[r].target] = @ + 1]
               /\ Settle(r, "completed", "none")
               /\ answers' = answers \cup {r}
               /\ UNCHANGED <<active, toolVars, effectVars>>

(* The owner-checked half of a lease: renewed by its owner while the run   *)
(* is live, released by its owner only.                                    *)
Holds(r, owner) == lease[r] = owner /\ status[r] \in Live
ReleaseLease_AnyOwner(r, owner) ==     \* mutant: the owner is not compared
  /\ lease' = [lease EXCEPT ![r] = "none"]
  /\ phase' = [phase EXCEPT ![r] = "none"]
  /\ UNCHANGED <<status, code>>
ReleaseLease(r, owner) ==
  /\ lease' = [lease EXCEPT ![r] = IF @ = owner THEN "none" ELSE @]
  /\ phase' = [phase EXCEPT ![r] = IF lease[r] = owner THEN "none" ELSE @]
  /\ UNCHANGED <<status, code>>

-----------------------------------------------------------------------------
(* Creating a run: read the route, assemble, then insert the row.          *)

(* _execute_claimed reads the effective route and its revisions under the  *)
(* graph lock, and keeps the snapshot in memory.  A retry takes the target *)
(* of a terminal source run.                                               *)
Prepare(r, context) ==
  /\ up /\ status[r] = "none" /\ cpc[r] = "none"
  /\ active[context.target]
  /\ frozen' = [frozen EXCEPT ![r] = context]
  /\ cpc' = [cpc EXCEPT ![r] = "prepared"]
  /\ UNCHANGED <<graphVars, created, root, attempt, runVars, toolVars, effectVars,
                 answers, sysVars, queue, wpc, steps, apc>>

PrepareRun(r) == \E n \in Nodes :
  Prepare(r, [target |-> n, parent |-> r, vec |-> RouteVector(n)])

PrepareRetry(r) == \E s \in Runs :
  /\ status[s] \in Terminal
  /\ attempt[s] < MaxAttempts
  /\ LET n == frozen[s].target
     IN Prepare(r, [target |-> n, parent |-> s, vec |-> RouteVector(n)])

(* The attempt after which a retry of s is numbered, MAX(attempt_number)   *)
(* over the lineage.                                                       *)
LatestAttempt(t, s) == /\ t \in Lineage(root[s])
                       /\ \A u \in Lineage(root[s]) : attempt[u] <= attempt[t]

(* create: the whole vector is checked again in the inserting transaction, *)
(* then the id goes to the dispatcher, or this thread executes the run.    *)
Create(r) ==
  /\ up /\ cpc[r] = "prepared" /\ RouteUnchanged(r)
  /\ LET s == frozen[r].parent
     IN \/ /\ s = r
           /\ root' = [root EXCEPT ![r] = r]
           /\ attempt' = [attempt EXCEPT ![r] = 1]
        \/ /\ s # r
           /\ root' = [root EXCEPT ![r] = root[s]]
           /\ \E t \in Runs : /\ LatestAttempt(t, s)
                              /\ attempt' = [attempt EXCEPT ![r] = attempt[t] + 1]
  /\ status' = [status EXCEPT ![r] = "queued"]
  /\ created' = Append(created, r)
  /\ cpc' = [cpc EXCEPT ![r] = "none"]
  /\ \/ Background /\ queue' = Append(queue, r) /\ UNCHANGED wpc
     \/ ~Background /\ wpc' = [wpc EXCEPT ![r] = "starting"] /\ UNCHANGED queue
  /\ UNCHANGED <<graphVars, frozen, lease, phase, code, toolVars, effectVars,
                 answers, sysVars, steps, apc>>

(* create raises Conflict: nothing was inserted. *)
RefuseCreate(r) ==
  /\ up /\ cpc[r] = "prepared" /\ ~RouteUnchanged(r)
  /\ cpc' = [cpc EXCEPT ![r] = "none"]
  /\ frozen' = [frozen EXCEPT ![r] = NoContext(r)]
  /\ UNCHANGED <<graphVars, created, root, attempt, runVars, toolVars, effectVars,
                 answers, sysVars, queue, wpc, steps, apc>>

-----------------------------------------------------------------------------
(* The worker: _run_created, on the dispatcher thread or a request thread. *)
(* A check for cancellation, or an event insert that requires a running    *)
(* run, is folded into the transaction that follows it: both send a        *)
(* cancelling run to finish_cancel, whichever notices first.               *)

WorkerStep(r, from, to) == up /\ wpc[r] = from /\ wpc' = [wpc EXCEPT ![r] = to]

(* resume_queued: the thread takes the next id and skips it unless the row *)
(* is still queued.                                                        *)
Dequeue(r) ==
  /\ up /\ queue # <<>> /\ r = Head(queue)
  /\ \A q \in Runs : wpc[q] = "none"
  /\ queue' = Tail(queue)
  /\ wpc' = IF status[r] = "queued" THEN [wpc EXCEPT ![r] = "starting"] ELSE wpc
  /\ UNCHANGED <<graphVars, rowVars, runVars, toolVars, effectVars, answers,
                 sysVars, cpc, steps, apc>>

(* modelConfigurationChanged, runContextIntegrityFailed: the frozen inputs *)
(* cannot be verified and the run fails before it starts.                  *)
ResumeRefused(r) ==
  /\ Background /\ WorkerStep(r, "starting", "none")
  /\ \/ status[r] = "queued" /\ Settle(r, "failed", "executionError")
     \/ status[r] # "queued" /\ UNCHANGED runVars
  /\ UNCHANGED <<graphVars, rowVars, toolVars, effectVars, answers, sysVars,
                 queue, cpc, steps, apc>>

Start(r) ==
  /\ \/ /\ status[r] = "queued" /\ WorkerStep(r, "starting", "head")
        /\ SetRun(r, "running", "worker", "starting") /\ UNCHANGED code
     \/ /\ status[r] # "queued" /\ WorkerStep(r, "starting", "none")
        /\ UNCHANGED runVars
  /\ UNCHANGED <<graphVars, rowVars, toolVars, effectVars, answers, sysVars,
                 queue, cpc, steps, apc>>

(* Top of the loop: renew the lease in phase model_request and call the    *)
(* model, unless cancelled, out of steps, or no longer the owner.          *)
BeginModel(r) ==
  /\ \/ /\ status[r] = "running" /\ Holds(r, "worker") /\ steps[r] < MaxSteps
        /\ WorkerStep(r, "head", "model")
        /\ phase' = [phase EXCEPT ![r] = "model_request"]
        /\ steps' = [steps EXCEPT ![r] = @ + 1]
        /\ UNCHANGED <<status, lease, code, toolVars>>
     \/ /\ status[r] = "running" /\ ~(Holds(r, "worker") /\ steps[r] < MaxSteps)
        /\ WorkerStep(r, "head", "failing")
        /\ UNCHANGED <<runVars, toolVars, steps>>
     \/ /\ status[r] # "running" /\ WorkerStep(r, "head", "release")
        /\ FinishCancelIfRequested(r) /\ UNCHANGED steps
  /\ UNCHANGED <<graphVars, rowVars, effectVars, answers, sysVars, queue, cpc, apc>>

(* The provider answers, or fails, at its own time; record_model journals  *)
(* the turn even when a cancellation came first, and the lease is renewed. *)
(* "failing" is a provider error or an invalid turn (no renewal), a lost   *)
(* lease, or a turn that names an unknown tool or invalid arguments.       *)
ModelReturns(r) ==
  /\ \/ /\ Holds(r, "worker")
        /\ \E turn \in {"final", "read", "patch", "failing"} :
              WorkerStep(r, "model", turn)
        /\ phase' = [phase EXCEPT ![r] = "between_steps"]
     \/ WorkerStep(r, "model", "failing") /\ UNCHANGED phase
  /\ UNCHANGED <<graphVars, rowVars, status, lease, code, toolVars, effectVars,
                 answers, sysVars, queue, cpc, steps, apc>>

CommitFinal(r) ==
  /\ \/ /\ CanComplete(r) /\ WorkerStep(r, "final", "release")
        /\ Complete(r)
     \/ /\ ~CanComplete(r)
        /\ WorkerStep(r, "final", IF status[r] = "running" THEN "stale" ELSE "release")
        /\ FinishCancelIfRequested(r)
        /\ UNCHANGED <<graphVars, effectVars, answers>>
  /\ UNCHANGED <<rowVars, sysVars, queue, cpc, steps, apc>>

(* A tool without side effect runs inside the worker; its output is        *)
(* recorded only while the run is running.                                 *)
BeginRead(r) ==
  /\ \/ /\ status[r] = "running"
        /\ WorkerStep(r, "read", IF Holds(r, "worker") THEN "reading" ELSE "failing")
        /\ phase' = [phase EXCEPT ![r] = IF Holds(r, "worker") THEN "tool_execution" ELSE @]
        /\ UNCHANGED <<status, lease, code, toolVars>>
     \/ /\ status[r] # "running" /\ WorkerStep(r, "read", "release")
        /\ FinishCancelIfRequested(r)
  /\ UNCHANGED <<graphVars, rowVars, effectVars, answers, sysVars, queue, cpc, steps, apc>>

FinishRead(r) ==
  /\ \/ /\ status[r] = "running"
        /\ \E next \in {"head", "failing"} : WorkerStep(r, "reading", next)
        /\ UNCHANGED <<runVars, toolVars>>
     \/ /\ status[r] # "running" /\ WorkerStep(r, "reading", "release")
        /\ FinishCancelIfRequested(r)
  /\ UNCHANGED <<graphVars, rowVars, effectVars, answers, sysVars, queue, cpc, steps, apc>>

(* request_approval: the effect is journaled as prepared unless the retry  *)
(* lineage already has it, and the run waits without an executor.          *)
RequestApproval(r) ==
  /\ \/ /\ status[r] = "running" /\ WorkerStep(r, "patch", "release")
        /\ \E a \in Args :
              LET e == <<root[r], a>>
              IN /\ key' = [key EXCEPT ![r] = e]
                 /\ effect' = [effect EXCEPT ![e] = IF @ = "none" THEN "prepared" ELSE @]
        /\ SetTool(r, "pending", "awaiting_approval", "awaiting_approval")
        /\ SetRun(r, "awaiting_approval", "none", "awaiting_approval")
        /\ UNCHANGED <<code, artifacts>>
     \/ /\ status[r] # "running" /\ WorkerStep(r, "patch", "release")
        /\ FinishCancelIfRequested(r)
        /\ UNCHANGED effectVars
  /\ UNCHANGED <<graphVars, rowVars, answers, sysVars, queue, cpc, steps, apc>>

WorkerFails(r) ==
  /\ \/ /\ WorkerStep(r, "failing", "release") /\ FailOrFinishCancel(r, "executionError")
     \/ /\ WorkerStep(r, "stale", "release") /\ FailOrFinishCancel(r, "runRevisionConflict")
  /\ UNCHANGED <<graphVars, rowVars, effectVars, answers, sysVars, queue, cpc, steps, apc>>

(* Leaving _lease_heartbeat: the approval of this run may already be       *)
(* executing under another owner.                                          *)
WorkerReleases(r) ==
  /\ WorkerStep(r, "release", "none") /\ ReleaseLease(r, "worker")
  /\ steps' = [steps EXCEPT ![r] = 0]
  /\ UNCHANGED <<graphVars, rowVars, toolVars, effectVars, answers, sysVars,
                 queue, cpc, apc>>

Worker(r) == \/ ResumeRefused(r) \/ Start(r) \/ BeginModel(r) \/ ModelReturns(r)
             \/ CommitFinal(r) \/ BeginRead(r) \/ FinishRead(r)
             \/ RequestApproval(r) \/ WorkerFails(r) \/ WorkerReleases(r)

-----------------------------------------------------------------------------
(* Approvals: decide_approval of the service, serialized per approval by   *)
(* _claim, so that one thread at a time is between its transactions.       *)

ApproverStep(r, from, to) == up /\ apc[r] = from /\ apc' = [apc EXCEPT ![r] = to]

approverFrame == <<rowVars, sysVars, queue, cpc, wpc, steps>>

(* The decision itself.  The same decision may be repeated and goes on to  *)
(* the checks below; a different one is refused.                           *)
DecideApproval(r, decision) ==
  /\ \/ /\ approval[r] = "pending" /\ status[r] = "awaiting_approval"
        /\ \/ /\ decision = "approved"
              /\ ApproverStep(r, "none", "decided")
              /\ SetTool(r, "approved", "approved", step[r])
              /\ SetRun(r, "running", lease[r], "approval_decided")
              /\ UNCHANGED code
           \/ /\ decision = "rejected" /\ up /\ apc[r] = "none"
              /\ SetTool(r, "rejected", "cancelled", "cancelled")
              /\ status' = [status EXCEPT ![r] = "cancelled"]
              /\ code' = [code EXCEPT ![r] = "approvalRejected"]
              /\ UNCHANGED <<lease, phase, apc>>
     \/ /\ approval[r] = "approved" /\ decision = "approved"
        /\ ApproverStep(r, "none", "decided")
        /\ UNCHANGED <<runVars, toolVars>>
  /\ UNCHANGED <<graphVars, effectVars, answers, approverFrame>>

(* Before claiming: a terminal run or a call that has completed needs      *)
(* nothing more, a cancelling run converges.                               *)
ApproverChecks(r) ==
  /\ \/ /\ status[r] = "running" /\ call[r] # "completed"
        /\ ApproverStep(r, "decided", "claim") /\ UNCHANGED <<runVars, toolVars>>
     \/ /\ status[r] # "running" \/ call[r] = "completed"
        /\ ApproverStep(r, "decided", "none") /\ FinishCancelIfRequested(r)
  /\ UNCHANGED <<graphVars, effectVars, answers, approverFrame>>

(* claim_approved_tool, linearizing the side effect against cancellation.  *)
CanClaim(r) == status[r] = "running" /\ approval[r] = "approved" /\ call[r] = "approved"

ClaimTool(r) ==
  /\ CanClaim(r) /\ effect[key[r]] = "prepared" /\ step[r] = "awaiting_approval"
  /\ ApproverStep(r, "claim", "execute")
  /\ SetRun(r, "running", "approver", "tool_execution")
  /\ SetTool(r, "approved", "executing", "executing")
  /\ effect' = [effect EXCEPT ![key[r]] = "executing"]
  /\ UNCHANGED <<code, key, artifacts, graphVars, answers, approverFrame>>

(* The lineage has performed this effect already: its output is reused.    *)
ReuseEffect(r) ==
  /\ CanClaim(r) /\ effect[key[r]] = "completed"
  /\ ApproverStep(r, "claim", "reused")
  /\ SetRun(r, "running", "approver", "between_steps")
  /\ SetTool(r, "approved", "completed",
             IF step[r] = "awaiting_approval" THEN "completed" ELSE step[r])
  /\ UNCHANGED <<code, effectVars, graphVars, answers, approverFrame>>

(* Neither: the transaction rolls back.  A cancelled run converges, an     *)
(* effect whose outcome is unknown fails the run, anything else is a 409.  *)
RefuseClaim(r) ==
  /\ ApproverStep(r, "claim", "none")
  /\ ~ /\ CanClaim(r)
       /\ \/ effect[key[r]] = "completed"
          \/ effect[key[r]] = "prepared" /\ step[r] = "awaiting_approval"
  /\ IF status[r] = "running" /\ effect[key[r]] \notin {"prepared", "completed"}
     THEN FailOrFinishCancel(r, "toolOutcomeUnknown")
     ELSE FinishCancelIfRequested(r)
  /\ UNCHANGED <<graphVars, effectVars, answers, approverFrame>>

(* _execute_approved_effect: the tool runs and create_artifact commits     *)
(* while finish_approved_tool is still to come.                            *)
SaveArtifact(r) ==
  /\ ApproverStep(r, "execute", IF Holds(r, "approver") THEN "saved" ELSE "release")
  /\ phase' = [phase EXCEPT ![r] = IF Holds(r, "approver") THEN "tool_execution" ELSE @]
  /\ artifacts' = [artifacts EXCEPT ![r] = IF Holds(r, "approver") THEN @ + 1 ELSE @]
  /\ UNCHANGED <<status, lease, code, toolVars, key, effect, graphVars, answers,
                 approverFrame>>

(* The tool is no longer allowed, its arguments are invalid, or it raises. *)
ToolRaises(r) ==
  /\ ApproverStep(r, "execute", "raised")
  /\ UNCHANGED <<runVars, toolVars, effectVars, graphVars, answers, approverFrame>>

(* finish_approved_tool, with the outcome of the one execution.            *)
FinishTool(r) ==
  /\ \E outcome \in {"completed", "failed"} :
        /\ \/ outcome = "completed" /\ ApproverStep(r, "saved", "finished")
           \/ outcome = "failed" /\ ApproverStep(r, "raised", "failing")
        /\ status[r] \in Live /\ call[r] = "executing" /\ effect[key[r]] = "executing"
        /\ SetTool(r, approval[r], outcome, outcome)
        /\ effect' = [effect EXCEPT ![key[r]] = outcome]
        /\ phase' = [phase EXCEPT ![r] = "between_steps"]
  /\ UNCHANGED <<status, lease, code, key, artifacts, graphVars, answers, approverFrame>>

CommitPatch(r) ==
  /\ ApproverStep(r, "finished", "release")
  /\ \/ CanComplete(r) /\ Complete(r)
     \/ /\ ~CanComplete(r) /\ FailOrFinishCancel(r, "runRevisionConflict")
        /\ UNCHANGED <<graphVars, effectVars, answers>>
  /\ UNCHANGED approverFrame

(* The reused branch completes under try/finally only: a Conflict leaves   *)
(* this thread as an error response and the row as it is.                  *)
CommitReused(r) ==
  /\ ApproverStep(r, "reused", "release")
  /\ \/ CanComplete(r) /\ Complete(r)
     \/ /\ ~CanComplete(r)
        /\ UNCHANGED <<runVars, toolVars, graphVars, effectVars, answers>>
  /\ UNCHANGED approverFrame

ApproverFails(r) ==
  /\ ApproverStep(r, "failing", "release")
  /\ FailOrFinishCancel(r, "executionError")
  /\ UNCHANGED <<graphVars, effectVars, answers, approverFrame>>

ApproverReleases(r) ==
  /\ ApproverStep(r, "release", "none") /\ ReleaseLease(r, "approver")
  /\ UNCHANGED <<toolVars, graphVars, effectVars, answers, approverFrame>>

Approver(r) == \/ ApproverChecks(r) \/ ClaimTool(r) \/ ReuseEffect(r) \/ RefuseClaim(r)
               \/ SaveArtifact(r) \/ ToolRaises(r) \/ FinishTool(r)
               \/ CommitPatch(r) \/ CommitReused(r) \/ ApproverFails(r)
               \/ ApproverReleases(r)

-----------------------------------------------------------------------------
(* Cancellation, edits of the route by others, crash and recovery.         *)

(* request_cancel: a waiting run is terminal at once, an executing one     *)
(* becomes cancelling and its executor converges it.                       *)
RequestCancel(r) ==
  /\ up
  /\ \/ status[r] \in {"queued", "awaiting_approval"} /\ CancelRun(r)
     \/ /\ status[r] = "running"
        /\ status' = [status EXCEPT ![r] = "cancelling"]
        /\ UNCHANGED <<lease, phase, code, toolVars>>
  /\ UNCHANGED <<graphVars, rowVars, effectVars, answers, sysVars, queue, cpc,
                 wpc, steps, apc>>

(* GraphStore, as runs see it: a message is appended or edited, or a       *)
(* knowledge merge accepted; a subtree, the root too with allowRoot, is    *)
(* pruned.                                                                 *)
EditConversation(n) ==
  /\ up /\ active[n] /\ rev[n] < MaxRev
  /\ rev' = [rev EXCEPT ![n] = @ + 1]
  /\ UNCHANGED <<active, rowVars, runVars, toolVars, effectVars, answers, sysVars,
                 queue, cpc, wpc, steps, apc>>

Prune(n) ==
  /\ up /\ active[n]
  /\ active' = [m \in Nodes |-> active[m] /\ n \notin Route[m]]
  /\ UNCHANGED <<rev, rowVars, runVars, toolVars, effectVars, answers, sysVars,
                 queue, cpc, wpc, steps, apc>>

(* The process dies: threads and the in-memory queue are gone.             *)
Crash ==
  /\ up /\ crashes < MaxCrashes
  /\ up' = FALSE /\ crashes' = crashes + 1 /\ queue' = <<>>
  /\ cpc' = [r \in Runs |-> "none"]
  /\ wpc' = [r \in Runs |-> "none"]
  /\ apc' = [r \in Runs |-> "none"]
  /\ steps' = [r \in Runs |-> 0]
  /\ frozen' = [r \in Runs |-> IF status[r] = "none" THEN NoContext(r) ELSE frozen[r]]
  /\ UNCHANGED <<graphVars, created, root, attempt, runVars, toolVars, effectVars, answers>>

(* recover_interrupted, then the queued ids are submitted again in the     *)
(* order of their rows.  Queued runs survive only with a dispatcher.       *)
Interrupted == {r \in Runs : \/ status[r] = "running"
                             \/ status[r] = "queued" /\ ~Background}
Cancelling == {r \in Runs : status[r] = "cancelling"}

(* Calls and steps of recovered runs: what was executing has an unknown    *)
(* outcome, what had not begun is cancelled with a cancelling run.         *)
Recovered_CancelsExecuting(r, s) ==                                \* mutant
  IF s \in Unstarted \cup {"executing"} /\ r \in Cancelling THEN "cancelled" ELSE s
Recovered(r, s) ==
  IF s = "executing" /\ r \in Interrupted \cup Cancelling THEN "interrupted"
  ELSE IF s \in Unstarted /\ r \in Interrupted THEN "interrupted"
  ELSE IF s \in Unstarted /\ r \in Cancelling THEN "cancelled"
  ELSE s

(* Mutant: the effect may be claimed again after a restart.                *)
RecoveredEffect_Claimable(e) == IF effect[e] = "executing" THEN "prepared" ELSE effect[e]
RecoveredEffect(e) ==
  IF /\ effect[e] = "executing"
     /\ \E r \in Interrupted \cup Cancelling : call[r] = "executing" /\ key[r] = e
  THEN "interrupted" ELSE effect[e]

RecoveredCode_PhaseOnly(r) ==                                      \* mutant
  IF r \in Cancelling THEN "runCancelled"
  ELSE IF r \notin Interrupted THEN code[r]
  ELSE IF phase[r] = "model_request" THEN "modelOutcomeUnknown" ELSE "runInterrupted"
RecoveredCode(r) ==
  IF r \in Cancelling THEN "runCancelled"
  ELSE IF r \notin Interrupted THEN code[r]
  ELSE IF phase[r] = "model_request" THEN "modelOutcomeUnknown"
  ELSE IF call[r] = "executing" THEN "toolOutcomeUnknown"
  ELSE "runInterrupted"

(* queued_run_ids: the queued rows, in the order they were inserted.        *)
Queued == {r \in Runs : status[r] = "queued"}
InsertedBefore(r, s) == \E i, j \in DOMAIN created : i < j /\ created[i] = r /\ created[j] = s
Resubmitted_None == {<<>>}                                         \* mutant
Resubmitted ==
  IF Background
  THEN {q \in UNION {[1..n -> Queued] : n \in 0..Len(created)} :
          /\ \A r \in Queued : \E i \in DOMAIN q : q[i] = r
          /\ \A i, j \in DOMAIN q : i < j => InsertedBefore(q[i], q[j])}
  ELSE {<<>>}

Recover ==
  /\ ~up /\ up' = TRUE
  /\ approval' = [r \in Runs |-> IF r \in Cancelling /\ approval[r] = "pending"
                                 THEN "rejected" ELSE approval[r]]
  /\ call' = [r \in Runs |-> Recovered(r, call[r])]
  /\ step' = [r \in Runs |-> Recovered(r, step[r])]
  /\ effect' = [e \in EffectKeys |-> RecoveredEffect(e)]
  /\ code' = [r \in Runs |-> RecoveredCode(r)]
  /\ status' = [r \in Runs |-> IF r \in Cancelling THEN "cancelled"
                               ELSE IF r \in Interrupted THEN "interrupted"
                               ELSE status[r]]
  /\ lease' = [r \in Runs |-> IF r \in Interrupted \cup Cancelling THEN "none" ELSE lease[r]]
  /\ phase' = [r \in Runs |-> IF r \in Interrupted \cup Cancelling THEN "none" ELSE phase[r]]
  /\ queue' \in Resubmitted
  /\ UNCHANGED <<graphVars, rowVars, key, artifacts, answers, crashes, cpc, wpc, steps, apc>>

-----------------------------------------------------------------------------
Next == \/ \E r \in Runs : \/ PrepareRun(r) \/ PrepareRetry(r)
                           \/ Create(r) \/ RefuseCreate(r)
                           \/ Dequeue(r) \/ Worker(r)
                           \/ \E d \in {"approved", "rejected"} : DecideApproval(r, d)
                           \/ Approver(r)
                           \/ RequestCancel(r)
        \/ \E n \in Nodes : EditConversation(n) \/ Prune(n)
        \/ Crash \/ Recover

Spec == Init /\ [][Next]_vars

(* The operating system runs every thread that can run, a provider answers *)
(* or fails eventually, and a stopped process is started again.  Nothing   *)
(* obliges a user to create, decide, cancel or edit anything.              *)
Fairness == /\ \A r \in Runs : /\ WF_vars(Create(r)) /\ WF_vars(RefuseCreate(r))
                               /\ WF_vars(Dequeue(r))
                               /\ WF_vars(Worker(r)) /\ WF_vars(Approver(r))
            /\ WF_vars(Recover)
FairSpec == Spec /\ Fairness

-----------------------------------------------------------------------------
(* Properties.                                                             *)

WorkerPcs == {"none", "starting", "head", "model", "final", "read", "reading",
              "patch", "failing", "stale", "release"}
ApproverPcs == {"none", "decided", "claim", "execute", "saved", "raised",
                "finished", "reused", "failing", "release"}

(* Types of the durable columns and of the process state; the two          *)
(* sequences are typed by QueueOK.                                         *)
GraphType == rev \in [Nodes -> Nat] /\ active \in [Nodes -> BOOLEAN]
RowType == /\ frozen \in [Runs -> Contexts]
           /\ root \in [Runs -> Runs] /\ attempt \in [Runs -> Nat \ {0}]
RunType == /\ status \in [Runs -> Statuses]
           /\ lease \in [Runs -> {"none", "worker", "approver"}]
           /\ phase \in [Runs -> Phases] /\ code \in [Runs -> Codes]
ToolType == /\ approval \in [Runs -> {"none", "pending", "approved", "rejected"}]
            /\ call \in [Runs -> CallStatuses] /\ step \in [Runs -> CallStatuses]
EffectType == /\ key \in [Runs -> EffectKeys \cup {NoKey}]
              /\ effect \in [EffectKeys -> EffectStatuses]
              /\ artifacts \in [Runs -> Nat]
ProcessType == up \in BOOLEAN /\ crashes \in Nat
ThreadType == /\ cpc \in [Runs -> {"none", "prepared"}]
              /\ wpc \in [Runs -> WorkerPcs] /\ steps \in [Runs -> Nat]
              /\ apc \in [Runs -> ApproverPcs]

TypeOK == /\ GraphType /\ RowType /\ RunType /\ ToolType /\ EffectType
          /\ answers \in SUBSET Runs /\ ProcessType /\ ThreadType

WorkerActive(r) == wpc[r] \notin {"none", "starting", "release"}
ApproverActive(r) == apc[r] \in {"execute", "saved", "raised", "finished", "reused", "failing"}

(* A side effect of a retry lineage is carried out at most once, whatever  *)
(* mix of retries, concurrent approvals, cancellations and crashes occurs: *)
(* tool_effects and claim_approved_tool exist for this.                    *)
EffectAtMostOnce ==
  \A r, s \in Runs : /\ artifacts[r] <= 1
                     /\ /\ artifacts[r] > 0 /\ artifacts[s] > 0 /\ key[r] = key[s]
                        => r = s

(* The effect journal never lies to a retry: prepared and failed effects   *)
(* have left no artifact, a completed one has left one of this lineage.    *)
EffectJournalTruthful ==
  \A e \in EffectKeys :
    LET saved == {r \in Runs : key[r] = e /\ artifacts[r] > 0}
    IN /\ effect[e] \in {"none", "prepared", "failed"} => saved = {}
       /\ effect[e] = "completed" => saved # {}

(* Nothing is carried out for a call nobody approved, or whose             *)
(* cancellation won the race with its claim.                               *)
OnlyApprovedCallsRun ==
  \A r \in Runs : artifacts[r] > 0 =>
    /\ approval[r] = "approved"
    /\ call[r] \in {"executing", "completed", "interrupted"}

(* After a crash, a call that may have written its artifact is reported as *)
(* an unknown outcome or belongs to a cancelled run, never as notStarted.  *)
DoubtIsReported ==
  \A r \in Runs : call[r] = "interrupted" /\ artifacts[r] > 0 =>
    \/ status[r] = "interrupted" /\ code[r] = "toolOutcomeUnknown"
    \/ status[r] = "cancelled"

(* One executor at a time, and it holds the lease: the worker that hands a *)
(* run to its approval never shares it with, or takes it from, the         *)
(* approving thread.                                                       *)
ExclusiveExecutor ==
  \A r \in Runs : /\ WorkerActive(r) => Holds(r, "worker") /\ apc[r] = "none"
                  /\ ApproverActive(r) => Holds(r, "approver")

(* Two answers are never given to the same state of a conversation: runs   *)
(* that completed on one target started from different revisions of it.    *)
OneAnswerPerRevision ==
  \A r, s \in Runs :
    /\ status[r] = "completed" /\ status[s] = "completed" /\ r # s
    /\ frozen[r].target = frozen[s].target
    => frozen[r].vec[frozen[r].target] # frozen[s].vec[frozen[s].target]

(* The conversation holds exactly the answers of completed runs: a run     *)
(* that ended any other way has left none.                                 *)
AnswersAreCompletions == answers = {r \in Runs : status[r] = "completed"}

(* A queued run is never forgotten: it waits in the queue, or a thread is  *)
(* about to start it; and the queue holds only ids of rows.                *)
QueueOK ==
  /\ queue \in Seq(Runs) /\ created \in Seq(Runs)
  /\ up => \A r \in Runs : status[r] = "queued" =>
              wpc[r] = "starting" \/ \E i \in DOMAIN queue : queue[i] = r
  /\ \A i \in DOMAIN queue : status[queue[i]] # "none"

(* A run that ends leaves no approval, call or step open.  The exception   *)
(* is the failure of a run whose effect had an unknown outcome: its call   *)
(* was approved and stays so.                                              *)
EndedRunsAreSettled ==
  \A r \in Runs : status[r] \in Terminal =>
    /\ approval[r] # "pending"
    /\ \/ /\ call[r] \notin {"awaiting_approval", "approved", "executing"}
          /\ step[r] = call[r] 
       \/ /\ code[r] = "toolOutcomeUnknown" /\ status[r] = "failed"
          /\ call[r] = "approved" /\ step[r] = "awaiting_approval"

(* A live run has a thread that will move it.                              *)
HasExecutor(r) == wpc[r] # "none" \/ apc[r] # "none"

(* What docs/runtime-v2-p0.md:31 says: when the route has changed after a  *)
(* patch was approved, the run ends in failure.                            *)
ApprovedConflictEnds == \A r \in Runs :
  status[r] = "running" /\ call[r] = "completed" /\ ~RouteUnchanged(r)
    ~> status[r] \in Terminal

(* While the process is up no run is left live without a thread, except    *)
(* one that reused an effect of its lineage: see ApprovedConflictEnds.     *)
Reused(r) == call[r] = "completed" /\ artifacts[r] = 0
OnlyReuseOrphans ==
  up => \A r \in Runs : status[r] \in Live => HasExecutor(r) \/ Reused(r)

(* The runs implement the lifecycle they promise.                          *)
Lifecycle == INSTANCE RunLifecycle
               WITH Effects <- EffectKeys, state <- status, answered <- answers,
                    performed <- {<<key[r], r>> : r \in {s \in Runs : artifacts[s] > 0}}
ImplementsLifecycle == Lifecycle!Spec

(* A run somebody can still execute ends, or waits for a decision; and a   *)
(* requested cancellation always converges.                                *)
RunsConverge == \A r \in Runs :
  status[r] \in {"queued", "running"} ~> status[r] \in Terminal \cup {"awaiting_approval"}
CancellationConverges == \A r \in Runs :
  status[r] = "cancelling" ~> status[r] = "cancelled"
=============================================================================
