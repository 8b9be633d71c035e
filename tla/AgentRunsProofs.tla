--------------------------- MODULE AgentRunsProofs ---------------------------
(***************************************************************************)
(* Every step of AgentRuns keeps the rows of each run in agreement with    *)
(* each other and with the threads that move them (RunsAgree).  A step     *)
(* changes the rows of one run, except a crash and a recovery, so that the *)
(* proof is about one run at a time.  The type invariant comes first.      *)
(***************************************************************************)
EXTENDS AgentRunsInvariant, TLAPS
-----------------------------------------------------------------------------
(* The type invariant.  TypeOK is inductive on its own.                     *)

threadVars == <<cpc, wpc, steps, apc>>

(* A group of variables that a step leaves alone keeps its type. *)
LEMMA KeptTypes ==
  /\ GraphType /\ UNCHANGED graphVars => GraphType'
  /\ RowType /\ UNCHANGED rowVars => RowType'
  /\ RunType /\ UNCHANGED runVars => RunType'
  /\ ToolType /\ UNCHANGED toolVars => ToolType'
  /\ EffectType /\ UNCHANGED effectVars => EffectType'
  /\ ProcessType /\ UNCHANGED sysVars => ProcessType'
  /\ ThreadType /\ UNCHANGED threadVars => ThreadType'
<1>1. GraphType /\ UNCHANGED graphVars => GraphType' BY DEF GraphType, graphVars
<1>2. RowType /\ UNCHANGED rowVars => RowType' BY DEF RowType, rowVars
<1>3. RunType /\ UNCHANGED runVars => RunType' BY DEF RunType, runVars
<1>4. ToolType /\ UNCHANGED toolVars => ToolType' BY DEF ToolType, toolVars
<1>5. EffectType /\ UNCHANGED effectVars => EffectType' BY DEF EffectType, effectVars
<1>6. ProcessType /\ UNCHANGED sysVars => ProcessType' BY DEF ProcessType, sysVars
<1>7. ThreadType /\ UNCHANGED threadVars => ThreadType' BY DEF ThreadType, threadVars
<1>8. QED BY <1>1, <1>2, <1>3, <1>4, <1>5, <1>6, <1>7

(* The shared transactions of the run row. *)
LEMMA SetRunType ==
  ASSUME NEW r \in Runs, NEW st \in Statuses, NEW ph \in Phases,
         NEW owner \in {"none", "worker", "approver"},
         RunType, SetRun(r, st, owner, ph), code' \in [Runs -> Codes]
  PROVE  RunType'
  BY DEF RunType, SetRun

LEMMA SettleType ==
  ASSUME NEW r \in Runs, NEW st \in Terminal, NEW c \in Codes, RunType, Settle(r, st, c)
  PROVE  RunType'
  BY DEF RunType, Settle, SetRun, Statuses, Phases

LEMMA CancelRunType ==
  ASSUME NEW r \in Runs, RunType, ToolType, CancelRun(r)
  PROVE  RunType' /\ ToolType'
<1>1. RunType' BY SettleType DEF CancelRun, Terminal, Codes
<1>2. ToolType' BY DEF CancelRun, SetTool, ToolType, CallStatuses, Unstarted
<1>3. QED BY <1>1, <1>2

LEMMA FinishCancelType ==
  ASSUME NEW r \in Runs, RunType, ToolType, FinishCancelIfRequested(r)
  PROVE  RunType' /\ ToolType'
<1>1. CASE CancelRun(r) BY <1>1, CancelRunType
<1>2. CASE UNCHANGED <<runVars, toolVars>> BY <1>2, KeptTypes
<1>3. QED BY <1>1, <1>2 DEF FinishCancelIfRequested

LEMMA FailType ==
  ASSUME NEW r \in Runs, NEW c \in Codes, RunType, ToolType, FailOrFinishCancel(r, c)
  PROVE  RunType' /\ ToolType'
<1>1. CASE Settle(r, "failed", c) /\ UNCHANGED toolVars
  BY <1>1, SettleType, KeptTypes DEF Terminal
<1>2. CASE FinishCancelIfRequested(r) BY <1>2, FinishCancelType
<1>3. QED BY <1>1, <1>2 DEF FailOrFinishCancel

LEMMA CompleteType ==
  ASSUME NEW r \in Runs, RowType, GraphType, RunType, ToolType, EffectType,
         answers \in SUBSET Runs, Complete(r)
  PROVE  /\ GraphType' /\ RunType' /\ ToolType' /\ EffectType'
         /\ answers' \in SUBSET Runs
<1>1. GraphType' BY DEF Complete, GraphType, RowType, Contexts
<1>2. RunType' BY SettleType DEF Complete, Terminal, Codes
<1>3. QED BY <1>1, <1>2, KeptTypes DEF Complete

(* Snapshots taken by a creating thread have the shape of a context. *)
LEMMA ContextType ==
  ASSUME GraphType, NEW n \in Nodes, NEW s \in Runs
  PROVE  [target |-> n, parent |-> s, vec |-> RouteVector(n)] \in Contexts
  BY DEF GraphType, RouteVector, Contexts

LEMMA NoContextType == ASSUME NEW r \in Runs PROVE NoContext(r) \in Contexts
  BY RouteAssumption DEF NoContext, Contexts

LEMMA PrepareType ==
  ASSUME TypeOK, NEW r \in Runs, NEW context \in Contexts, Prepare(r, context)
  PROVE  TypeOK'
<1>1. RowType' BY DEF TypeOK, RowType, Prepare
<1>2. ThreadType' BY DEF TypeOK, ThreadType, Prepare
<1>3. QED BY <1>1, <1>2, KeptTypes DEF TypeOK, Prepare

LEMMA InitType == Init => TypeOK
<1> SUFFICES ASSUME Init PROVE TypeOK OBVIOUS
<1>1. GraphType BY DEF Init, GraphType
<1>2. RowType BY NoContextType DEF Init, RowType
<1>3. RunType BY DEF Init, RunType, Statuses, Phases, Codes
<1>4. ToolType BY DEF Init, ToolType, CallStatuses
<1>5. EffectType BY DEF Init, EffectType, EffectStatuses
<1>6. ProcessType /\ ThreadType BY DEF Init, ProcessType, ThreadType, WorkerPcs, ApproverPcs
<1>7. QED BY <1>1, <1>2, <1>3, <1>4, <1>5, <1>6 DEF Init, TypeOK

(* Creating a run. *)
LEMMA CreationType ==
  ASSUME TypeOK, NEW r \in Runs, PrepareRun(r) \/ PrepareRetry(r) \/ Create(r) \/ RefuseCreate(r)
  PROVE  TypeOK'
<1> USE DEF TypeOK
<1>1. CASE PrepareRun(r) BY <1>1, PrepareType, ContextType DEF PrepareRun
<1>2. CASE PrepareRetry(r)
  <2>1. PICK s \in Runs : Prepare(r, [target |-> frozen[s].target, parent |-> s,
                                       vec |-> RouteVector(frozen[s].target)])
    BY <1>2 DEF PrepareRetry
  <2>2. frozen[s].target \in Nodes BY DEF RowType, Contexts
  <2>3. QED BY <2>1, <2>2, PrepareType, ContextType
<1>3. CASE Create(r)
  <2>1. frozen[r].parent \in Runs BY DEF RowType, Contexts
  <2>2. RowType'
    <3>1. UNCHANGED frozen BY <1>3 DEF Create
    <3>2. CASE root' = [root EXCEPT ![r] = r] /\ attempt' = [attempt EXCEPT ![r] = 1]
      BY <3>1, <3>2 DEF RowType
    <3>3. CASE /\ root' = [root EXCEPT ![r] = root[frozen[r].parent]]
               /\ \E t \in Runs : attempt' = [attempt EXCEPT ![r] = attempt[t] + 1]
      BY <2>1, <3>1, <3>3 DEF RowType
    <3>4. QED BY <1>3, <3>2, <3>3 DEF Create
  <2>3. RunType' BY <1>3 DEF Create, RunType, Statuses
  <2>4. ThreadType' BY <1>3 DEF Create, ThreadType, WorkerPcs
  <2>5. QED BY <1>3, <2>2, <2>3, <2>4, KeptTypes DEF Create
<1>4. CASE RefuseCreate(r)
  <2>1. RowType' BY <1>4, NoContextType DEF RefuseCreate, RowType
  <2>2. ThreadType' BY <1>4 DEF RefuseCreate, ThreadType
  <2>3. QED BY <1>4, <2>1, <2>2, KeptTypes DEF RefuseCreate
<1>5. QED BY <1>1, <1>2, <1>3, <1>4

(* The worker. *)
LEMMA WorkerType ==
  ASSUME TypeOK, NEW r \in Runs, Dequeue(r) \/ Worker(r)
  PROVE  TypeOK'
<1> USE DEF TypeOK
<1>1. CASE Dequeue(r)
  <2>1. ThreadType' BY <1>1 DEF Dequeue, ThreadType, WorkerPcs
  <2>2. QED BY <1>1, <2>1, KeptTypes DEF Dequeue
<1>2. CASE ResumeRefused(r)
  <2>1. RunType' BY <1>2, SettleType, KeptTypes DEF ResumeRefused, Terminal, Codes
  <2>2. ThreadType' BY <1>2 DEF ResumeRefused, WorkerStep, ThreadType, WorkerPcs
  <2>3. QED BY <1>2, <2>1, <2>2, KeptTypes DEF ResumeRefused, WorkerStep
<1>3. CASE Start(r)
  <2>1. RunType'
    BY <1>3, KeptTypes DEF Start, SetRun, RunType, Statuses, Live, Phases
  <2>2. ThreadType' BY <1>3 DEF Start, WorkerStep, ThreadType, WorkerPcs
  <2>3. QED BY <1>3, <2>1, <2>2, KeptTypes DEF Start
<1>4. CASE BeginModel(r)
  <2>1. RunType' /\ ToolType'
    <3>1. CASE FinishCancelIfRequested(r) BY <3>1, FinishCancelType
    <3>2. CASE ~FinishCancelIfRequested(r)
      BY <1>4, <3>2, KeptTypes DEF BeginModel, RunType, ToolType, runVars, toolVars, Phases
    <3>3. QED BY <3>1, <3>2
  <2>2. ThreadType' BY <1>4 DEF BeginModel, WorkerStep, ThreadType, WorkerPcs
  <2>3. QED BY <1>4, <2>1, <2>2, KeptTypes DEF BeginModel
<1>5. CASE ModelReturns(r)
  <2>1. RunType' BY <1>5 DEF ModelReturns, RunType, Phases
  <2>2. ThreadType' BY <1>5 DEF ModelReturns, WorkerStep, ThreadType, WorkerPcs
  <2>3. QED BY <1>5, <2>1, <2>2, KeptTypes DEF ModelReturns
<1>6. CASE CommitFinal(r)
  <2>1. GraphType' /\ RunType' /\ ToolType' /\ EffectType' /\ answers' \in SUBSET Runs
    BY <1>6, CompleteType, FinishCancelType, KeptTypes DEF CommitFinal
  <2>2. ThreadType' BY <1>6 DEF CommitFinal, WorkerStep, ThreadType, WorkerPcs
  <2>3. QED BY <1>6, <2>1, <2>2, KeptTypes DEF CommitFinal
<1>7. CASE BeginRead(r)
  <2>1. RunType' /\ ToolType'
    <3>1. CASE FinishCancelIfRequested(r) BY <3>1, FinishCancelType
    <3>2. CASE ~FinishCancelIfRequested(r)
      BY <1>7, <3>2, KeptTypes DEF BeginRead, RunType, ToolType, toolVars, Phases
    <3>3. QED BY <3>1, <3>2
  <2>2. ThreadType' BY <1>7 DEF BeginRead, WorkerStep, ThreadType, WorkerPcs
  <2>3. QED BY <1>7, <2>1, <2>2, KeptTypes DEF BeginRead
<1>8. CASE FinishRead(r)
  <2>1. RunType' /\ ToolType' BY <1>8, FinishCancelType, KeptTypes DEF FinishRead
  <2>2. ThreadType' BY <1>8 DEF FinishRead, WorkerStep, ThreadType, WorkerPcs
  <2>3. QED BY <1>8, <2>1, <2>2, KeptTypes DEF FinishRead
<1>9. CASE RequestApproval(r)
  <2>1. ThreadType' BY <1>9 DEF RequestApproval, WorkerStep, ThreadType, WorkerPcs
  <2>2. CASE status[r] # "running"
    BY <1>9, <2>1, <2>2, FinishCancelType, KeptTypes DEF RequestApproval
  <2>3. CASE status[r] = "running"
    <3>1. RunType' BY <1>9, <2>3 DEF RequestApproval, SetRun, RunType, Statuses, Phases
    <3>2. ToolType' BY <1>9, <2>3 DEF RequestApproval, SetTool, ToolType, CallStatuses
    <3>3. PICK a \in Args :
             /\ key' = [key EXCEPT ![r] = <<root[r], a>>]
             /\ effect' = [effect EXCEPT ![<<root[r], a>>] = IF @ = "none" THEN "prepared" ELSE @]
      BY <1>9, <2>3 DEF RequestApproval
    <3>4. <<root[r], a>> \in EffectKeys BY DEF EffectKeys, RowType
    <3>5. UNCHANGED artifacts BY <1>9, <2>3 DEF RequestApproval
    <3>6. EffectType' BY <3>3, <3>4, <3>5 DEF EffectType, EffectStatuses
    <3>7. QED BY <1>9, <2>1, <3>1, <3>2, <3>6, KeptTypes DEF RequestApproval
  <2>4. QED BY <2>2, <2>3
<1>10. CASE WorkerFails(r)
  <2>1. RunType' /\ ToolType' BY <1>10, FailType DEF WorkerFails, Codes
  <2>2. ThreadType' BY <1>10 DEF WorkerFails, WorkerStep, ThreadType, WorkerPcs
  <2>3. QED BY <1>10, <2>1, <2>2, KeptTypes DEF WorkerFails
<1>11. CASE WorkerReleases(r)
  <2>1. RunType' BY <1>11 DEF WorkerReleases, ReleaseLease, RunType, Phases
  <2>2. ThreadType' BY <1>11 DEF WorkerReleases, WorkerStep, ThreadType, WorkerPcs
  <2>3. QED BY <1>11, <2>1, <2>2, KeptTypes DEF WorkerReleases
<1>12. QED BY <1>1, <1>2, <1>3, <1>4, <1>5, <1>6, <1>7, <1>8, <1>9, <1>10, <1>11 DEF Worker

(* The approving thread. *)
LEMMA ApproverType ==
  ASSUME TypeOK, NEW r \in Runs,
         Approver(r) \/ \E d \in {"approved", "rejected"} : DecideApproval(r, d)
  PROVE  TypeOK'
<1> USE DEF TypeOK, approverFrame, ApproverStep
<1>1. ASSUME NEW to \in ApproverPcs, apc' = [apc EXCEPT ![r] = to], UNCHANGED approverFrame
      PROVE  ThreadType' /\ RowType' /\ ProcessType'
  <2>1. ThreadType' BY <1>1 DEF ThreadType
  <2>2. QED BY <1>1, <2>1, KeptTypes
<1>2. ASSUME NEW d \in {"approved", "rejected"}, DecideApproval(r, d) PROVE TypeOK'
  <2>1. RunType' /\ ToolType'
    <3>1. CASE UNCHANGED <<runVars, toolVars>> BY <3>1, KeptTypes
    <3>2. CASE ~UNCHANGED <<runVars, toolVars>>
      <4>1. RunType' BY <1>2, <3>2 DEF DecideApproval, SetRun, RunType, Statuses, Live, Terminal, Phases, Codes
      <4>2. ToolType' BY <1>2, <3>2 DEF DecideApproval, SetTool, ToolType, CallStatuses
      <4>3. QED BY <4>1, <4>2
    <3>3. QED BY <3>1, <3>2
  <2>2. ThreadType' BY <1>2 DEF DecideApproval, ThreadType, ApproverPcs
  <2>3. QED BY <1>2, <2>1, <2>2, KeptTypes DEF DecideApproval
<1>3. CASE ApproverChecks(r)
  <2>1. RunType' /\ ToolType' BY <1>3, FinishCancelType, KeptTypes DEF ApproverChecks
  <2>2. QED BY <1>1, <1>3, <2>1, KeptTypes DEF ApproverChecks, ApproverPcs
<1>4. CASE ClaimTool(r)
  <2>1. RunType' BY <1>4, SetRunType DEF ClaimTool, RunType, Statuses, Live, Phases
  <2>2. ToolType' BY <1>4 DEF ClaimTool, SetTool, ToolType, CallStatuses
  <2>3. EffectType' BY <1>4 DEF ClaimTool, EffectType, EffectStatuses
  <2>4. QED BY <1>1, <1>4, <2>1, <2>2, <2>3, KeptTypes DEF ClaimTool, ApproverPcs
<1>5. CASE ReuseEffect(r)
  <2>1. RunType' BY <1>5, SetRunType DEF ReuseEffect, RunType, Statuses, Live, Phases
  <2>2. ToolType' BY <1>5 DEF ReuseEffect, SetTool, ToolType, CallStatuses
  <2>3. QED BY <1>1, <1>5, <2>1, <2>2, KeptTypes DEF ReuseEffect, ApproverPcs
<1>6. CASE RefuseClaim(r)
  <2>1. RunType' /\ ToolType' BY <1>6, FailType, FinishCancelType DEF RefuseClaim, Codes
  <2>2. QED BY <1>1, <1>6, <2>1, KeptTypes DEF RefuseClaim, ApproverPcs
<1>7. CASE SaveArtifact(r)
  <2>1. RunType' BY <1>7 DEF SaveArtifact, RunType, Phases
  <2>2. EffectType' BY <1>7 DEF SaveArtifact, EffectType
  <2>3. QED BY <1>1, <1>7, <2>1, <2>2, KeptTypes DEF SaveArtifact, ApproverPcs
<1>8. CASE ToolRaises(r) BY <1>1, <1>8, KeptTypes DEF ToolRaises, ApproverPcs
<1>9. CASE FinishTool(r)
  <2>1. RunType' BY <1>9 DEF FinishTool, RunType, Phases
  <2>2. ToolType' BY <1>9 DEF FinishTool, SetTool, ToolType, CallStatuses
  <2>3. EffectType' BY <1>9 DEF FinishTool, EffectType, EffectStatuses
  <2>4. QED BY <1>1, <1>9, <2>1, <2>2, <2>3, KeptTypes DEF FinishTool, ApproverPcs
<1>10. CASE CommitPatch(r)
  <2>1. GraphType' /\ RunType' /\ ToolType' /\ EffectType' /\ answers' \in SUBSET Runs
    BY <1>10, CompleteType, FailType, KeptTypes DEF CommitPatch, Codes
  <2>2. QED BY <1>1, <1>10, <2>1, KeptTypes DEF CommitPatch, ApproverPcs
<1>11. CASE CommitReused(r)
  <2>1. GraphType' /\ RunType' /\ ToolType' /\ EffectType' /\ answers' \in SUBSET Runs
    BY <1>11, CompleteType, KeptTypes DEF CommitReused
  <2>2. QED BY <1>1, <1>11, <2>1, KeptTypes DEF CommitReused, ApproverPcs
<1>12. CASE ApproverFails(r)
  <2>1. RunType' /\ ToolType' BY <1>12, FailType DEF ApproverFails, Codes
  <2>2. QED BY <1>1, <1>12, <2>1, KeptTypes DEF ApproverFails, ApproverPcs
<1>13. CASE ApproverReleases(r)
  <2>1. RunType' BY <1>13 DEF ApproverReleases, ReleaseLease, RunType, Phases
  <2>2. QED BY <1>1, <1>13, <2>1, KeptTypes DEF ApproverReleases, ApproverPcs
<1>14. QED
  BY <1>2, <1>3, <1>4, <1>5, <1>6, <1>7, <1>8, <1>9, <1>10, <1>11, <1>12, <1>13 DEF Approver

(* Cancellation, the conversation, and the process. *)
LEMMA CancelRequestType ==
  ASSUME TypeOK, NEW r \in Runs, RequestCancel(r)
  PROVE  TypeOK'
<1> USE DEF TypeOK
<1>1. RunType' /\ ToolType'
  <2>1. CASE CancelRun(r) BY <2>1, CancelRunType
  <2>2. CASE status' = [status EXCEPT ![r] = "cancelling"] /\ UNCHANGED <<lease, phase, code, toolVars>>
    BY <2>2, KeptTypes DEF RunType, Statuses, Live
  <2>3. QED BY <2>1, <2>2 DEF RequestCancel
<1>2. QED BY <1>1, KeptTypes DEF RequestCancel, threadVars

LEMMA ConversationType ==
  ASSUME TypeOK, NEW n \in Nodes, EditConversation(n) \/ Prune(n)
  PROVE  TypeOK'
<1> USE DEF TypeOK
<1>1. CASE EditConversation(n)
  <2>1. GraphType' BY <1>1 DEF EditConversation, GraphType
  <2>2. QED BY <1>1, <2>1, KeptTypes DEF EditConversation, threadVars
<1>2. CASE Prune(n)
  <2>1. GraphType' BY <1>2 DEF Prune, GraphType
  <2>2. QED BY <1>2, <2>1, KeptTypes DEF Prune, threadVars
<1>3. QED BY <1>1, <1>2

LEMMA CrashType == ASSUME TypeOK, Crash PROVE TypeOK'
<1> USE DEF TypeOK
<1>1. RowType' BY NoContextType DEF Crash, RowType
<1>2. ProcessType'
  <2>1. up' = FALSE /\ crashes' = crashes + 1 BY DEF Crash
  <2>2. up' \in BOOLEAN BY <2>1
  <2>3. crashes' \in Nat BY <2>1 DEF ProcessType
  <2>4. QED BY <2>2, <2>3 DEF ProcessType
<1>3. ThreadType'
  <2>1. cpc' \in [Runs -> {"none", "prepared"}] BY DEF Crash
  <2>2. wpc' \in [Runs -> WorkerPcs] /\ apc' \in [Runs -> ApproverPcs]
    BY DEF Crash, WorkerPcs, ApproverPcs
  <2>3. steps' \in [Runs -> Nat] BY DEF Crash
  <2>4. QED BY <2>1, <2>2, <2>3 DEF ThreadType
<1>4. QED BY <1>1, <1>2, <1>3, KeptTypes DEF Crash

LEMMA RecoverType == ASSUME TypeOK, Recover PROVE TypeOK'
<1> USE DEF TypeOK
<1>1. status' \in [Runs -> Statuses] BY DEF Recover, RunType, Statuses, Terminal
<1>2. lease' \in [Runs -> {"none", "worker", "approver"}] /\ phase' \in [Runs -> Phases]
  BY DEF Recover, RunType, Phases
<1>3. code' \in [Runs -> Codes] BY DEF Recover, RecoveredCode, RunType, Codes
<1>4. ToolType' BY DEF Recover, Recovered, ToolType, CallStatuses
<1>5. EffectType' BY DEF Recover, RecoveredEffect, EffectType, EffectStatuses
<1>6. ProcessType' BY DEF Recover, ProcessType
<1>7. QED BY <1>1, <1>2, <1>3, <1>4, <1>5, <1>6, KeptTypes DEF Recover, RunType, threadVars

LEMMA TypeStep == TypeOK /\ [Next]_vars => TypeOK'
<1> SUFFICES ASSUME TypeOK, [Next]_vars PROVE TypeOK' OBVIOUS
<1>1. ASSUME NEW r \in Runs, RequestCancel(r) PROVE TypeOK' BY <1>1, CancelRequestType
<1>2. CASE Next
  BY <1>1, <1>2, CreationType, WorkerType, ApproverType, ConversationType, CrashType, RecoverType
  DEF Next
<1>3. CASE UNCHANGED vars BY <1>3, KeptTypes DEF vars, TypeOK, threadVars
<1>4. QED BY <1>2, <1>3

(* Every reachable state is well typed: no transaction writes a status     *)
(* into a column that does not know it.                                    *)
THEOREM TypeCorrect == Spec => []TypeOK
  BY InitType, TypeStep, PTL DEF Spec
-----------------------------------------------------------------------------

(* What RunAgrees says about a run depends on these columns and counters. *)
RunView(q) == <<status[q], lease[q], phase[q], code[q], approval[q], call[q], step[q],
                key[q], artifacts[q], wpc[q], cpc[q], apc[q]>>
OnlyTouches(r) == up' = up /\ \A q \in Runs \ {r} : RunView(q)' = RunView(q)

LEMMA KeptView ==
  ASSUME NEW q \in Runs, RunAgrees(q), up' = up, RunView(q)' = RunView(q)
  PROVE  RunAgrees(q)'
<1> USE DEF RunView
<1>1. ToolRowsAgree(q)' BY DEF RunAgrees, ToolRowsAgree
<1>2. StatusAgrees(q)' BY DEF RunAgrees, StatusAgrees
<1>3. WorkerAgrees(q)' BY DEF RunAgrees, WorkerAgrees, WorkerActive, Holds
<1>4. ApproverAgrees(q)' BY DEF RunAgrees, ApproverAgrees, ApproverActive, Holds
<1>5. LiveRunsAreHeld(q)' BY DEF RunAgrees, LiveRunsAreHeld, WorkerActive, Reused
<1>6. QED BY <1>1, <1>2, <1>3, <1>4, <1>5 DEF RunAgrees

LEMMA OneRunSuffices ==
  ASSUME NEW r \in Runs, RunsAgree, OnlyTouches(r), RunAgrees(r)'
  PROVE  RunsAgree'
<1> SUFFICES ASSUME NEW q \in Runs \ {r} PROVE RunAgrees(q)' BY DEF RunsAgree
<1>1. RunAgrees(q) /\ up' = up /\ RunView(q)' = RunView(q) BY DEF RunsAgree, OnlyTouches
<1>2. QED BY <1>1, KeptView

-----------------------------------------------------------------------------
(* What the shared transactions do to the row of their run.                *)

SameRun(r) == /\ status'[r] = status[r] /\ lease'[r] = lease[r]
              /\ phase'[r] = phase[r] /\ code'[r] = code[r]
SameTool(r) == approval'[r] = approval[r] /\ call'[r] = call[r] /\ step'[r] = step[r]
SameEffect(r) == key'[r] = key[r] /\ artifacts'[r] = artifacts[r]
SettledAt(r, st, c) == /\ status'[r] = st /\ code'[r] = c
                       /\ lease'[r] = "none" /\ phase'[r] = "none"
CancelledAt(r) ==
  /\ SettledAt(r, "cancelled", "runCancelled")
  /\ approval'[r] = IF approval[r] = "pending" THEN "rejected" ELSE approval[r]
  /\ call'[r] = IF call[r] \in Unstarted THEN "cancelled" ELSE call[r]
  /\ step'[r] = IF step[r] \in Unstarted THEN "cancelled" ELSE step[r]

LEMMA SettleAt ==
  ASSUME TypeOK, NEW r \in Runs, NEW st, NEW c, Settle(r, st, c)
  PROVE  SettledAt(r, st, c)
  BY DEF TypeOK, RunType, Settle, SetRun, SettledAt

LEMMA CancelRunAt ==
  ASSUME TypeOK, NEW r \in Runs, CancelRun(r)
  PROVE  CancelledAt(r)
  BY SettleAt DEF TypeOK, ToolType, CancelRun, SetTool, CancelledAt

LEMMA FinishCancelAt ==
  ASSUME TypeOK, NEW r \in Runs, FinishCancelIfRequested(r)
  PROVE  \/ status[r] = "cancelling" /\ CancelledAt(r)
         \/ status[r] # "cancelling" /\ SameRun(r) /\ SameTool(r)
  BY CancelRunAt DEF FinishCancelIfRequested, runVars, toolVars, SameRun, SameTool

LEMMA FailAt ==
  ASSUME TypeOK, NEW r \in Runs, NEW c, FailOrFinishCancel(r, c)
  PROVE  \/ /\ status[r] \in {"queued", "running", "awaiting_approval"}
            /\ SettledAt(r, "failed", c) /\ SameTool(r)
         \/ status[r] = "cancelling" /\ CancelledAt(r)
         \/ /\ status[r] \notin {"queued", "running", "awaiting_approval", "cancelling"}
            /\ SameRun(r) /\ SameTool(r)
  BY SettleAt, FinishCancelAt DEF FailOrFinishCancel, toolVars, SameTool

LEMMA CompleteAt ==
  ASSUME TypeOK, NEW r \in Runs, Complete(r)
  PROVE  SettledAt(r, "completed", "none") /\ SameTool(r) /\ SameEffect(r)
  BY SettleAt DEF Complete, toolVars, effectVars, SameTool, SameEffect

-----------------------------------------------------------------------------
(* Every action on a run leaves the rows of the others alone.              *)

(* Requests: creation and cancellation. *)
LEMMA RequestsTouchOneRun ==
  ASSUME TypeOK, NEW r \in Runs, PrepareRun(r) \/ PrepareRetry(r) \/ Create(r) \/ RefuseCreate(r) \/ RequestCancel(r)
  PROVE  OnlyTouches(r)
<1> USE DEF TypeOK, RunType, ToolType, EffectType, ThreadType, OnlyTouches, RunView
<1> USE DEF SetRun, Settle, SetTool, WorkerStep, ApproverStep, approverFrame
<1> USE DEF graphVars, rowVars, runVars, toolVars, effectVars, sysVars
<1>1. CASE PrepareRun(r) BY <1>1 DEF PrepareRun, Prepare
<1>2. CASE PrepareRetry(r) BY <1>2 DEF PrepareRetry, Prepare
<1>3. CASE Create(r) BY <1>3 DEF Create
<1>4. CASE RefuseCreate(r) BY <1>4 DEF RefuseCreate
<1>5. CASE RequestCancel(r) BY <1>5 DEF RequestCancel, CancelRun
<1>6. QED BY <1>1, <1>2, <1>3, <1>4, <1>5

(* The worker. *)
LEMMA WorkerTouchesOneRun ==
  ASSUME TypeOK, NEW r \in Runs, Dequeue(r) \/ Worker(r)
  PROVE  OnlyTouches(r)
<1> USE DEF TypeOK, RunType, ToolType, EffectType, ThreadType, OnlyTouches, RunView
<1> USE DEF SetRun, Settle, SetTool, WorkerStep, ApproverStep, approverFrame
<1> USE DEF graphVars, rowVars, runVars, toolVars, effectVars, sysVars
<1>1. CASE Dequeue(r) BY <1>1 DEF Dequeue
<1>2. CASE ResumeRefused(r) BY <1>2 DEF ResumeRefused
<1>3. CASE Start(r) BY <1>3 DEF Start
<1>4. CASE BeginModel(r) BY <1>4 DEF BeginModel, FinishCancelIfRequested, CancelRun
<1>5. CASE ModelReturns(r) BY <1>5 DEF ModelReturns
<1>6. CASE CommitFinal(r)
  <2>1. CASE CanComplete(r) BY <1>6, <2>1 DEF CommitFinal, Complete
  <2>2. CASE ~CanComplete(r)
    BY <1>6, <2>2 DEF CommitFinal, FinishCancelIfRequested, CancelRun
  <2>3. QED BY <2>1, <2>2
<1>7. CASE BeginRead(r) BY <1>7 DEF BeginRead, FinishCancelIfRequested, CancelRun
<1>8. CASE FinishRead(r) BY <1>8 DEF FinishRead, FinishCancelIfRequested, CancelRun
<1>9. CASE RequestApproval(r)
  <2>1. CASE status[r] = "running"
    <3>1. PICK e : key' = [key EXCEPT ![r] = e] BY <1>9, <2>1 DEF RequestApproval
    <3>2. QED BY <1>9, <2>1, <3>1 DEF RequestApproval
  <2>2. CASE status[r] # "running"
    BY <1>9, <2>2 DEF RequestApproval, FinishCancelIfRequested, CancelRun
  <2>3. QED BY <2>1, <2>2
<1>10. CASE WorkerFails(r) BY <1>10 DEF WorkerFails, FailOrFinishCancel, FinishCancelIfRequested, CancelRun
<1>11. CASE WorkerReleases(r) BY <1>11 DEF WorkerReleases, ReleaseLease
<1>12. QED BY <1>1, <1>2, <1>3, <1>4, <1>5, <1>6, <1>7, <1>8, <1>9, <1>10, <1>11 DEF Worker

(* The approving thread. *)
LEMMA ApproverTouchesOneRun ==
  ASSUME TypeOK, NEW r \in Runs, Approver(r) \/ \E d \in {"approved", "rejected"} : DecideApproval(r, d)
  PROVE  OnlyTouches(r)
<1> USE DEF TypeOK, RunType, ToolType, EffectType, ThreadType, OnlyTouches, RunView
<1> USE DEF SetRun, Settle, SetTool, WorkerStep, ApproverStep, approverFrame
<1> USE DEF graphVars, rowVars, runVars, toolVars, effectVars, sysVars
<1>1. CASE ApproverChecks(r) BY <1>1 DEF ApproverChecks, FinishCancelIfRequested, CancelRun
<1>2. CASE ClaimTool(r) BY <1>2 DEF ClaimTool
<1>3. CASE ReuseEffect(r) BY <1>3 DEF ReuseEffect
<1>4. CASE RefuseClaim(r) BY <1>4 DEF RefuseClaim, FailOrFinishCancel, FinishCancelIfRequested, CancelRun
<1>5. CASE SaveArtifact(r) BY <1>5 DEF SaveArtifact
<1>6. CASE ToolRaises(r) BY <1>6 DEF ToolRaises
<1>7. CASE FinishTool(r) BY <1>7 DEF FinishTool
<1>8. CASE CommitPatch(r) BY <1>8 DEF CommitPatch, Complete, FailOrFinishCancel, FinishCancelIfRequested, CancelRun
<1>9. CASE CommitReused(r) BY <1>9 DEF CommitReused, Complete
<1>10. CASE ApproverFails(r) BY <1>10 DEF ApproverFails, FailOrFinishCancel, FinishCancelIfRequested, CancelRun
<1>11. CASE ApproverReleases(r) BY <1>11 DEF ApproverReleases, ReleaseLease
<1>12. ASSUME NEW d, DecideApproval(r, d) PROVE OnlyTouches(r) BY <1>12 DEF DecideApproval
<1>13. QED BY <1>1, <1>2, <1>3, <1>4, <1>5, <1>6, <1>7, <1>8, <1>9, <1>10, <1>11, <1>12 DEF Approver

-----------------------------------------------------------------------------
(* Every action on a run keeps the rows of that run in agreement.          *)

(* Creation and cancellation. *)
LEMMA RequestKeepsAgreement ==
  ASSUME TypeOK, NEW r \in Runs, RunAgrees(r),
         PrepareRun(r) \/ PrepareRetry(r) \/ Create(r) \/ RefuseCreate(r) \/ RequestCancel(r)
  PROVE  RunAgrees(r)'
<1> USE DEF RunAgrees, ToolRowsAgree, StatusAgrees, WorkerAgrees, ApproverAgrees, LiveRunsAreHeld
<1> USE DEF WorkerActive, ApproverActive, Holds, Reused, Live, Terminal, Unstarted
<1> USE DEF SameRun, SameTool, SameEffect, SettledAt, CancelledAt
<1> USE DEF TypeOK, RunType, ToolType, EffectType, ThreadType, SetRun, SetTool
<1> USE DEF graphVars, rowVars, runVars, toolVars, effectVars, sysVars
<1>1. CASE PrepareRun(r) BY <1>1 DEF PrepareRun, Prepare
<1>2. CASE PrepareRetry(r) BY <1>2 DEF PrepareRetry, Prepare
<1>3. CASE Create(r) BY <1>3 DEF Create
<1>4. CASE RefuseCreate(r) BY <1>4 DEF RefuseCreate
<1>5. CASE RequestCancel(r) BY <1>5, CancelRunAt DEF RequestCancel
<1>6. QED
  BY <1>1, <1>2, <1>3, <1>4, <1>5

(* The worker. *)
LEMMA WorkerKeepsAgreement ==
  ASSUME TypeOK, NEW r \in Runs, RunAgrees(r),
         Dequeue(r) \/ Worker(r)
  PROVE  RunAgrees(r)'
<1> USE DEF RunAgrees, ToolRowsAgree, StatusAgrees, WorkerAgrees, ApproverAgrees, LiveRunsAreHeld
<1> USE DEF WorkerActive, ApproverActive, Holds, Reused, Live, Terminal, Unstarted
<1> USE DEF SameRun, SameTool, SameEffect, SettledAt, CancelledAt
<1> USE DEF TypeOK, RunType, ToolType, EffectType, ThreadType, SetRun, SetTool
<1> USE DEF graphVars, rowVars, runVars, toolVars, effectVars, sysVars
<1> USE DEF WorkerStep, ApproverStep, approverFrame
<1>1. CASE Dequeue(r) BY <1>1 DEF Dequeue
<1>2. CASE ResumeRefused(r) BY <1>2, SettleAt DEF ResumeRefused
<1>3. CASE Start(r) BY <1>3 DEF Start
<1>4. CASE BeginModel(r) BY <1>4, FinishCancelAt DEF BeginModel
<1>5. CASE ModelReturns(r) BY <1>5 DEF ModelReturns
<1>6. CASE CommitFinal(r) BY <1>6, CompleteAt, FinishCancelAt DEF CommitFinal, CanComplete
<1>7. CASE BeginRead(r) BY <1>7, FinishCancelAt DEF BeginRead
<1>8. CASE FinishRead(r) BY <1>8, FinishCancelAt DEF FinishRead
<1>9. CASE RequestApproval(r)
  <2>1. CASE status[r] # "running" BY <1>9, <2>1, FinishCancelAt DEF RequestApproval
  <2>2. CASE status[r] = "running"
    <3>1. PICK a \in Args : key'[r] = <<root[r], a>> BY <1>9, <2>2 DEF RequestApproval
    <3>2. key'[r] \in EffectKeys BY <3>1 DEF EffectKeys, RowType
    <3>3. /\ status'[r] = "awaiting_approval" /\ phase'[r] = "awaiting_approval"
          /\ approval'[r] = "pending"
          /\ call'[r] = "awaiting_approval" /\ step'[r] = "awaiting_approval"
      BY <1>9, <2>2 DEF RequestApproval
    <3>4. /\ up' = up /\ wpc[r] = "patch" /\ wpc'[r] = "release"
          /\ apc'[r] = apc[r] /\ cpc'[r] = cpc[r] /\ artifacts'[r] = artifacts[r]
      BY <1>9, <2>2 DEF RequestApproval
    <3>5. QED BY <3>2, <3>3, <3>4
  <2>3. QED BY <2>1, <2>2
<1>10. CASE WorkerFails(r) BY <1>10, FailAt DEF WorkerFails
<1>11. CASE WorkerReleases(r) BY <1>11 DEF WorkerReleases, ReleaseLease
<1>12. QED
  BY <1>1, <1>2, <1>3, <1>4, <1>5, <1>6, <1>7, <1>8, <1>9, <1>10, <1>11
  DEF Worker

(* The approving thread. *)
LEMMA ApproverKeepsAgreement ==
  ASSUME TypeOK, NEW r \in Runs, RunAgrees(r),
         Approver(r) \/ \E d \in {"approved", "rejected"} : DecideApproval(r, d)
  PROVE  RunAgrees(r)'
<1> USE DEF RunAgrees, ToolRowsAgree, StatusAgrees, WorkerAgrees, ApproverAgrees, LiveRunsAreHeld
<1> USE DEF WorkerActive, ApproverActive, Holds, Reused, Live, Terminal, Unstarted
<1> USE DEF SameRun, SameTool, SameEffect, SettledAt, CancelledAt
<1> USE DEF TypeOK, RunType, ToolType, EffectType, ThreadType, SetRun, SetTool
<1> USE DEF graphVars, rowVars, runVars, toolVars, effectVars, sysVars
<1> USE DEF WorkerStep, ApproverStep, approverFrame
<1>1. CASE ApproverChecks(r) BY <1>1, FinishCancelAt DEF ApproverChecks
<1>2. CASE ClaimTool(r) BY <1>2 DEF ClaimTool, CanClaim
<1>3. CASE ReuseEffect(r) BY <1>3 DEF ReuseEffect, CanClaim
<1>4. CASE RefuseClaim(r) BY <1>4, FailAt, FinishCancelAt DEF RefuseClaim, CanClaim
<1>5. CASE SaveArtifact(r) BY <1>5 DEF SaveArtifact
<1>6. CASE ToolRaises(r) BY <1>6 DEF ToolRaises
<1>7. CASE FinishTool(r) BY <1>7 DEF FinishTool
<1>8. CASE CommitPatch(r) BY <1>8, CompleteAt, FailAt DEF CommitPatch, CanComplete
<1>9. CASE CommitReused(r) BY <1>9, CompleteAt DEF CommitReused, CanComplete
<1>10. CASE ApproverFails(r) BY <1>10, FailAt DEF ApproverFails
<1>11. CASE ApproverReleases(r) BY <1>11 DEF ApproverReleases, ReleaseLease
<1>12. ASSUME NEW d, DecideApproval(r, d) PROVE RunAgrees(r)' BY <1>12 DEF DecideApproval
<1>13. QED
  BY <1>1, <1>2, <1>3, <1>4, <1>5, <1>6, <1>7, <1>8, <1>9, <1>10, <1>11, <1>12
  DEF Approver

(* A crash ends every thread; the start that follows it settles every run  *)
(* that had one.                                                           *)
LEMMA CrashKeepsAgreement ==
  ASSUME TypeOK, RunsAgree, Crash
  PROVE  RunsAgree'
<1> SUFFICES ASSUME NEW r \in Runs PROVE RunAgrees(r)' BY DEF RunsAgree
<1>1. RunAgrees(r) BY DEF RunsAgree
<1> USE DEF RunAgrees, ToolRowsAgree, StatusAgrees, WorkerAgrees, ApproverAgrees, LiveRunsAreHeld
<1> USE DEF WorkerActive, ApproverActive, Holds, Reused
<1>2. QED BY <1>1 DEF Crash, runVars, toolVars, effectVars

LEMMA RecoverKeepsAgreement ==
  ASSUME TypeOK, RunsAgree, Recover
  PROVE  RunsAgree'
<1> SUFFICES ASSUME NEW r \in Runs PROVE RunAgrees(r)' BY DEF RunsAgree
<1>1. RunAgrees(r) BY DEF RunsAgree
<1> USE DEF RunAgrees, ToolRowsAgree, StatusAgrees, WorkerAgrees, ApproverAgrees, LiveRunsAreHeld
<1> USE DEF WorkerActive, ApproverActive, Holds, Reused, Live, Terminal, Unstarted
<1>2. QED BY <1>1 DEF Recover, Recovered, RecoveredCode, Interrupted, Cancelling

LEMMA InitAgrees == Init => RunsAgree
<1> SUFFICES ASSUME Init, NEW r \in Runs PROVE RunAgrees(r) BY DEF RunsAgree
<1> USE DEF RunAgrees, ToolRowsAgree, StatusAgrees, WorkerAgrees, ApproverAgrees, LiveRunsAreHeld
<1> USE DEF WorkerActive, ApproverActive, Reused, Live, Terminal
<1>1. QED BY DEF Init

LEMMA AgreementStep == TypeOK /\ RunsAgree /\ [Next]_vars => RunsAgree'
<1> SUFFICES ASSUME TypeOK, RunsAgree, [Next]_vars PROVE RunsAgree' OBVIOUS
<1>1. ASSUME NEW r \in Runs,
             \/ PrepareRun(r) \/ PrepareRetry(r) \/ Create(r) \/ RefuseCreate(r)
             \/ RequestCancel(r)
      PROVE  RunsAgree'
  BY <1>1, RequestKeepsAgreement, RequestsTouchOneRun, OneRunSuffices DEF RunsAgree
<1>2. ASSUME NEW r \in Runs, Dequeue(r) \/ Worker(r) PROVE RunsAgree'
  BY <1>2, WorkerKeepsAgreement, WorkerTouchesOneRun, OneRunSuffices DEF RunsAgree
<1>3. ASSUME NEW r \in Runs,
             Approver(r) \/ \E d \in {"approved", "rejected"} : DecideApproval(r, d)
      PROVE  RunsAgree'
  BY <1>3, ApproverKeepsAgreement, ApproverTouchesOneRun, OneRunSuffices DEF RunsAgree
<1>4. ASSUME UNCHANGED <<up, runVars, toolVars, effectVars, cpc, wpc, apc>> PROVE RunsAgree'
  BY <1>4, KeptView DEF RunsAgree, RunView, runVars, toolVars, effectVars
<1>5. ASSUME NEW n \in Nodes, EditConversation(n) \/ Prune(n) PROVE RunsAgree'
  BY <1>4, <1>5 DEF EditConversation, Prune, sysVars
<1>6. CASE Next
  BY <1>1, <1>2, <1>3, <1>5, <1>6, CrashKeepsAgreement, RecoverKeepsAgreement DEF Next
<1>7. CASE UNCHANGED vars BY <1>4, <1>7 DEF vars, sysVars
<1>8. QED BY <1>6, <1>7

(* The rows, leases and threads of every run agree in every reachable       *)
(* state: the part of the inductive invariant that speaks of single runs.  *)
THEOREM AgreementInvariant == Spec => []RunsAgree
  BY InitAgrees, InitType, TypeStep, AgreementStep, TypeCorrect, PTL DEF Spec
=============================================================================
