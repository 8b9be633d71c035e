---------------------------- MODULE AgentRunsSafety ----------------------------
(***************************************************************************)
(* The safety theorems of AgentRuns: side effects happen at most once and  *)
(* only when approved, the effect journal tells the truth, answers are     *)
(* those of completed runs, no two of them to one revision, and the runs   *)
(* implement their lifecycle.                                              *)
(***************************************************************************)
EXTENDS AgentRunsProofs

(* Effects.  A step that leaves keys, effects, artifacts and the set of    *)
(* executing calls alone keeps the journal in agreement.                   *)
QuietCalls(r) == call'[r] = "executing" <=> call[r] = "executing"

LEMMA QuietEffects ==
  ASSUME EffectsAgree, UNCHANGED effectVars, \A r \in Runs : QuietCalls(r)
  PROVE  EffectsAgree'
  BY DEF EffectsAgree, effectVars, QuietCalls, Begun

LEMMA QuietRun ==
  ASSUME EffectsAgree, NEW r \in Runs, OnlyTouches(r), UNCHANGED effectVars, QuietCalls(r)
  PROVE  EffectsAgree'
<1>1. \A q \in Runs : QuietCalls(q) BY DEF OnlyTouches, RunView, QuietCalls
<1>2. QED BY <1>1, QuietEffects

(* A cancellation never touches a call that is executing. *)
LEMMA QuietExits ==
  ASSUME TypeOK, NEW r \in Runs,
         CancelledAt(r) \/ SameTool(r)
  PROVE  QuietCalls(r)
  BY DEF CancelledAt, SameTool, QuietCalls, Unstarted

LEMMA RequestsKeepEffects ==
  ASSUME TypeOK, EffectsAgree, NEW r \in Runs,
         PrepareRun(r) \/ PrepareRetry(r) \/ Create(r) \/ RefuseCreate(r) \/ RequestCancel(r)
  PROVE  EffectsAgree'
<1>1. UNCHANGED effectVars
  BY DEF PrepareRun, PrepareRetry, Prepare, Create, RefuseCreate, RequestCancel
<1>2. CancelledAt(r) \/ SameTool(r)
  BY CancelRunAt DEF PrepareRun, PrepareRetry, Prepare, Create, RefuseCreate, RequestCancel,
                     toolVars, SameTool
<1>3. QED BY <1>1, <1>2, RequestsTouchOneRun, QuietExits, QuietRun

LEMMA RequestApprovalKeepsEffects ==
  ASSUME TypeOK, RunsAgree, EffectsAgree, NEW r \in Runs, RequestApproval(r)
  PROVE  EffectsAgree'
<1>1. CASE status[r] # "running"
  <2>1. UNCHANGED effectVars /\ (CancelledAt(r) \/ SameTool(r))
    BY <1>1, FinishCancelAt DEF RequestApproval
  <2>2. QED BY <2>1, WorkerTouchesOneRun, QuietExits, QuietRun DEF Worker
<1>2. CASE status[r] = "running"
  <2>1. PICK a \in Args :
           /\ key' = [key EXCEPT ![r] = <<root[r], a>>]
           /\ effect' = [effect EXCEPT ![<<root[r], a>>] = IF @ = "none" THEN "prepared" ELSE @]
    BY <1>2 DEF RequestApproval
  <2>2. /\ UNCHANGED artifacts
        /\ call' = [call EXCEPT ![r] = "awaiting_approval"]
    BY <1>2 DEF RequestApproval, SetTool
  <2>3. <<root[r], a>> \in EffectKeys BY DEF EffectKeys, TypeOK, RowType
  <2>4. ~Begun(r) /\ artifacts[r] = 0
    BY DEF RequestApproval, WorkerStep, RunsAgree, RunAgrees, WorkerAgrees, WorkerActive,
           ToolRowsAgree, Begun
  <2>5. \A s \in Runs : Begun(s)' => Begun(s) /\ s # r /\ key'[s] = key[s] /\ call'[s] = call[s]
    BY <2>1, <2>2, <2>4 DEF Begun, TypeOK, ToolType, EffectType
  <2>6. \A e \in EffectKeys : effect'[e] # effect[e] => effect[e] = "none" /\ effect'[e] = "prepared"
    BY <2>1, <2>3 DEF TypeOK, EffectType
  <2>7. \A s \in Runs : Begun(s) => key[s] \in EffectKeys
    BY DEF RunsAgree, RunAgrees, ToolRowsAgree, Begun
  <2>8. \A s, t \in Runs : Begun(s)' /\ Begun(t)' /\ key'[s] = key'[t] => s = t
    BY <2>5 DEF EffectsAgree
  <2>9. \A s \in Runs : Begun(s)' => effect'[key'[s]] \in {"executing", "completed", "interrupted"}
    BY <2>5, <2>6, <2>7 DEF EffectsAgree
  <2>10. \A s \in Runs : call'[s] = "executing" => effect'[key'[s]] = "executing"
    BY <2>5, <2>6, <2>7 DEF EffectsAgree, Begun
  <2>11. ASSUME NEW e \in EffectKeys, effect'[e] = "completed"
         PROVE  \E s \in Runs : key'[s] = e /\ artifacts'[s] = 1
    <3>1. PICK s \in Runs : key[s] = e /\ artifacts[s] = 1 BY <2>6, <2>11 DEF EffectsAgree
    <3>2. s # r BY <3>1, <2>4
    <3>3. QED BY <3>1, <3>2, <2>1, <2>2 DEF TypeOK, EffectType
  <2>12. QED BY <2>8, <2>9, <2>10, <2>11 DEF EffectsAgree
<1>3. QED BY <1>1, <1>2

LEMMA WorkerKeepsEffects ==
  ASSUME TypeOK, RunsAgree, EffectsAgree, NEW r \in Runs, Dequeue(r) \/ Worker(r)
  PROVE  EffectsAgree'
<1>1. CASE RequestApproval(r) BY <1>1, RequestApprovalKeepsEffects
<1>2. CASE ~RequestApproval(r)
  <2>1. UNCHANGED effectVars
    BY <1>2 DEF Worker, Dequeue, ResumeRefused, Start, BeginModel, ModelReturns, CommitFinal,
           Complete, BeginRead, FinishRead, WorkerFails, WorkerReleases
  <2>2. CancelledAt(r) \/ SameTool(r)
    <3> USE DEF toolVars, SameTool
    <3>1. CASE Dequeue(r) BY <3>1 DEF Dequeue
    <3>2. CASE ResumeRefused(r) \/ Start(r) BY <3>2 DEF ResumeRefused, Start
    <3>3. CASE BeginModel(r) BY <3>3, FinishCancelAt DEF BeginModel
    <3>4. CASE ModelReturns(r) BY <3>4 DEF ModelReturns
    <3>5. CASE CommitFinal(r) BY <3>5, CompleteAt, FinishCancelAt DEF CommitFinal
    <3>6. CASE BeginRead(r) BY <3>6, FinishCancelAt DEF BeginRead
    <3>7. CASE FinishRead(r) BY <3>7, FinishCancelAt DEF FinishRead
    <3>8. CASE WorkerFails(r) BY <3>8, FailAt DEF WorkerFails
    <3>9. CASE WorkerReleases(r) BY <3>9 DEF WorkerReleases
    <3>10. QED
      BY <1>2, <3>1, <3>2, <3>3, <3>4, <3>5, <3>6, <3>7, <3>8, <3>9 DEF Worker
  <2>3. QED BY <2>1, <2>2, WorkerTouchesOneRun, QuietExits, QuietRun
<1>3. QED BY <1>1, <1>2

(* The claim: nobody of the lineage has begun an effect that is prepared.  *)
LEMMA ClaimKeepsEffects ==
  ASSUME TypeOK, RunsAgree, EffectsAgree, NEW r \in Runs, ClaimTool(r)
  PROVE  EffectsAgree'
<1>1. /\ call[r] = "approved" /\ effect[key[r]] = "prepared"
      /\ call' = [call EXCEPT ![r] = "executing"]
      /\ effect' = [effect EXCEPT ![key[r]] = "executing"]
      /\ UNCHANGED <<key, artifacts>>
  BY DEF ClaimTool, CanClaim, SetTool
<1>2. key[r] \in EffectKeys /\ artifacts[r] = 0
  BY <1>1 DEF RunsAgree, RunAgrees, ToolRowsAgree
<1>3. \A s \in Runs : Begun(s) => key[s] # key[r] /\ key[s] \in EffectKeys
  BY <1>1 DEF EffectsAgree, RunsAgree, RunAgrees, ToolRowsAgree, Begun
<1>4. \A s \in Runs : Begun(s)' <=> Begun(s) \/ s = r
  BY <1>1 DEF Begun, TypeOK, ToolType
<1>5. \A e \in EffectKeys \ {key[r]} : effect'[e] = effect[e]
  BY <1>1 DEF TypeOK, EffectType
<1>6. effect'[key[r]] = "executing" BY <1>1, <1>2 DEF TypeOK, EffectType
<1>7. \A s, t \in Runs : Begun(s)' /\ Begun(t)' /\ key'[s] = key'[t] => s = t
  BY <1>1, <1>3, <1>4 DEF EffectsAgree
<1>8. \A s \in Runs : Begun(s)' => effect'[key'[s]] \in {"executing", "completed", "interrupted"}
  BY <1>1, <1>3, <1>4, <1>5, <1>6 DEF EffectsAgree
<1>9. ASSUME NEW s \in Runs, call'[s] = "executing" PROVE effect'[key'[s]] = "executing"
  <2>1. CASE s = r BY <2>1, <1>1, <1>6
  <2>2. CASE s # r
    <3>1. call[s] = "executing" BY <1>1, <1>9, <2>2 DEF TypeOK, ToolType
    <3>2. QED BY <3>1, <1>1, <1>3, <1>5 DEF EffectsAgree, Begun
  <2>3. QED BY <2>1, <2>2
<1>10. \A e \in EffectKeys : effect'[e] = "completed" => \E s \in Runs : key'[s] = e /\ artifacts'[s] = 1
  BY <1>1, <1>5, <1>6 DEF EffectsAgree
<1>11. QED BY <1>7, <1>8, <1>9, <1>10 DEF EffectsAgree

(* create_artifact, by the only thread that executes the call.             *)
LEMMA SaveKeepsEffects ==
  ASSUME TypeOK, RunsAgree, EffectsAgree, NEW r \in Runs, SaveArtifact(r)
  PROVE  EffectsAgree'
<1>1. call[r] = "executing" /\ artifacts[r] = 0 /\ Holds(r, "approver")
  BY DEF SaveArtifact, ApproverStep, RunsAgree, RunAgrees, ApproverAgrees, ApproverActive
<1>2. /\ artifacts' = [artifacts EXCEPT ![r] = 1]
      /\ UNCHANGED <<call, key, effect>>
  BY <1>1 DEF SaveArtifact, toolVars
<1>3. \A s \in Runs : Begun(s)' <=> Begun(s)
  BY <1>1, <1>2 DEF Begun, TypeOK, EffectType
<1>4. \A s, t \in Runs : Begun(s)' /\ Begun(t)' /\ key'[s] = key'[t] => s = t
  BY <1>2, <1>3 DEF EffectsAgree
<1>5. \A s \in Runs : Begun(s)' => effect'[key'[s]] \in {"executing", "completed", "interrupted"}
  BY <1>2, <1>3 DEF EffectsAgree
<1>6. \A e \in EffectKeys : effect'[e] = "completed" => \E s \in Runs : key'[s] = e /\ artifacts'[s] = 1
  BY <1>2 DEF EffectsAgree, TypeOK, EffectType
<1>7. QED BY <1>2, <1>4, <1>5, <1>6 DEF EffectsAgree

(* finish_approved_tool records what that thread did.                      *)
LEMMA FinishKeepsEffects ==
  ASSUME TypeOK, RunsAgree, EffectsAgree, NEW r \in Runs, FinishTool(r)
  PROVE  EffectsAgree'
<1>1. PICK outcome \in {"completed", "failed"} :
         /\ \/ outcome = "completed" /\ apc[r] = "saved"
            \/ outcome = "failed" /\ apc[r] = "raised"
         /\ call[r] = "executing"
         /\ call' = [call EXCEPT ![r] = outcome]
         /\ effect' = [effect EXCEPT ![key[r]] = outcome]
         /\ UNCHANGED <<key, artifacts>>
  BY DEF FinishTool, ApproverStep, SetTool
<1>2. artifacts[r] = IF outcome = "completed" THEN 1 ELSE 0
  BY <1>1 DEF RunsAgree, RunAgrees, ApproverAgrees
<1>3. \A s \in Runs : Begun(s) => key[s] \in EffectKeys
  BY DEF RunsAgree, RunAgrees, ToolRowsAgree, Begun
<1>4. \A s \in Runs : Begun(s)' => Begun(s) /\ (s = r => outcome = "completed")
  BY <1>1, <1>2 DEF Begun, TypeOK, ToolType
<1>5. \A s \in Runs : Begun(s) /\ s # r => key[s] # key[r]
  BY <1>1 DEF EffectsAgree, Begun
<1>6. key[r] \in EffectKeys /\ effect'[key[r]] = outcome
  BY <1>1, <1>3 DEF Begun, TypeOK, EffectType
<1>7. \A e \in EffectKeys \ {key[r]} : effect'[e] = effect[e]
  BY <1>1 DEF TypeOK, EffectType
<1>8. \A s, t \in Runs : Begun(s)' /\ Begun(t)' /\ key'[s] = key'[t] => s = t
  BY <1>1, <1>4 DEF EffectsAgree
<1>9. ASSUME NEW s \in Runs, Begun(s)'
      PROVE  effect'[key'[s]] \in {"executing", "completed", "interrupted"}
  <2>1. CASE s = r BY <2>1, <1>1, <1>4, <1>6, <1>9
  <2>2. CASE s # r BY <2>2, <1>1, <1>3, <1>4, <1>5, <1>7, <1>9 DEF EffectsAgree
  <2>3. QED BY <2>1, <2>2
<1>10. ASSUME NEW s \in Runs, call'[s] = "executing" PROVE effect'[key'[s]] = "executing"
  <2>1. s # r /\ call[s] = "executing" BY <1>1, <1>10 DEF TypeOK, ToolType
  <2>2. QED BY <2>1, <1>1, <1>3, <1>5, <1>7 DEF EffectsAgree, Begun
<1>11. ASSUME NEW e \in EffectKeys, effect'[e] = "completed"
       PROVE  \E s \in Runs : key'[s] = e /\ artifacts'[s] = 1
  <2>1. CASE e = key[r] BY <2>1, <1>1, <1>2, <1>6, <1>11
  <2>2. CASE e # key[r] BY <2>2, <1>1, <1>7, <1>11 DEF EffectsAgree
  <2>3. QED BY <2>1, <2>2
<1>12. QED BY <1>8, <1>9, <1>10, <1>11 DEF EffectsAgree

LEMMA ApproverKeepsEffects ==
  ASSUME TypeOK, RunsAgree, EffectsAgree, NEW r \in Runs,
         Approver(r) \/ \E d \in {"approved", "rejected"} : DecideApproval(r, d)
  PROVE  EffectsAgree'
<1>1. CASE ClaimTool(r) \/ SaveArtifact(r) \/ FinishTool(r)
  BY <1>1, ClaimKeepsEffects, SaveKeepsEffects, FinishKeepsEffects
<1>2. CASE ReuseEffect(r)
  <2>1. UNCHANGED effectVars /\ QuietCalls(r)
    BY <1>2 DEF ReuseEffect, CanClaim, SetTool, QuietCalls, TypeOK, ToolType
  <2>2. QED BY <1>2, <2>1, ApproverTouchesOneRun, QuietRun DEF Approver
<1>3. ASSUME NEW d \in {"approved", "rejected"}, DecideApproval(r, d) PROVE EffectsAgree'
  <2>1. approval[r] = "pending" => call[r] = "awaiting_approval"
    BY DEF RunsAgree, RunAgrees, ToolRowsAgree
  <2>2. UNCHANGED effectVars /\ QuietCalls(r)
    BY <1>3, <2>1 DEF DecideApproval, SetTool, QuietCalls, toolVars, TypeOK, ToolType
  <2>3. QED BY <1>3, <2>2, ApproverTouchesOneRun, QuietRun
<1>4. CASE \/ ApproverChecks(r) \/ RefuseClaim(r) \/ ToolRaises(r) \/ CommitPatch(r)
           \/ CommitReused(r) \/ ApproverFails(r) \/ ApproverReleases(r)
  <2>1. UNCHANGED effectVars
    BY <1>4 DEF ApproverChecks, RefuseClaim, ToolRaises, CommitPatch, CommitReused, Complete,
           ApproverFails, ApproverReleases
  <2>2. CancelledAt(r) \/ SameTool(r)
    <3> USE DEF toolVars, SameTool
    <3>1. CASE ApproverChecks(r) BY <3>1, FinishCancelAt DEF ApproverChecks
    <3>2. CASE RefuseClaim(r) BY <3>2, FinishCancelAt, FailAt DEF RefuseClaim
    <3>3. CASE ToolRaises(r) \/ ApproverReleases(r) BY <3>3 DEF ToolRaises, ApproverReleases
    <3>4. CASE CommitPatch(r) BY <3>4, CompleteAt, FailAt DEF CommitPatch
    <3>5. CASE CommitReused(r) BY <3>5, CompleteAt DEF CommitReused
    <3>6. CASE ApproverFails(r) BY <3>6, FailAt DEF ApproverFails
    <3>7. QED BY <1>4, <3>1, <3>2, <3>3, <3>4, <3>5, <3>6
  <2>3. QED BY <1>4, <2>1, <2>2, ApproverTouchesOneRun, QuietExits, QuietRun DEF Approver
<1>5. QED BY <1>1, <1>2, <1>3, <1>4 DEF Approver

(* Recovery: every executing call belongs to a live run, so that the       *)
(* effects of all of them become interrupted and none is executing.        *)
LEMMA RecoverKeepsEffects ==
  ASSUME TypeOK, RunsAgree, EffectsAgree, Recover
  PROVE  EffectsAgree'
<1>1. \A s \in Runs : call[s] = "executing" => s \in Interrupted \cup Cancelling
  BY DEF RunsAgree, RunAgrees, StatusAgrees, Live, Interrupted, Cancelling
<1>2. \A s \in Runs : call'[s] # "executing"
  BY <1>1 DEF Recover, Recovered, Unstarted
<1>3. /\ UNCHANGED <<key, artifacts>>
      /\ \A e \in EffectKeys : effect'[e] \in {effect[e], "interrupted"}
  BY DEF Recover, RecoveredEffect
<1>4. \A s \in Runs : Begun(s)' => Begun(s) /\ key[s] \in EffectKeys
  BY <1>2, <1>3 DEF Begun, RunsAgree, RunAgrees, ToolRowsAgree
<1>5. \A s, t \in Runs : Begun(s)' /\ Begun(t)' /\ key'[s] = key'[t] => s = t
  BY <1>3, <1>4 DEF EffectsAgree
<1>6. \A s \in Runs : Begun(s)' => effect'[key'[s]] \in {"executing", "completed", "interrupted"}
  BY <1>3, <1>4 DEF EffectsAgree
<1>7. \A e \in EffectKeys : effect'[e] = "completed" => \E s \in Runs : key'[s] = e /\ artifacts'[s] = 1
  BY <1>3 DEF EffectsAgree
<1>8. QED BY <1>2, <1>5, <1>6, <1>7 DEF EffectsAgree

LEMMA EffectsStep == TypeOK /\ RunsAgree /\ EffectsAgree /\ [Next]_vars => EffectsAgree'
<1> SUFFICES ASSUME TypeOK, RunsAgree, EffectsAgree, [Next]_vars PROVE EffectsAgree' OBVIOUS
<1>1. ASSUME UNCHANGED <<toolVars, effectVars>> PROVE EffectsAgree'
  BY <1>1, QuietEffects DEF toolVars, QuietCalls
<1>2. CASE Crash \/ \E n \in Nodes : EditConversation(n) \/ Prune(n)
  BY <1>1, <1>2 DEF Crash, EditConversation, Prune
<1>3. CASE Next
  BY <1>2, <1>3, RequestsKeepEffects, WorkerKeepsEffects, ApproverKeepsEffects,
     RecoverKeepsEffects DEF Next
<1>4. CASE UNCHANGED vars BY <1>1, <1>4 DEF vars
<1>5. QED BY <1>3, <1>4

-----------------------------------------------------------------------------
(* Answers.  A run completes only in the transaction that writes its       *)
(* answer, and the revision it answers is then in the past.                *)
Answering == AnswersAgree /\ OneAnswerPerRevision

QuietAnswers == /\ UNCHANGED answers
                /\ \A n \in Nodes : rev'[n] >= rev[n]
                /\ \A r \in Runs : /\ status'[r] = "completed" <=> status[r] = "completed"
                                   /\ status[r] = "completed" => frozen'[r] = frozen[r]

LEMMA QuietKeepsAnswers ==
  ASSUME TypeOK, TypeOK', Answering, QuietAnswers
  PROVE  Answering'
<1>1. \A r \in Runs : frozen[r].target \in Nodes /\ frozen[r].vec \in [Nodes -> Nat]
  BY DEF TypeOK, RowType, Contexts
<1>2. \A n \in Nodes : rev[n] \in Nat /\ rev'[n] \in Nat BY DEF TypeOK, GraphType
<1>3. \A r \in Runs : status'[r] = "completed" =>
         frozen'[r].vec[frozen'[r].target] < rev'[frozen'[r].target]
  BY <1>1, <1>2 DEF Answering, AnswersAgree, QuietAnswers
<1>4. AnswersAgree' BY <1>3 DEF Answering, AnswersAgree, QuietAnswers
<1>5. OneAnswerPerRevision' BY DEF Answering, OneAnswerPerRevision, QuietAnswers
<1>6. QED BY <1>4, <1>5 DEF Answering

LEMMA CompleteKeepsAnswers ==
  ASSUME TypeOK, TypeOK', Answering, NEW r \in Runs, CanComplete(r), Complete(r), UNCHANGED frozen
  PROVE  Answering'
<1> DEFINE t == frozen[r].target
<1>1. t \in Nodes /\ rev[t] = frozen[r].vec[t]
  BY RouteAssumption DEF CanComplete, RouteUnchanged, TypeOK, RowType, Contexts
<1>2. rev' = [rev EXCEPT ![t] = @ + 1] /\ answers' = answers \cup {r} BY DEF Complete
<1>3. status' = [status EXCEPT ![r] = "completed"] BY DEF Complete, Settle, SetRun
<1>4. \A s \in Runs : status'[s] = "completed" <=> status[s] = "completed" \/ s = r
  BY <1>3 DEF TypeOK, RunType
<1>5. \A s \in Runs : frozen[s].target \in Nodes /\ frozen[s].vec \in [Nodes -> Nat]
  BY DEF TypeOK, RowType, Contexts
<1>6. \A n \in Nodes : rev[n] \in Nat /\ rev'[n] = IF n = t THEN rev[n] + 1 ELSE rev[n]
  BY <1>1, <1>2 DEF TypeOK, GraphType
<1>7. \A s \in Runs : status'[s] = "completed" =>
         frozen[s].vec[frozen[s].target] < rev'[frozen[s].target]
  BY <1>1, <1>4, <1>5, <1>6 DEF Answering, AnswersAgree
<1>8. AnswersAgree'
  BY <1>2, <1>4, <1>7 DEF Answering, AnswersAgree
<1>9. \A s \in Runs : status[s] = "completed" /\ frozen[s].target = t =>
         frozen[s].vec[t] # frozen[r].vec[t]
  BY <1>1, <1>5, <1>6 DEF Answering, AnswersAgree
<1>10. OneAnswerPerRevision'
  BY <1>4, <1>9 DEF Answering, OneAnswerPerRevision
<1>11. QED BY <1>8, <1>10 DEF Answering

(* No other step completes a run, or reopens one. *)
SameCompletion(r) == status'[r] = "completed" <=> status[r] = "completed"

LEMMA QuietStatus ==
  ASSUME TypeOK, NEW r \in Runs, OnlyTouches(r), UNCHANGED <<answers, rev>>, SameCompletion(r),
         \A s \in Runs : status[s] = "completed" => frozen'[s] = frozen[s]
  PROVE  QuietAnswers
<1>1. \A s \in Runs : status'[s] = "completed" <=> status[s] = "completed"
  BY DEF OnlyTouches, RunView, SameCompletion
<1>2. \A n \in Nodes : rev'[n] >= rev[n] BY DEF TypeOK, GraphType
<1>3. QED BY <1>1, <1>2 DEF QuietAnswers

LEMMA RequestsKeepAnswers ==
  ASSUME TypeOK, TypeOK', Answering, RunsAgree, NEW r \in Runs,
         PrepareRun(r) \/ PrepareRetry(r) \/ Create(r) \/ RefuseCreate(r) \/ RequestCancel(r)
  PROVE  Answering'
<1> USE DEF TypeOK, RunType, RowType, ThreadType, runVars, graphVars, rowVars, SameCompletion
<1>1. UNCHANGED <<answers, rev>>
  BY DEF PrepareRun, PrepareRetry, Prepare, Create, RefuseCreate, RequestCancel
<1>2. SameCompletion(r)
  BY CancelRunAt DEF PrepareRun, PrepareRetry, Prepare, Create, RefuseCreate, RequestCancel,
                     CancelledAt, SettledAt, RunsAgree, RunAgrees, WorkerAgrees
<1>3. \A s \in Runs : status[s] = "completed" => frozen'[s] = frozen[s]
  BY DEF PrepareRun, PrepareRetry, Prepare, Create, RefuseCreate, RequestCancel,
         RunsAgree, RunAgrees, WorkerAgrees
<1>4. QED BY <1>1, <1>2, <1>3, RequestsTouchOneRun, QuietStatus, QuietKeepsAnswers

LEMMA WorkerKeepsAnswers ==
  ASSUME TypeOK, TypeOK', Answering, NEW r \in Runs, Dequeue(r) \/ Worker(r)
  PROVE  Answering'
<1> USE DEF rowVars
<1>1. CASE CommitFinal(r) /\ CanComplete(r)
  BY <1>1, CompleteKeepsAnswers DEF CommitFinal
<1>2. CASE ~(CommitFinal(r) /\ CanComplete(r))
  <2> USE DEF runVars, SameCompletion, SameRun, SettledAt, CancelledAt, graphVars
  <2>1. UNCHANGED <<answers, rev, frozen>>
    BY <1>2 DEF Worker, Dequeue, ResumeRefused, Start, BeginModel, ModelReturns, CommitFinal,
           BeginRead, FinishRead, RequestApproval, WorkerFails, WorkerReleases
  <2>2. SameCompletion(r)
    <3>1. CASE Dequeue(r) BY <3>1 DEF Dequeue
    <3>2. CASE ResumeRefused(r) BY <3>2, SettleAt DEF ResumeRefused
    <3>3. CASE Start(r) BY <3>3 DEF Start, SetRun, TypeOK, RunType
    <3>4. CASE BeginModel(r) BY <3>4, FinishCancelAt DEF BeginModel
    <3>5. CASE ModelReturns(r) BY <3>5 DEF ModelReturns
    <3>6. CASE CommitFinal(r) BY <1>2, <3>6, FinishCancelAt DEF CommitFinal
    <3>7. CASE BeginRead(r) BY <3>7, FinishCancelAt DEF BeginRead
    <3>8. CASE FinishRead(r) BY <3>8, FinishCancelAt DEF FinishRead
    <3>9. CASE RequestApproval(r)
      BY <3>9, FinishCancelAt DEF RequestApproval, SetRun, TypeOK, RunType
    <3>10. CASE WorkerFails(r) BY <3>10, FailAt DEF WorkerFails
    <3>11. CASE WorkerReleases(r) BY <3>11 DEF WorkerReleases, ReleaseLease
    <3>12. QED
      BY <3>1, <3>2, <3>3, <3>4, <3>5, <3>6, <3>7, <3>8, <3>9, <3>10, <3>11 DEF Worker
  <2>3. QED BY <2>1, <2>2, WorkerTouchesOneRun, QuietStatus, QuietKeepsAnswers
<1>3. QED BY <1>1, <1>2

LEMMA ApproverKeepsAnswers ==
  ASSUME TypeOK, TypeOK', Answering, NEW r \in Runs,
         Approver(r) \/ \E d \in {"approved", "rejected"} : DecideApproval(r, d)
  PROVE  Answering'
<1> USE DEF rowVars, approverFrame
<1>1. CASE (CommitPatch(r) \/ CommitReused(r)) /\ CanComplete(r)
  BY <1>1, CompleteKeepsAnswers DEF CommitPatch, CommitReused
<1>2. CASE ~((CommitPatch(r) \/ CommitReused(r)) /\ CanComplete(r))
  <2> USE DEF runVars, SameCompletion, SameRun, SettledAt, CancelledAt, graphVars
  <2>1. UNCHANGED <<answers, rev, frozen>>
    BY <1>2 DEF Approver, DecideApproval, ApproverChecks, ClaimTool, ReuseEffect, RefuseClaim,
           SaveArtifact, ToolRaises, FinishTool, CommitPatch, CommitReused, ApproverFails,
           ApproverReleases
  <2>2. SameCompletion(r)
    <3>1. CASE ApproverChecks(r) BY <3>1, FinishCancelAt DEF ApproverChecks
    <3>2. CASE ClaimTool(r) BY <3>2 DEF ClaimTool, CanClaim, SetRun, TypeOK, RunType
    <3>3. CASE ReuseEffect(r) BY <3>3 DEF ReuseEffect, CanClaim, SetRun, TypeOK, RunType
    <3>4. CASE RefuseClaim(r) BY <3>4, FinishCancelAt, FailAt DEF RefuseClaim
    <3>5. CASE SaveArtifact(r) \/ ToolRaises(r) BY <3>5 DEF SaveArtifact, ToolRaises
    <3>6. CASE FinishTool(r) BY <3>6 DEF FinishTool
    <3>7. CASE CommitPatch(r) BY <1>2, <3>7, FailAt DEF CommitPatch
    <3>8. CASE CommitReused(r) BY <1>2, <3>8 DEF CommitReused
    <3>9. CASE ApproverFails(r) BY <3>9, FailAt DEF ApproverFails
    <3>10. CASE ApproverReleases(r) BY <3>10 DEF ApproverReleases, ReleaseLease
    <3>11. CASE \E d \in {"approved", "rejected"} : DecideApproval(r, d)
      BY <3>11 DEF DecideApproval, SetRun, TypeOK, RunType
    <3>12. QED
      BY <3>1, <3>2, <3>3, <3>4, <3>5, <3>6, <3>7, <3>8, <3>9, <3>10, <3>11 DEF Approver
  <2>3. QED BY <2>1, <2>2, ApproverTouchesOneRun, QuietStatus, QuietKeepsAnswers
<1>3. QED BY <1>1, <1>2

LEMMA OthersKeepAnswers ==
  ASSUME TypeOK, Answering,
         Crash \/ Recover \/ UNCHANGED vars \/ \E n \in Nodes : EditConversation(n) \/ Prune(n)
  PROVE  QuietAnswers
<1> USE DEF QuietAnswers
<1>1. UNCHANGED answers
  BY DEF Crash, Recover, vars, EditConversation, Prune
<1>2. \A n \in Nodes : rev'[n] >= rev[n]
  <2>1. UNCHANGED rev \/ \E n \in Nodes : rev' = [rev EXCEPT ![n] = @ + 1]
    BY DEF Crash, Recover, vars, EditConversation, Prune, graphVars
  <2>2. QED BY <2>1 DEF TypeOK, GraphType
<1>3. \A r \in Runs : status[r] = "completed" => frozen'[r] = frozen[r]
  BY DEF Crash, Recover, vars, EditConversation, Prune, rowVars
<1>4. \A r \in Runs : status'[r] = "completed" <=> status[r] = "completed"
  BY DEF Crash, Recover, vars, EditConversation, Prune, runVars, Cancelling, Interrupted
<1>5. QED BY <1>1, <1>2, <1>3, <1>4

LEMMA AnswersStep ==
  TypeOK /\ RunsAgree /\ Answering /\ [Next]_vars => Answering'
<1> SUFFICES ASSUME TypeOK, RunsAgree, Answering, [Next]_vars PROVE Answering' OBVIOUS
<1>1. TypeOK' BY TypeStep
<1>2. CASE Crash \/ Recover \/ UNCHANGED vars \/ \E n \in Nodes : EditConversation(n) \/ Prune(n)
  BY <1>1, <1>2, OthersKeepAnswers, QuietKeepsAnswers
<1>3. CASE Next
  BY <1>1, <1>2, <1>3, RequestsKeepAnswers, WorkerKeepsAnswers, ApproverKeepsAnswers DEF Next
<1>4. QED BY <1>2, <1>3

-----------------------------------------------------------------------------
(* The inductive invariant, and the theorems that follow from it.          *)

LEMMA InitInv == Init => IInv
<1> SUFFICES ASSUME Init PROVE IInv OBVIOUS
<1>1. TypeOK /\ RunsAgree BY InitType, InitAgrees
<1>2. EffectsAgree BY DEF Init, EffectsAgree, Begun
<1>3. AnswersAgree /\ OneAnswerPerRevision BY DEF Init, AnswersAgree, OneAnswerPerRevision
<1>4. QED BY <1>1, <1>2, <1>3 DEF IInv

LEMMA InvStep == IInv /\ [Next]_vars => IInv'
  BY TypeStep, AgreementStep, EffectsStep, AnswersStep DEF IInv, Answering

(* The inductive invariant holds in every reachable state of the runtime. *)
THEOREM Invariant == Spec => []IInv
  BY InitInv, InvStep, PTL DEF Spec

(* A side effect of a retry lineage is carried out at most once, for any   *)
(* number of runs, retries, approvals and crashes: claim_approved_tool.    *)
THEOREM AtMostOnce == Spec => []EffectAtMostOnce
<1>1. IInv => EffectAtMostOnce
  BY DEF IInv, RunsAgree, RunAgrees, ToolRowsAgree, EffectsAgree, Begun, EffectAtMostOnce
<1>2. QED BY <1>1, Invariant, PTL

(* tool_effects tells a retry the truth about what its lineage has done.   *)
THEOREM JournalTruthful == Spec => []EffectJournalTruthful
<1>1. ASSUME IInv PROVE EffectJournalTruthful
  <2>1. \A r \in Runs : artifacts[r] > 0 => artifacts[r] = 1 /\ Begun(r)
    BY <1>1 DEF IInv, RunsAgree, RunAgrees, ToolRowsAgree, Begun
  <2>2. ASSUME NEW e \in EffectKeys, effect[e] \in {"none", "prepared", "failed"}
        PROVE  {r \in Runs : key[r] = e /\ artifacts[r] > 0} = {}
    BY <1>1, <2>1, <2>2 DEF IInv, EffectsAgree
  <2>3. ASSUME NEW e \in EffectKeys, effect[e] = "completed"
        PROVE  {r \in Runs : key[r] = e /\ artifacts[r] > 0} # {}
    BY <1>1, <2>3 DEF IInv, EffectsAgree
  <2>4. QED BY <2>2, <2>3 DEF EffectJournalTruthful
<1>2. QED BY <1>1, Invariant, PTL

(* An artifact is the work of an approved call whose claim came before any *)
(* cancellation of it.                                                     *)
THEOREM OnlyApproved == Spec => []OnlyApprovedCallsRun
<1>1. IInv => OnlyApprovedCallsRun
  BY DEF IInv, TypeOK, ToolType, RunsAgree, RunAgrees, ToolRowsAgree, OnlyApprovedCallsRun
<1>2. QED BY <1>1, Invariant, PTL

(* After a crash no artifact that may exist is reported as notStarted.     *)
THEOREM DoubtReported == Spec => []DoubtIsReported
<1>1. IInv => DoubtIsReported
  BY DEF IInv, RunsAgree, RunAgrees, ToolRowsAgree, StatusAgrees, DoubtIsReported
<1>2. QED BY <1>1, Invariant, PTL

(* The worker and the approving thread never execute a run together, and   *)
(* the one that does holds the lease.                                      *)
THEOREM OneExecutor == Spec => []ExclusiveExecutor
<1>1. IInv => ExclusiveExecutor
  BY DEF IInv, RunsAgree, RunAgrees, WorkerAgrees, ApproverAgrees, ExclusiveExecutor
<1>2. QED BY <1>1, Invariant, PTL

(* No two completed runs answered the same revision of a conversation:     *)
(* complete compares the frozen route with the live one.                   *)
THEOREM OneAnswer == Spec => []OneAnswerPerRevision
<1>1. IInv => OneAnswerPerRevision BY DEF IInv
<1>2. QED BY <1>1, Invariant, PTL

(* A run that ends without completing has written nothing.                 *)
THEOREM OnlyCompletionsAnswer == Spec => []AnswersAreCompletions
<1>1. IInv => AnswersAreCompletions BY DEF IInv, AnswersAgree, AnswersAreCompletions
<1>2. QED BY <1>1, Invariant, PTL

(* A run that ends leaves no approval, call or step open, except the call  *)
(* refused because its effect has an unknown outcome.                      *)
THEOREM EndedRunsSettle == Spec => []EndedRunsAreSettled
<1>1. ASSUME IInv, NEW r \in Runs, status[r] \in Terminal
      PROVE  /\ approval[r] # "pending"
             /\ \/ /\ call[r] \notin {"awaiting_approval", "approved", "executing"}
                   /\ step[r] = call[r]
                \/ /\ code[r] = "toolOutcomeUnknown" /\ status[r] = "failed"
                   /\ call[r] = "approved" /\ step[r] = "awaiting_approval"
  BY <1>1 DEF IInv, TypeOK, ToolType, RunsAgree, RunAgrees, ToolRowsAgree, StatusAgrees,
         Terminal, Live
<1>2. IInv => EndedRunsAreSettled BY <1>1 DEF EndedRunsAreSettled
<1>3. QED BY <1>2, Invariant, PTL

(* While the process is up a live run is in the hands of a thread, unless  *)
(* it was left behind after reusing an effect.                             *)
THEOREM OnlyReuseOrphaned == Spec => []OnlyReuseOrphans
<1>1. IInv => OnlyReuseOrphans
  BY DEF IInv, RunsAgree, RunAgrees, LiveRunsAreHeld, WorkerActive, HasExecutor, OnlyReuseOrphans
<1>2. QED BY <1>1, Invariant, PTL

-----------------------------------------------------------------------------
(* The queue.  Only a creating thread makes a run queued, and only a       *)
(* worker that leaves "starting" lets go of one, with the status changed.  *)

KeepsQueued(r) ==
  /\ UNCHANGED <<queue, created, up>>
  /\ status'[r] = "queued" =>
       status[r] = "queued" /\ (wpc[r] = "starting" => wpc'[r] = "starting")
  /\ status[r] # "none" => status'[r] # "none"

LEMMA KeepsQueue ==
  ASSUME QueueOK, NEW r \in Runs, OnlyTouches(r), KeepsQueued(r)
  PROVE  QueueOK'
<1>1. \A s \in Runs : s # r => status'[s] = status[s] /\ wpc'[s] = wpc[s]
  BY DEF OnlyTouches, RunView
<1>2. \A i \in DOMAIN queue : queue[i] \in Runs
  BY DEF QueueOK
<1>3. QED BY <1>1, <1>2 DEF QueueOK, KeepsQueued

LEMMA RequestsKeepQueued ==
  ASSUME TypeOK, NEW r \in Runs,
         PrepareRun(r) \/ PrepareRetry(r) \/ RefuseCreate(r) \/ RequestCancel(r)
  PROVE  KeepsQueued(r)
<1> USE DEF KeepsQueued
<1>1. CASE PrepareRun(r) \/ PrepareRetry(r) \/ RefuseCreate(r)
  BY <1>1 DEF PrepareRun, PrepareRetry, Prepare, RefuseCreate, runVars, sysVars
<1>2. CASE RequestCancel(r)
  BY <1>2, CancelRunAt DEF RequestCancel, CancelledAt, SettledAt, rowVars, sysVars, TypeOK, RunType
<1>3. QED BY <1>1, <1>2

LEMMA WorkerKeepsQueued ==
  ASSUME TypeOK, NEW r \in Runs, Worker(r)
  PROVE  KeepsQueued(r)
<1> USE DEF SameRun, SettledAt, CancelledAt, TypeOK, RunType, ThreadType, runVars
<1>1. UNCHANGED <<queue, created, up>>
  BY DEF Worker, ResumeRefused, Start, BeginModel, ModelReturns, CommitFinal, BeginRead,
         FinishRead, RequestApproval, WorkerFails, WorkerReleases, rowVars, sysVars
<1> DEFINE Goal == /\ status'[r] = "queued" => status[r] = "queued" /\ wpc[r] # "starting"
                   /\ status[r] # "none" => status'[r] # "none"
<1>2. ASSUME ResumeRefused(r) PROVE Goal BY <1>2, SettleAt DEF ResumeRefused
<1>3. ASSUME Start(r) PROVE Goal BY <1>3 DEF Start, SetRun
<1>4. ASSUME BeginModel(r) PROVE Goal BY <1>4, FinishCancelAt DEF BeginModel, WorkerStep
<1>5. ASSUME ModelReturns(r) PROVE Goal BY <1>5 DEF ModelReturns, WorkerStep
<1>6. ASSUME CommitFinal(r) PROVE Goal BY <1>6, CompleteAt, FinishCancelAt DEF CommitFinal, WorkerStep
<1>7. ASSUME BeginRead(r) PROVE Goal BY <1>7, FinishCancelAt DEF BeginRead, WorkerStep
<1>8. ASSUME FinishRead(r) PROVE Goal BY <1>8, FinishCancelAt DEF FinishRead, WorkerStep
<1>9. ASSUME RequestApproval(r) PROVE Goal
  BY <1>9, FinishCancelAt DEF RequestApproval, SetRun, WorkerStep
<1>10. ASSUME WorkerFails(r) PROVE Goal BY <1>10, FailAt DEF WorkerFails, WorkerStep
<1>11. ASSUME WorkerReleases(r) PROVE Goal BY <1>11 DEF WorkerReleases, ReleaseLease, WorkerStep
<1>12. Goal
  BY <1>2, <1>3, <1>4, <1>5, <1>6, <1>7, <1>8, <1>9, <1>10, <1>11 DEF Worker
<1>13. QED BY <1>1, <1>12 DEF KeepsQueued

LEMMA ApproverKeepsQueued ==
  ASSUME TypeOK, NEW r \in Runs,
         Approver(r) \/ \E d \in {"approved", "rejected"} : DecideApproval(r, d)
  PROVE  KeepsQueued(r)
<1> USE DEF SameRun, SettledAt, CancelledAt, TypeOK, RunType, runVars, approverFrame
<1>1. UNCHANGED <<queue, created, up, wpc>>
  BY DEF Approver, DecideApproval, ApproverChecks, ClaimTool, ReuseEffect, RefuseClaim,
         SaveArtifact, ToolRaises, FinishTool, CommitPatch, CommitReused, ApproverFails,
         ApproverReleases, rowVars, sysVars
<1> DEFINE Goal == /\ status'[r] = "queued" => status[r] = "queued"
                   /\ status[r] # "none" => status'[r] # "none"
<1>2. ASSUME ApproverChecks(r) PROVE Goal BY <1>2, FinishCancelAt DEF ApproverChecks
<1>3. ASSUME ClaimTool(r) \/ ReuseEffect(r) PROVE Goal
  BY <1>3 DEF ClaimTool, ReuseEffect, CanClaim, SetRun
<1>4. ASSUME RefuseClaim(r) PROVE Goal BY <1>4, FinishCancelAt, FailAt DEF RefuseClaim
<1>5. ASSUME SaveArtifact(r) \/ ToolRaises(r) \/ FinishTool(r) PROVE Goal
  BY <1>5 DEF SaveArtifact, ToolRaises, FinishTool
<1>6. ASSUME CommitPatch(r) PROVE Goal BY <1>6, CompleteAt, FailAt DEF CommitPatch
<1>7. ASSUME CommitReused(r) PROVE Goal BY <1>7, CompleteAt DEF CommitReused
<1>8. ASSUME ApproverFails(r) PROVE Goal BY <1>8, FailAt DEF ApproverFails
<1>9. ASSUME ApproverReleases(r) PROVE Goal BY <1>9 DEF ApproverReleases, ReleaseLease
<1>10. ASSUME \E d \in {"approved", "rejected"} : DecideApproval(r, d) PROVE Goal
  BY <1>10 DEF DecideApproval, SetRun
<1>11. Goal
  BY <1>2, <1>3, <1>4, <1>5, <1>6, <1>7, <1>8, <1>9, <1>10 DEF Approver
<1>12. QED BY <1>1, <1>11 DEF KeepsQueued

LEMMA CreateQueues ==
  ASSUME TypeOK, QueueOK, NEW r \in Runs, Create(r)
  PROVE  QueueOK'
<1>1. /\ status' = [status EXCEPT ![r] = "queued"] /\ status \in [Runs -> Statuses]
      /\ created' = Append(created, r) /\ wpc \in [Runs -> WorkerPcs] /\ UNCHANGED up
      /\ \/ queue' = Append(queue, r) /\ UNCHANGED wpc
         \/ wpc' = [wpc EXCEPT ![r] = "starting"] /\ UNCHANGED queue
  BY DEF Create, TypeOK, RunType, ThreadType, sysVars
<1>2. queue \in Seq(Runs) /\ created \in Seq(Runs)
  BY DEF QueueOK
<1>3. created' \in Seq(Runs) /\ queue' \in Seq(Runs)
  <2>1. \A q \in Seq(Runs) : Append(q, r) \in Seq(Runs) OBVIOUS
  <2>2. QED BY <1>1, <1>2, <2>1
<1>4. \A i \in DOMAIN queue : i \in DOMAIN queue' /\ queue'[i] = queue[i]
  <2>1. CASE UNCHANGED queue BY <2>1
  <2>2. CASE queue' = Append(queue, r) BY <1>2, <2>2
  <2>3. QED BY <1>1, <2>1, <2>2
<1>5. wpc'[r] = "starting" \/ \E i \in DOMAIN queue' : queue'[i] = r
  <2>1. CASE queue' = Append(queue, r)
    <3>1. Len(queue) + 1 \in DOMAIN queue' /\ queue'[Len(queue) + 1] = r
      BY <1>2, <2>1
    <3>2. QED BY <3>1
  <2>2. QED BY <1>1, <2>1
<1>6. \A i \in DOMAIN queue' : queue'[i] = r \/ (i \in DOMAIN queue /\ queue'[i] = queue[i])
  <2>1. CASE UNCHANGED queue BY <2>1
  <2>2. CASE queue' = Append(queue, r)
    <3>1. DOMAIN queue = 1..Len(queue) /\ DOMAIN queue' = 1..(Len(queue) + 1) /\ Len(queue) \in Nat
      BY <1>2, <1>3, <2>2
    <3>2. \A i \in 1..(Len(queue) + 1) : i \in 1..Len(queue) \/ i = Len(queue) + 1
      BY <3>1
    <3>3. queue'[Len(queue) + 1] = r
      BY <1>2, <2>2
    <3>4. QED BY <1>4, <3>1, <3>2, <3>3
  <2>3. QED BY <1>1, <2>1, <2>2
<1>7. \A i \in DOMAIN queue' : status'[queue'[i]] # "none"
  BY <1>1, <1>2, <1>6 DEF QueueOK
<1>8. ASSUME up', NEW s \in Runs, status'[s] = "queued"
      PROVE  wpc'[s] = "starting" \/ \E i \in DOMAIN queue' : queue'[i] = s
  <2>1. CASE s = r BY <1>5, <2>1
  <2>2. CASE s # r
    <3>1. status[s] = "queued" /\ wpc'[s] = wpc[s] BY <1>1, <1>8, <2>2
    <3>2. wpc[s] = "starting" \/ \E i \in DOMAIN queue : queue[i] = s
      BY <1>1, <1>8, <3>1 DEF QueueOK
    <3>3. QED BY <1>4, <3>1, <3>2
  <2>3. QED BY <2>1, <2>2
<1>9. QED BY <1>3, <1>7, <1>8 DEF QueueOK

LEMMA DequeueStarts ==
  ASSUME TypeOK, QueueOK, NEW r \in Runs, Dequeue(r)
  PROVE  QueueOK'
<1>1. /\ queue # <<>> /\ r = Head(queue) /\ queue' = Tail(queue)
      /\ UNCHANGED <<status, created, up>> /\ wpc \in [Runs -> WorkerPcs]
      /\ wpc' = IF status[r] = "queued" THEN [wpc EXCEPT ![r] = "starting"] ELSE wpc
  BY DEF Dequeue, TypeOK, ThreadType, runVars, rowVars, sysVars
<1>2. queue \in Seq(Runs) /\ created \in Seq(Runs)
  BY DEF QueueOK
<1>3. queue' \in Seq(Runs)
  BY <1>1, <1>2
<1>4. \A i \in DOMAIN queue' : i + 1 \in DOMAIN queue /\ queue'[i] = queue[i + 1]
  BY <1>1, <1>2
<1>5. \A i \in DOMAIN queue : i = 1 \/ (i - 1 \in DOMAIN queue' /\ queue'[i - 1] = queue[i])
  BY <1>1, <1>2
<1>6. \A i \in DOMAIN queue' : status'[queue'[i]] # "none"
  BY <1>1, <1>4 DEF QueueOK
<1>7. ASSUME up', NEW s \in Runs, status'[s] = "queued"
      PROVE  wpc'[s] = "starting" \/ \E i \in DOMAIN queue' : queue'[i] = s
  <2>1. CASE s = r BY <1>1, <1>7, <2>1
  <2>2. CASE s # r
    <3>1. wpc'[s] = wpc[s] BY <1>1, <2>2
    <3>2. wpc[s] = "starting" \/ \E i \in DOMAIN queue : queue[i] = s
      BY <1>1, <1>7 DEF QueueOK
    <3>3. queue[1] = r BY <1>1, <1>2
    <3>4. QED BY <1>5, <2>2, <3>1, <3>2, <3>3
  <2>3. QED BY <2>1, <2>2
<1>8. QED BY <1>1, <1>2, <1>3, <1>6, <1>7 DEF QueueOK

LEMMA RecoverResubmits ==
  ASSUME TypeOK, QueueOK, Recover
  PROVE  QueueOK'
<1>1. /\ queue' \in Resubmitted /\ UNCHANGED created
      /\ \A r \in Runs : /\ status'[r] = "queued" => status[r] = "queued" /\ Background
                         /\ status[r] # "none" => status'[r] # "none"
  BY DEF Recover, Interrupted, Cancelling, rowVars
<1>2. created \in Seq(Runs)
  BY DEF QueueOK
<1>3. CASE ~Background
  BY <1>1, <1>2, <1>3 DEF Resubmitted, QueueOK
<1>4. CASE Background
  <2>1. /\ queue' \in UNION {[1..n -> Queued] : n \in 0..Len(created)}
        /\ \A r \in Queued : \E i \in DOMAIN queue' : queue'[i] = r
    BY <1>1, <1>4 DEF Resubmitted
  <2>2. PICK n \in Nat : queue' \in [1..n -> Queued]
    BY <1>2, <2>1
  <2>3. queue' \in Seq(Runs) /\ \A i \in DOMAIN queue' : status'[queue'[i]] # "none"
    BY <1>1, <2>2 DEF Queued
  <2>4. QED BY <1>1, <1>2, <2>1, <2>3 DEF QueueOK, Queued
<1>5. QED BY <1>3, <1>4

LEMMA QueueStep == TypeOK /\ QueueOK /\ [Next]_vars => QueueOK'
<1> SUFFICES ASSUME TypeOK, QueueOK, [Next]_vars PROVE QueueOK' OBVIOUS
<1>1. CASE UNCHANGED vars \/ \E n \in Nodes : EditConversation(n) \/ Prune(n)
  BY <1>1 DEF EditConversation, Prune, vars, runVars, rowVars, sysVars, QueueOK
<1>2. CASE Crash
  BY <1>2 DEF Crash, runVars, QueueOK
<1>3. CASE Recover BY <1>3, RecoverResubmits
<1>4. ASSUME NEW r \in Runs, Create(r) PROVE QueueOK' BY <1>4, CreateQueues
<1>5. ASSUME NEW r \in Runs, Dequeue(r) PROVE QueueOK' BY <1>5, DequeueStarts
<1>6. ASSUME NEW r \in Runs,
             PrepareRun(r) \/ PrepareRetry(r) \/ RefuseCreate(r) \/ RequestCancel(r)
      PROVE  QueueOK'
  BY <1>6, RequestsKeepQueued, RequestsTouchOneRun, KeepsQueue
<1>7. ASSUME NEW r \in Runs, Worker(r) PROVE QueueOK'
  BY <1>7, WorkerKeepsQueued, WorkerTouchesOneRun, KeepsQueue
<1>8. ASSUME NEW r \in Runs,
             Approver(r) \/ \E d \in {"approved", "rejected"} : DecideApproval(r, d)
      PROVE  QueueOK'
  BY <1>8, ApproverKeepsQueued, ApproverTouchesOneRun, KeepsQueue
<1>9. QED BY <1>1, <1>2, <1>3, <1>4, <1>5, <1>6, <1>7, <1>8 DEF Next

(* A queued run is never forgotten: it waits in the dispatcher's queue or  *)
(* a thread is about to start it, across restarts (queued_run_ids).        *)
THEOREM QueuedAreServed == Spec => []QueueOK
<1>1. Init => QueueOK
  BY DEF Init, QueueOK
<1>2. QED BY <1>1, TypeCorrect, QueueStep, PTL DEF Spec
-----------------------------------------------------------------------------
(***************************************************************************)
(* AgentRuns implements RunLifecycle, for every value of the constants:    *)
(* status is its state, answers the runs that answered, and an artifact    *)
(* of run r under key e is the performance <<e, r>>.                       *)
(***************************************************************************)

Performed == {<<key[r], r>> : r \in {s \in Runs : artifacts[s] > 0}}

LStep == [Lifecycle!Next]_(Lifecycle!vars)

(* A step of the status column along one edge of the lifecycle, or none.   *)
Edge(r) == \E s \in Lifecycle!Statuses : /\ <<status[r], s>> \in Lifecycle!Moves
                                         /\ status' = [status EXCEPT ![r] = s]
AtMostAnEdge(r) == UNCHANGED status \/ Edge(r)

LEMMA EdgeRefines ==
  ASSUME NEW r \in Runs, AtMostAnEdge(r), UNCHANGED <<answers, Performed>>
  PROVE  LStep
<1>1. CASE UNCHANGED status BY <1>1 DEF LStep, Lifecycle!vars, Performed
<1>2. CASE Edge(r)
  BY <1>2 DEF Edge, LStep, Lifecycle!Next, Lifecycle!Move, Performed
<1>3. QED BY <1>1, <1>2 DEF AtMostAnEdge

LEMMA SamePerformed ==
  ASSUME UNCHANGED artifacts, \A r \in Runs : artifacts[r] > 0 => key'[r] = key[r]
  PROVE  UNCHANGED Performed
  BY DEF Performed

LEMMA CompleteRefines ==
  ASSUME NEW r \in Runs, status[r] = "running", Complete(r)
  PROVE  LStep
<1>1. UNCHANGED Performed BY SamePerformed DEF Complete, effectVars
<1>2. Lifecycle!Answer(r)
  BY <1>1 DEF Complete, Settle, SetRun, Lifecycle!Answer, Performed
<1>3. QED BY <1>2 DEF LStep, Lifecycle!Next

LEMMA FinishCancelEdge ==
  ASSUME NEW r \in Runs, FinishCancelIfRequested(r)
  PROVE  AtMostAnEdge(r)
  BY DEF FinishCancelIfRequested, CancelRun, Settle, SetRun, runVars, AtMostAnEdge, Edge,
         Lifecycle!Moves, Lifecycle!Statuses, Lifecycle!Terminal

(* fail would also end a waiting run, but no caller of it has one.         *)
LEMMA FailEdge ==
  ASSUME NEW r \in Runs, NEW c, status[r] # "awaiting_approval", FailOrFinishCancel(r, c)
  PROVE  AtMostAnEdge(r)
<1>1. CASE FinishCancelIfRequested(r) BY <1>1, FinishCancelEdge
<1>2. CASE ~FinishCancelIfRequested(r)
  BY <1>2 DEF FailOrFinishCancel, Settle, SetRun, AtMostAnEdge, Edge,
         Lifecycle!Moves, Lifecycle!Statuses, Lifecycle!Terminal
<1>3. QED BY <1>1, <1>2

LEMMA RequestsRefine ==
  ASSUME IInv, NEW r \in Runs,
         PrepareRun(r) \/ PrepareRetry(r) \/ Create(r) \/ RefuseCreate(r) \/ RequestCancel(r)
  PROVE  LStep
<1>1. UNCHANGED <<answers, effectVars>>
  BY DEF PrepareRun, PrepareRetry, Prepare, Create, RefuseCreate, RequestCancel
<1>2. UNCHANGED Performed BY <1>1, SamePerformed DEF effectVars
<1>3. cpc[r] = "prepared" => status[r] = "none" BY DEF IInv, RunsAgree, RunAgrees, WorkerAgrees
<1>4. AtMostAnEdge(r)
  <2> USE DEF AtMostAnEdge, Edge, Lifecycle!Moves, Lifecycle!Statuses, Lifecycle!Terminal
  <2>1. CASE PrepareRun(r) \/ PrepareRetry(r) \/ RefuseCreate(r)
    BY <2>1 DEF PrepareRun, PrepareRetry, Prepare, RefuseCreate, runVars
  <2>2. CASE Create(r) BY <1>3, <2>2 DEF Create
  <2>3. CASE RequestCancel(r) BY <2>3 DEF RequestCancel, CancelRun, Settle, SetRun
  <2>4. QED BY <2>1, <2>2, <2>3
<1>5. QED BY <1>1, <1>2, <1>4, EdgeRefines

LEMMA WorkerRefines ==
  ASSUME IInv, NEW r \in Runs, Dequeue(r) \/ Worker(r)
  PROVE  LStep
<1>1. CASE CommitFinal(r) /\ CanComplete(r)
  BY <1>1, CompleteRefines DEF CommitFinal, CanComplete
<1>2. CASE ~(CommitFinal(r) /\ CanComplete(r))
  <2>1. UNCHANGED Performed
    <3>1. UNCHANGED artifacts
      BY <1>2 DEF Worker, Dequeue, ResumeRefused, Start, BeginModel, ModelReturns, CommitFinal,
             BeginRead, FinishRead, RequestApproval, WorkerFails, WorkerReleases, effectVars
    <3>2. CASE UNCHANGED key BY <3>1, <3>2, SamePerformed
    <3>3. CASE ~UNCHANGED key
      <4>1. wpc[r] = "patch" /\ \E e : key' = [key EXCEPT ![r] = e]
        BY <1>2, <3>3 DEF Worker, Dequeue, ResumeRefused, Start, BeginModel, ModelReturns,
           CommitFinal, BeginRead, FinishRead, RequestApproval, WorkerFails, WorkerReleases,
           WorkerStep, effectVars
      <4>2. artifacts[r] = 0
        BY <4>1 DEF IInv, RunsAgree, RunAgrees, WorkerAgrees, WorkerActive, ToolRowsAgree
      <4>3. \A s \in Runs : artifacts[s] > 0 => key'[s] = key[s]
        BY <4>1, <4>2 DEF IInv, TypeOK, EffectType
      <4>4. QED BY <3>1, <4>3, SamePerformed
    <3>4. QED BY <3>2, <3>3
  <2>2. UNCHANGED answers
    BY <1>2 DEF Worker, Dequeue, ResumeRefused, Start, BeginModel, ModelReturns, CommitFinal,
           BeginRead, FinishRead, RequestApproval, WorkerFails, WorkerReleases
  <2>3. AtMostAnEdge(r)
    <3> USE DEF AtMostAnEdge, Edge, Lifecycle!Moves, Lifecycle!Statuses, Lifecycle!Terminal
    <3> USE DEF runVars
    <3>1. CASE Dequeue(r) BY <3>1 DEF Dequeue
    <3>2. CASE ResumeRefused(r) BY <3>2 DEF ResumeRefused, Settle, SetRun
    <3>3. CASE Start(r) BY <3>3 DEF Start, SetRun
    <3>4. CASE BeginModel(r) BY <3>4, FinishCancelEdge DEF BeginModel
    <3>5. CASE ModelReturns(r) BY <3>5 DEF ModelReturns
    <3>6. CASE CommitFinal(r) BY <1>2, <3>6, FinishCancelEdge DEF CommitFinal
    <3>7. CASE BeginRead(r) BY <3>7, FinishCancelEdge DEF BeginRead
    <3>8. CASE FinishRead(r) BY <3>8, FinishCancelEdge DEF FinishRead
    <3>9. CASE RequestApproval(r)
      BY <3>9, FinishCancelEdge DEF RequestApproval, SetRun
    <3>10. CASE WorkerFails(r)
      <4>1. status[r] # "awaiting_approval"
        BY <3>10 DEF WorkerFails, WorkerStep, IInv, RunsAgree, RunAgrees, WorkerAgrees,
               WorkerActive, Holds, Live
      <4>2. QED BY <3>10, <4>1, FailEdge DEF WorkerFails
    <3>11. CASE WorkerReleases(r) BY <3>11 DEF WorkerReleases, ReleaseLease
    <3>12. QED
      BY <3>1, <3>2, <3>3, <3>4, <3>5, <3>6, <3>7, <3>8, <3>9, <3>10, <3>11 DEF Worker
  <2>4. QED BY <2>1, <2>2, <2>3, EdgeRefines
<1>3. QED BY <1>1, <1>2

(* create_artifact is the one step that performs an effect.                *)
LEMMA SaveRefines ==
  ASSUME IInv, NEW r \in Runs, SaveArtifact(r)
  PROVE  LStep
<1>1. call[r] = "executing" /\ artifacts[r] = 0 /\ Holds(r, "approver") /\ key[r] \in EffectKeys
  BY DEF SaveArtifact, ApproverStep, IInv, RunsAgree, RunAgrees, ApproverAgrees, ApproverActive,
         ToolRowsAgree
<1>2. artifacts' = [artifacts EXCEPT ![r] = 1] /\ UNCHANGED <<key, status, answers>>
  BY <1>1 DEF SaveArtifact
<1>3. \A s \in Runs : artifacts'[s] > 0 <=> artifacts[s] > 0 \/ s = r
  BY <1>2 DEF IInv, TypeOK, EffectType
<1>4. Performed' = Performed \cup {<<key[r], r>>} BY <1>2, <1>3 DEF Performed
<1>5. \A s \in Runs : <<key[r], s>> \notin Performed
  BY <1>1 DEF Performed, IInv, EffectsAgree, Begun, RunsAgree, RunAgrees, ToolRowsAgree
<1>6. Lifecycle!Perform(key[r], r)
  BY <1>1, <1>2, <1>4, <1>5 DEF Lifecycle!Perform, Performed, Holds, Live
<1>7. QED BY <1>1, <1>6 DEF LStep, Lifecycle!Next

LEMMA ApproverRefines ==
  ASSUME IInv, NEW r \in Runs,
         Approver(r) \/ \E d \in {"approved", "rejected"} : DecideApproval(r, d)
  PROVE  LStep
<1>1. CASE (CommitPatch(r) \/ CommitReused(r)) /\ CanComplete(r)
  BY <1>1, CompleteRefines DEF CommitPatch, CommitReused, CanComplete
<1>2. CASE SaveArtifact(r) BY <1>2, SaveRefines
<1>3. CASE ~SaveArtifact(r) /\ ~((CommitPatch(r) \/ CommitReused(r)) /\ CanComplete(r))
  <2>1. UNCHANGED <<answers, key, artifacts>>
    BY <1>3 DEF Approver, DecideApproval, ApproverChecks, ClaimTool, ReuseEffect, RefuseClaim,
           ToolRaises, FinishTool, CommitPatch, CommitReused, ApproverFails, ApproverReleases,
           effectVars
  <2>2. UNCHANGED Performed BY <2>1, SamePerformed
  <2>3. AtMostAnEdge(r)
    <3> USE DEF AtMostAnEdge, Edge, Lifecycle!Moves, Lifecycle!Statuses, Lifecycle!Terminal
    <3> USE DEF runVars
    <3>1. CASE ApproverChecks(r) BY <3>1, FinishCancelEdge DEF ApproverChecks
    <3>2. CASE ClaimTool(r) \/ ReuseEffect(r)
      BY <3>2 DEF ClaimTool, ReuseEffect, CanClaim, SetRun, IInv, TypeOK, RunType
    <3>3. CASE RefuseClaim(r) BY <3>3, FinishCancelEdge, FailEdge DEF RefuseClaim
    <3>4. CASE ToolRaises(r) \/ FinishTool(r) BY <3>4 DEF ToolRaises, FinishTool
    <3>5. CASE CommitPatch(r)
      <4>1. status[r] # "awaiting_approval"
        BY <3>5 DEF CommitPatch, ApproverStep, IInv, RunsAgree, RunAgrees, ApproverAgrees,
               ApproverActive, Holds, Live
      <4>2. QED BY <1>3, <3>5, <4>1, FailEdge DEF CommitPatch
    <3>6. CASE CommitReused(r) BY <1>3, <3>6 DEF CommitReused
    <3>7. CASE ApproverFails(r)
      <4>1. status[r] # "awaiting_approval"
        BY <3>7 DEF ApproverFails, ApproverStep, IInv, RunsAgree, RunAgrees, ApproverAgrees,
               ApproverActive, Holds, Live
      <4>2. QED BY <3>7, <4>1, FailEdge DEF ApproverFails
    <3>8. CASE ApproverReleases(r) BY <3>8 DEF ApproverReleases, ReleaseLease
    <3>9. CASE \E d \in {"approved", "rejected"} : DecideApproval(r, d)
      BY <3>9 DEF DecideApproval, SetRun
    <3>10. QED
      BY <1>3, <3>1, <3>2, <3>3, <3>4, <3>5, <3>6, <3>7, <3>8, <3>9 DEF Approver
  <2>4. QED BY <2>1, <2>2, <2>3, EdgeRefines
<1>4. QED BY <1>1, <1>2, <1>3

LEMMA RecoverRefines == ASSUME IInv, Recover PROVE LStep
<1>1. UNCHANGED <<answers, Performed>> BY SamePerformed DEF Recover
<1>2. status' \in [Runs -> Lifecycle!Statuses]
  BY RecoverType DEF IInv, TypeOK, RunType, Statuses, Live, Terminal,
     Lifecycle!Statuses, Lifecycle!Terminal
<1>3. \A r \in Runs :
        CASE status[r] = "cancelling" -> status'[r] = "cancelled"
          [] status[r] = "running"    -> status'[r] = "interrupted"
          [] status[r] = "queued"     -> status'[r] \in {"queued", "interrupted"}
          [] OTHER                    -> status'[r] = status[r]
  BY DEF Recover, Interrupted, Cancelling
<1>4. Lifecycle!Recover BY <1>1, <1>2, <1>3 DEF Lifecycle!Recover, Performed
<1>5. QED BY <1>4 DEF LStep, Lifecycle!Next

LEMMA StepRefines == IInv /\ [Next]_vars => LStep
<1> SUFFICES ASSUME IInv, [Next]_vars PROVE LStep OBVIOUS
<1>1. CASE Crash \/ UNCHANGED vars \/ \E n \in Nodes : EditConversation(n) \/ Prune(n)
  <2>1. UNCHANGED <<status, answers, key, artifacts>>
    BY <1>1 DEF Crash, vars, EditConversation, Prune, runVars, effectVars
  <2>2. UNCHANGED Performed BY <2>1, SamePerformed
  <2>3. QED BY <2>1, <2>2 DEF LStep, Lifecycle!vars, Performed
<1>2. CASE Next
  BY <1>1, <1>2, RequestsRefine, WorkerRefines, ApproverRefines, RecoverRefines DEF Next
<1>3. QED BY <1>1, <1>2

LEMMA InitRefines == Init => Lifecycle!Init
  BY DEF Init, Lifecycle!Init

(* Every behaviour of the runs is one of the lifecycle: statuses move      *)
(* along its edges only, completing is answering, and no effect is         *)
(* performed twice or for a run that has ended.                            *)
THEOREM Refinement == Spec => ImplementsLifecycle
  BY InitRefines, StepRefines, Invariant, PTL
  DEF Spec, ImplementsLifecycle, Lifecycle!Spec, LStep
=============================================================================
