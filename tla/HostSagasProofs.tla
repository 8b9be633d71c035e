--------------------------- MODULE HostSagasProofs ---------------------------
(***************************************************************************)
(* The sagas implement the graph: whatever the host does and wherever the  *)
(* process dies, a request changes the graph by one of its own             *)
(* transactions or not at all.  What ConversationGraphProofs proves of the *)
(* graph then holds of the sagas.  The second half is about the two sides  *)
(* of an operation: what the graph, the host and the journal say of it.    *)
(***************************************************************************)
EXTENDS HostSagas, ConversationGraphProofs

(* An attempt is for an operation on an instance.                          *)
LEMMA OpOfAttempt ==
  ASSUME NEW a \in Attempts
  PROVE /\ Op(a) \in Ops /\ Op(a) \in Keys /\ Target[Op(a)] \in Instances
        /\ Op(a) \in Forks => Source[Op(a)] \in Instances
  <1>1. Op(a) \in Ops BY OpsAssumption DEF Op
  <1> QED BY <1>1, OpsAssumption

(* The local transaction of an operation is a transaction of the graph: it *)
(* asks for what the graph asks.                                           *)
LEMMA LocalIsGraph ==
  ASSUME NEW a \in Attempts, LocalCommits(a) PROVE GraphNext
  <1> DEFINE o == Op(a)
  <1> USE OpOfAttempt
  <1>1. LocalCan(o) BY DEF LocalCommits
  <1>2. CASE o \in Forks
    <2>1. Fork(o, Target[o], Source[o], "workflow", Given[o], First[o])
          BY <1>2, OpsAssumption DEF LocalCommits, At, Ops
    <2>2. CanFork(o, Target[o], Source[o], "workflow", ForkRev(o))
          BY <1>1, <1>2, OpsAssumption DEF LocalCan, Ops
    <2>3. CanFork(o, Target[o], Source[o], "workflow", crev[Source[o]])
          BY <2>2 DEF CanFork
    <2>4. ForkWorkflow(Target[o]) BY <2>1, <2>3, <1>2, OpsAssumption DEF ForkWorkflow
    <2> QED BY <2>4 DEF GraphNext
  <1>3. CASE o \in Renames
    <2>1. Rename(Target[o], o) BY <1>3, OpsAssumption DEF LocalCommits, At, Ops
    <2>2. CanRename(Target[o], grev)
          BY <1>1, <1>3, OpsAssumption DEF LocalCan, CanRename, Ops
    <2>3. RenameAny(Target[o]) BY <2>1, <2>2, <1>3, OpsAssumption DEF RenameAny
    <2> QED BY <2>3 DEF GraphNext
  <1>4. CASE o \in Visits
    <2>1. ActivateAny(Target[o])
          BY <1>1, <1>4, OpsAssumption DEF LocalCommits, LocalCan, At, Ops, ActivateAny
    <2> QED BY <2>1 DEF GraphNext
  <1>5. CASE o \in Prunes
    <2>1. Prune(o, Target[o]) BY <1>5, OpsAssumption DEF LocalCommits, At, Ops
    <2>2. CanPrune(o, Target[o], grev)
          BY <1>1, <1>5, OpsAssumption DEF LocalCan, CanPrune, Ops
    <2>3. PruneAny(Target[o]) BY <2>1, <2>2 DEF PruneAny
    <2> QED BY <2>3 DEF GraphNext
  <1> QED BY <1>2, <1>3, <1>4, <1>5 DEF Ops

(* Every step of the endpoints is a step of the graph or leaves it alone.  *)
LEMMA StepIsGraph == ASSUME [Next]_vars PROVE [GraphNext]_graphVars
  <1>1. CASE UNCHANGED vars BY <1>1 DEF vars
  <1>2. CASE Thread
    <2>1. Turns \subseteq Instances BY OpsAssumption
    <2> QED BY <1>2, <2>1 DEF Thread, GraphNext
  <1>3. CASE Restart BY <1>3 DEF Restart
  <1>4. ASSUME NEW a \in Attempts, LocalCommits(a) PROVE GraphNext BY <1>4, LocalIsGraph
  <1>5. ASSUME NEW a \in Attempts, Visit(a) PROVE GraphNext
    <2>1. ActivateAny(Target[Op(a)]) BY <1>5 DEF Visit, At, ActivateAny
    <2> QED BY <2>1, OpOfAttempt DEF GraphNext
  <1>6. ASSUME NEW a \in Attempts,
               \/ Begin(a) \/ BeginAgain(a) \/ HostActs(a) \/ HostReturns(a)
               \/ HostRefuses(a) \/ HostRaises(a) \/ LocalReplays(a) \/ LocalRaises(a)
               \/ HostUndoes(a) \/ Undone(a) \/ UndoFails(a) \/ SkipVisit(a) \/ Finish(a)
        PROVE UNCHANGED graphVars
        BY <1>6 DEF Begin, BeginAgain, HostActs, HostReturns, HostRefuses, HostRaises,
                    LocalReplays, LocalRaises, HostUndoes, Undone, UndoFails, SkipVisit, Finish
  <1> QED BY <1>1, <1>2, <1>3, <1>4, <1>5, <1>6 DEF Next

(* The endpoints of api/app.py with their host calls implement the graph   *)
(* transactions of store.py.                                               *)
THEOREM SagaRefinement == Spec => ImplementsGraph
  <1>1. Init => GraphInit BY DEF Init
  <1> QED BY <1>1, StepIsGraph, PTL DEF Spec, ImplementsGraph, GraphSpec

(* fork and prune_commit with failing hosts, compensation, retries and     *)
(* restarts: an active conversation has only active ancestors.             *)
THEOREM SagaRoutesAreLive == Spec => []RoutesAreLive
  BY SagaRefinement, GraphRoutesAreLive DEF ImplementsGraph

(* activate, the visit after a fork, prune_commit: the current route is an *)
(* active one.                                                             *)
THEOREM SagaCurrentIsActive == Spec => []CurrentIsActive
  BY SagaRefinement, GraphCurrentIsActive DEF ImplementsGraph

(* fork beside fork-chat: turns stay with the conversations that own them. *)
THEOREM SagaTurnsHaveOwners == Spec => []TurnsHaveOwners
  BY SagaRefinement, GraphTurnsHaveOwners DEF ImplementsGraph

(* No endpoint changes the tree, a title, the name of the workflow or of a *)
(* turn under a graph revision; nor does a first message that names its    *)
(* conversation.                                                           *)
THEOREM SagaRevisionsTell == Spec => RevisionsTell
  BY SagaRefinement, GraphRevisionsTell DEF ImplementsGraph
-----------------------------------------------------------------------------
(* The two sides of an operation.  What the graph and the host hold is     *)
(* related by where the attempts are and by what the journal says; the     *)
(* properties of HostSagas follow from that relation.                      *)

Beyond == {"local", "undo", "undone", "visit", "finish"}
AtHost == {"calling", "called"}

(* A fork whose transaction can never succeed any more: its source is      *)
(* pruned, or a turn, or has moved on from the revision of the request.    *)
Doomed(o) == \/ node[Source[o]] = "pruned" \/ scope[Source[o]] # "workflow"
             \/ expect[o] # AnyRev /\ crev[Source[o]] > expect[o]

(* The journal against the attempts: who asks the host works on a started  *)
(* operation and alone, and what is past the host has been recorded.       *)
JournalAgrees ==
  \A a \in Attempts :
    /\ pc[a] \in AtHost => /\ saga[Op(a)] = "started"
                           /\ \A b \in Attempts : Op(b) = Op(a) /\ pc[b] # "idle" => b = a
    /\ pc[a] \in Beyond => saga[Op(a)] \notin {"none", "started"}
    /\ pc[a] \in {"undo", "undone"} => Op(a) \in Forks \cup Renames
    /\ pc[a] = "visit" => Op(a) \in Forks
    /\ Op(a) \in Forks => todo[a] = {}

(* The requests of an operation carry a revision its client has seen.      *)
RevisionsAgree ==
  \A o \in Ops : saga[o] # "none" =>
    /\ o \in Forks => /\ node[Source[o]] # "absent"
                      /\ expect[o] # AnyRev => expect[o] \in Nat /\ expect[o] <= crev[Source[o]]
    /\ o \in Prunes => expect[o] <= grev

(* Only the transaction of a fork makes its child, and it follows the one  *)
(* conversation that the host has made.                                    *)
ForksAgree ==
  \A o \in Forks :
    /\ node[Target[o]] # "absent" <=> o \in commands
    /\ copies[Target[o]] <= 1
    /\ saga[o] = "none" => copies[Target[o]] = 0
    /\ saga[o] \in {"none", "started"} => o \notin commands
    /\ saga[o] = "started" => \E a \in Attempts : Op(a) = o /\ pc[a] \in AtHost
    /\ saga[o] = "host_succeeded" \/ o \in commands => copies[Target[o]] = 1
    /\ saga[o] = "completed" => o \in commands
    /\ saga[o] = "compensated" => o \notin commands /\ Doomed(o) /\ Target[o] \in archived

ForkAttemptsAgree ==
  \A a \in Attempts : Op(a) \in Forks =>
    /\ pc[a] = "calling" => copies[At(a)] = 0
    /\ pc[a] = "called" \/ pc[a] \in Beyond => copies[At(a)] = 1
    /\ pc[a] \in {"visit", "finish"} => Op(a) \in commands
    /\ pc[a] \in {"undo", "undone"} => Op(a) \notin commands /\ Doomed(Op(a))
    /\ pc[a] = "undone" => At(a) \in archived

(* As long as the graph is at the revision of a prune, what its attempt    *)
(* has no longer to archive is archived; once the host has succeeded, so   *)
(* is all that the transaction takes or has taken.                         *)
PrunesAgree ==
  \A o \in Prunes :
    /\ \A i \in Instances : tomb[i] = o => o \in commands
    /\ saga[o] \in {"none", "started"} => o \notin commands
    /\ saga[o] = "host_succeeded" /\ grev = expect[o] => Subtree(Target[o]) \subseteq archived
    /\ saga[o] = "completed" => o \in commands
    /\ saga[o] \in {"host_succeeded", "completed"} =>
         \A i \in Instances : tomb[i] = o => i \in archived

PruneAttemptsAgree ==
  \A a \in Attempts : Op(a) \in Prunes =>
    /\ pc[a] \in AtHost /\ grev = expect[Op(a)] => Subtree(At(a)) \ todo[a] \subseteq archived
    /\ pc[a] = "finish" => Op(a) \in commands

SidesAgree == /\ JournalAgrees /\ RevisionsAgree
              /\ ForksAgree /\ ForkAttemptsAgree /\ PrunesAgree /\ PruneAttemptsAgree

(* The inductive invariant of the sagas.                                   *)
SagaInv == TypeOK /\ GraphInv /\ SidesAgree

LEMMA InitSides == ASSUME Init PROVE SagaInv
  <1> USE OpsAssumption, GraphAssumption
  <1>1. GraphInit BY DEF Init
  <1>2. GraphInv BY <1>1, InitGraphInv
  <1>3. TypeOK BY <1>2 DEF Init, TypeOK, GraphInv, Pcs, Terminal, Unseen
  <1>4. JournalAgrees BY OpOfAttempt DEF Init, JournalAgrees, AtHost, Beyond
  <1>5. RevisionsAgree BY DEF Init, RevisionsAgree
  <1>6. ForksAgree
    <2>1. \A o \in Forks : Target[o] \in Instances /\ Target[o] # Root BY DEF Ops
    <2> QED BY <1>1, <2>1 DEF Init, GraphInit, ForksAgree, Ops
  <1>7. ForkAttemptsAgree BY OpOfAttempt DEF Init, ForkAttemptsAgree, Beyond
  <1>8. PrunesAgree BY <1>1 DEF Init, GraphInit, PrunesAgree, Ops
  <1>9. PruneAttemptsAgree BY DEF Init, PruneAttemptsAgree, AtHost
  <1> QED BY <1>2, <1>3, <1>4, <1>5, <1>6, <1>7, <1>8, <1>9 DEF SagaInv, SidesAgree

(* Only the transaction of LocalCommits and the visit after a fork write   *)
(* the graph for an attempt, and only HostActs and HostUndoes are acts of  *)
(* the host.                                                               *)
Quiet(a) == \/ Begin(a) \/ BeginAgain(a) \/ HostReturns(a) \/ HostRefuses(a) \/ HostRaises(a)
            \/ LocalReplays(a) \/ LocalRaises(a) \/ Undone(a) \/ UndoFails(a)
            \/ SkipVisit(a) \/ Finish(a)

LEMMA QuietIsQuiet ==
  ASSUME NEW a \in Attempts, Quiet(a)
  PROVE UNCHANGED <<graphVars, treeVars, node, scope, crev, grev, commands, tomb, route,
                    copies, archived>>
  BY DEF Quiet, Begin, BeginAgain, HostReturns, HostRefuses, HostRaises, LocalReplays,
         LocalRaises, Undone, UndoFails, SkipVisit, Finish, graphVars, treeVars, hostVars

(* The steps of the sagas, sorted by what they write.                      *)
LEMMA StepSplits ==
  ASSUME [Next]_vars
  PROVE \/ \E a \in Attempts : Quiet(a)
        \/ \E a \in Attempts : HostActs(a) \/ HostUndoes(a)
        \/ \E a \in Attempts : LocalCommits(a) \/ Visit(a)
        \/ Thread \/ Restart \/ UNCHANGED vars
  BY DEF Next, Quiet

(* An attempt moves itself and its own operation.                          *)
LEMMA OthersStay ==
  ASSUME TypeOK, NEW a \in Attempts,
         Quiet(a) \/ HostActs(a) \/ HostUndoes(a) \/ LocalCommits(a) \/ Visit(a)
  PROVE /\ \A b \in Attempts \ {a} : pc'[b] = pc[b] /\ todo'[b] = todo[b]
        /\ \A o \in Ops \ {Op(a)} : saga'[o] = saga[o] /\ expect'[o] = expect[o]
        /\ pc' \in [Attempts -> Pcs]
        /\ saga[Op(a)] # "none" => saga'[Op(a)] # "none" /\ expect'[Op(a)] = expect[Op(a)]
  <1> USE OpOfAttempt DEF TypeOK, Goto, Leave, Transition, Pcs, Plan
  <1>1. CASE Begin(a) BY <1>1 DEF Begin
  <1>2. CASE BeginAgain(a) BY <1>2 DEF BeginAgain, Resume
  <1>3. CASE HostReturns(a) \/ HostRefuses(a) \/ HostRaises(a)
        BY <1>3 DEF HostReturns, HostRefuses, HostRaises
  <1>4. CASE LocalReplays(a) \/ LocalRaises(a) BY <1>4 DEF LocalReplays, LocalRaises, LocalDone
  <1>5. CASE Undone(a) \/ UndoFails(a) BY <1>5 DEF Undone, UndoFails, UndoFailure
  <1>6. CASE SkipVisit(a) \/ Finish(a) BY <1>6 DEF SkipVisit, Finish
  <1>7. CASE HostActs(a) BY <1>7 DEF HostActs
  <1>8. CASE HostUndoes(a) BY <1>8 DEF HostUndoes
  <1>9. CASE LocalCommits(a) BY <1>9 DEF LocalCommits, LocalDone
  <1>10. CASE Visit(a) BY <1>10 DEF Visit
  <1> QED BY <1>1, <1>2, <1>3, <1>4, <1>5, <1>6, <1>7, <1>8, <1>9, <1>10 DEF Quiet

(* The state of the endpoints stays well typed.                            *)
LEMMA SagaTypes == ASSUME TypeOK, GraphInv, [Next]_vars PROVE TypeOK'
  <1> USE DEF Goto, Leave, Transition, Pcs, Terminal
  <1>0. \A a \in Attempts : /\ Op(a) \in Ops /\ At(a) \in Instances
                            /\ Op(a) \in Forks => Source[Op(a)] \in Instances
                            /\ Op(a) \in Renames => Op(a) \in Titles
        BY OpOfAttempt, OpsAssumption DEF At
  <1>1. GraphTypeOK' BY StepIsGraph, StepKeepsGraph DEF GraphInv
  <1>2. /\ \A i \in Instances : Subtree(i) \in SUBSET Instances
        /\ title \in [Instances -> Titles \cup {Placeholder}]
        /\ grev \in Int /\ \A i \in Instances : crev[i] \in Int
        BY DEF Subtree, GraphInv, GraphTypeOK
  <1> DEFINE Rest == /\ saga \in [Ops -> Terminal \cup {"none", "started", "host_succeeded"}]
                     /\ expect \in [Ops -> Int] /\ pc \in [Attempts -> Pcs]
                     /\ todo \in [Attempts -> SUBSET Instances]
                     /\ old \in [Attempts -> Titles \cup {Placeholder}]
                     /\ copies \in [Instances -> Nat] /\ archived \in SUBSET Instances
                     /\ hostTitle \in [Instances -> Titles \cup {Placeholder}]
                     /\ requests \in Nat /\ crashes \in Nat
  <1>3. Rest BY DEF TypeOK
  <1> USE DEF hostVars, counts, attemptVars
  <1>4. ASSUME NEW a \in Attempts, Begin(a) PROVE Rest'
    <2>1. \A rev \in Seen(Op(a)) : rev \in Int BY <1>0, <1>2 DEF Seen, AnyRev, Ops
    <2>2. PICK rev \in Int : /\ expect' = [expect EXCEPT ![Op(a)] = rev]
                             /\ IF Stale(Op(a), rev)
                                THEN saga' = [saga EXCEPT ![Op(a)] = "failed"] /\ Leave(a)
                                ELSE /\ saga' = [saga EXCEPT ![Op(a)] = "started"]
                                     /\ pc' = [pc EXCEPT ![a] = "calling"]
                                     /\ todo' = Plan(a) /\ old' = OldTitle(a)
                             /\ UNCHANGED <<hostVars, counts>>
          BY <1>4, <2>1 DEF Begin
    <2>3. Plan(a) \in [Attempts -> SUBSET Instances] /\ OldTitle(a) \in [Attempts -> Titles \cup {Placeholder}]
          BY <1>0, <1>2, <1>3 DEF Plan, OldTitle
    <2> QED BY <1>3, <2>2, <2>3
  <1>5. ASSUME NEW a \in Attempts, BeginAgain(a) PROVE Rest'
        BY <1>0, <1>2, <1>3, <1>5 DEF BeginAgain, Plan, OldTitle, Resume
  <1>6. ASSUME NEW a \in Attempts, HostActs(a) PROVE Rest'
    <2>1. ASSUME Op(a) \notin Prunes PROVE Rest'
          BY <1>0, <1>3, <1>6, <2>1 DEF HostActs
    <2>2. ASSUME Op(a) \in Prunes PROVE Rest' BY <1>0, <1>3, <1>6, <2>2 DEF HostActs, Leaves
    <2> QED BY <2>1, <2>2
  <1>7. ASSUME NEW a \in Attempts, HostReturns(a) \/ HostRefuses(a) \/ HostRaises(a) PROVE Rest'
        BY <1>0, <1>3, <1>7 DEF HostReturns, HostRefuses, HostRaises
  <1>8. ASSUME NEW a \in Attempts, LocalCommits(a) \/ LocalReplays(a) \/ LocalRaises(a) PROVE Rest'
        BY <1>0, <1>3, <1>8 DEF LocalCommits, LocalReplays, LocalRaises, LocalDone
  <1>9. ASSUME NEW a \in Attempts, HostUndoes(a) PROVE Rest'
        BY <1>0, <1>3, <1>9 DEF HostUndoes
  <1>10. ASSUME NEW a \in Attempts, Undone(a) \/ UndoFails(a) PROVE Rest'
        BY <1>0, <1>3, <1>10 DEF Undone, UndoFails, UndoFailure
  <1>11. ASSUME NEW a \in Attempts, Visit(a) \/ SkipVisit(a) \/ Finish(a) PROVE Rest'
        BY <1>0, <1>3, <1>11 DEF Visit, SkipVisit, Finish
  <1>12. ASSUME Thread PROVE Rest' BY <1>3, <1>12 DEF Thread
  <1>13. ASSUME Restart PROVE Rest' BY <1>3, <1>13 DEF Restart, Recovered
  <1>14. ASSUME UNCHANGED vars PROVE Rest' BY <1>3, <1>14 DEF vars
  <1> HIDE DEF Rest
  <1>15. Rest' BY <1>4, <1>5, <1>6, <1>7, <1>8, <1>9, <1>10, <1>11, <1>12, <1>13, <1>14 DEF Next
  <1> QED BY <1>1, <1>15 DEF TypeOK, Rest

(* An operation that was begun stays begun, under the revision it came     *)
(* with.                                                                   *)
LEMMA BegunStays ==
  ASSUME TypeOK, [Next]_vars, NEW o \in Ops, saga[o] # "none"
  PROVE saga'[o] # "none" /\ expect'[o] = expect[o]
  <1>1. ASSUME NEW a \in Attempts,
               Quiet(a) \/ HostActs(a) \/ HostUndoes(a) \/ LocalCommits(a) \/ Visit(a)
        PROVE saga'[o] # "none" /\ expect'[o] = expect[o]
        BY <1>1, OthersStay
  <1>2. CASE Thread BY <1>2 DEF Thread
  <1>3. CASE Restart BY <1>3 DEF Restart, Recovered
  <1>4. CASE UNCHANGED vars BY <1>4 DEF vars
  <1> QED BY <1>1, <1>2, <1>3, <1>4, StepSplits

(* The graph of a step, in the words of the graph.                         *)
LEMMA GraphOfStep ==
  ASSUME SagaInv, [Next]_vars
  PROVE /\ GraphInv' /\ grev' >= grev /\ (treeVars' # treeVars => grev' > grev)
        /\ \A i \in Instances :
             /\ node[i] # "absent" => /\ node'[i] # "absent" /\ scope'[i] = scope[i]
                                      /\ crev'[i] >= crev[i]
             /\ node[i] = "pruned" => node'[i] = "pruned"
        /\ commands \subseteq commands'
  BY StepIsGraph, StepKeepsGraph, GraphAdvances DEF SagaInv

LEMMA SagaRevisions == ASSUME SagaInv, [Next]_vars PROVE RevisionsAgree'
  <1> SUFFICES ASSUME NEW o \in Ops, saga'[o] # "none"
               PROVE /\ o \in Forks => /\ node'[Source[o]] # "absent"
                                       /\ expect'[o] # AnyRev => /\ expect'[o] \in Nat
                                                                 /\ expect'[o] <= crev'[Source[o]]
                     /\ o \in Prunes => expect'[o] <= grev'
      BY DEF RevisionsAgree, AnyRev
  <1>0. /\ o \in Forks => Source[o] \in Instances
        /\ grev \in Nat /\ grev' \in Nat /\ \A i \in Instances : crev[i] \in Nat /\ crev'[i] \in Nat
        /\ expect[o] \in Int
        BY OpsAssumption, GraphOfStep DEF SagaInv, TypeOK, GraphInv, GraphTypeOK
  <1>1. CASE saga[o] # "none"
    <2>1. expect'[o] = expect[o] BY <1>1, BegunStays DEF SagaInv
    <2>2. /\ o \in Forks => /\ node[Source[o]] # "absent"
                            /\ expect[o] # AnyRev => expect[o] \in Nat /\ expect[o] <= crev[Source[o]]
          /\ o \in Prunes => expect[o] <= grev
          BY <1>1 DEF SagaInv, SidesAgree, RevisionsAgree
    <2>3. o \in Forks => /\ node[Source[o]] # "absent" => /\ node'[Source[o]] # "absent"
                                                          /\ crev'[Source[o]] >= crev[Source[o]]
          BY <1>0, GraphOfStep
    <2>4. grev' >= grev BY GraphOfStep
    <2>5. ASSUME o \in Forks
          PROVE /\ node'[Source[o]] # "absent"
                /\ expect[o] # AnyRev => expect[o] \in Nat /\ expect[o] <= crev'[Source[o]]
      <3>1. crev[Source[o]] \in Nat /\ crev'[Source[o]] \in Nat BY <1>0, <2>5
      <3>2. crev[Source[o]] <= crev'[Source[o]] /\ node'[Source[o]] # "absent" BY <2>2, <2>3, <2>5, <3>1
      <3> QED BY <2>2, <2>5, <3>1, <3>2
    <2>6. o \in Prunes => expect[o] <= grev' BY <1>0, <2>2, <2>4
    <2> QED BY <2>1, <2>5, <2>6
  <1>2. CASE saga[o] = "none"
    <2>1. PICK a \in Attempts : Op(a) = o /\ Begin(a)
      <3>1. ASSUME NEW a \in Attempts, Op(a) # o,
                   Quiet(a) \/ HostActs(a) \/ HostUndoes(a) \/ LocalCommits(a) \/ Visit(a)
            PROVE FALSE
            BY <1>2, <3>1, OthersStay DEF SagaInv
      <3>2. ~Thread /\ ~Restart /\ ~UNCHANGED vars
            BY <1>2 DEF Thread, Restart, Recovered, vars, SagaInv, TypeOK
      <3>3. ASSUME NEW a \in Attempts, Op(a) = o,
                   HostActs(a) \/ HostUndoes(a) \/ LocalCommits(a) \/ Visit(a)
            PROVE FALSE
            BY <1>2, <3>3 DEF HostActs, HostUndoes, LocalCommits, Visit
      <3>4. ASSUME NEW a \in Attempts, Op(a) = o, Quiet(a), ~Begin(a) PROVE FALSE
        <4>1. pc[a] # "idle" => pc[a] \in AtHost \cup Beyond
              BY DEF SagaInv, TypeOK, Pcs, AtHost, Beyond
        <4>2. pc[a] = "idle"
              BY <1>2, <3>4, <4>1 DEF SagaInv, SidesAgree, JournalAgrees
        <4> QED BY <1>2, <3>4, <4>2 DEF Quiet, BeginAgain, HostReturns, HostRefuses, HostRaises,
                    LocalReplays, LocalRaises, Undone, UndoFails, SkipVisit, Finish
      <3> QED BY <3>1, <3>2, <3>3, <3>4, StepSplits
    <2>2. PICK rev \in Seen(o) : ~Refused(o, rev) /\ expect'[o] = rev /\ UNCHANGED graphVars
          BY <2>1 DEF Begin, SagaInv, TypeOK
    <2>3. UNCHANGED <<node, crev, grev>> BY <2>2 DEF graphVars, treeVars
    <2> QED BY <1>0, <2>2, <2>3 DEF Seen, Refused, AnyRev
  <1> QED BY <1>1, <1>2

(* A doomed fork stays doomed: pruned instances stay pruned, revisions     *)
(* only grow.                                                              *)
LEMMA DoomedStays ==
  ASSUME SagaInv, [Next]_vars, NEW o \in Forks, saga[o] # "none", Doomed(o)
  PROVE Doomed(o)'
  <1>1. o \in Ops /\ Source[o] \in Instances BY OpsAssumption DEF Ops
  <1>2. expect'[o] = expect[o] BY <1>1, BegunStays DEF SagaInv
  <1>3. node[Source[o]] # "absent" /\ (expect[o] # AnyRev => expect[o] \in Nat)
        BY <1>1 DEF SagaInv, SidesAgree, RevisionsAgree
  <1>4. /\ crev[Source[o]] \in Nat /\ crev'[Source[o]] \in Nat
        /\ crev'[Source[o]] >= crev[Source[o]] /\ scope'[Source[o]] = scope[Source[o]]
        /\ node[Source[o]] = "pruned" => node'[Source[o]] = "pruned"
        BY <1>1, <1>3, GraphOfStep DEF SagaInv, GraphInv, GraphTypeOK
  <1>5. ASSUME expect[o] # AnyRev, crev[Source[o]] > expect[o] PROVE crev'[Source[o]] > expect[o]
        BY <1>3, <1>4, <1>5
  <1> QED BY <1>2, <1>4, <1>5 DEF Doomed, AnyRev

(* A fork that has not happened and cannot happen now is doomed.           *)
LEMMA CannotIsDoomed ==
  ASSUME SagaInv, NEW o \in Forks, saga[o] # "none", o \notin commands, ~LocalCan(o)
  PROVE Doomed(o)
  <1>1. o \in Ops /\ Source[o] \in Instances /\ Target[o] \in Instances BY OpsAssumption DEF Ops
  <1>2. node[Target[o]] = "absent" BY DEF SagaInv, SidesAgree, ForksAgree
  <1>3. /\ node[Source[o]] # "absent"
        /\ expect[o] # AnyRev => expect[o] \in Nat /\ expect[o] <= crev[Source[o]]
        BY <1>1 DEF SagaInv, SidesAgree, RevisionsAgree
  <1>4. crev[Source[o]] \in Nat /\ node[Source[o]] \in {"absent", "active", "pruned"}
        BY <1>1 DEF SagaInv, GraphInv, GraphTypeOK
  <1>5. ~CanFork(o, Target[o], Source[o], "workflow", ForkRev(o)) BY DEF LocalCan
  <1>6. \/ node[Source[o]] # "active" \/ scope[Source[o]] # "workflow"
        \/ expect[o] # AnyRev /\ crev[Source[o]] # expect[o]
        BY <1>2, <1>5 DEF CanFork, ForkRev
  <1>7. ASSUME expect[o] # AnyRev, crev[Source[o]] # expect[o] PROVE crev[Source[o]] > expect[o]
        BY <1>3, <1>4, <1>7
  <1> QED BY <1>3, <1>4, <1>6, <1>7 DEF Doomed

LEMMA DoomedCannot == ASSUME SagaInv, NEW o \in Forks, Doomed(o) PROVE ~LocalCan(o)
  <1>1. Source[o] \in Instances /\ o \in Ops BY OpsAssumption DEF Ops
  <1>2. ~CanFork(o, Target[o], Source[o], "workflow", ForkRev(o))
    <2>1. crev[Source[o]] \in Nat /\ expect[o] \in Int
          BY <1>1 DEF SagaInv, TypeOK, GraphInv, GraphTypeOK
    <2>2. ~(expect[o] # AnyRev /\ crev[Source[o]] > expect[o] /\ crev[Source[o]] = ForkRev(o))
          BY <2>1 DEF ForkRev
    <2> QED BY <2>2 DEF Doomed, CanFork
  <1> QED BY <1>2, OpsAssumption DEF LocalCan

(* What the transaction of an attempt leaves in the graph.                 *)
LEMMA CommitLeaves ==
  ASSUME SagaInv, NEW a \in Attempts, LocalCommits(a)
  PROVE /\ Op(a) \in Forks => /\ node' = [node EXCEPT ![At(a)] = "active"]
                              /\ commands' = commands \cup {Op(a)} /\ tomb' = tomb
        /\ Op(a) \notin Forks => \A i \in Instances : node'[i] = "absent" <=> node[i] = "absent"
        /\ Op(a) \in Renames \cup Visits => commands' = commands /\ tomb' = tomb
        /\ Op(a) \in Prunes =>
             /\ commands' = commands \cup {Op(a)}
             /\ tomb' = [i \in Instances |-> IF i \in Subtree(At(a)) THEN Op(a) ELSE tomb[i]]
  <1>1. CASE Op(a) \in Forks
    <2>1. Fork(Op(a), At(a), Source[Op(a)], "workflow", Given[Op(a)], First[Op(a)])
          BY <1>1, OpsAssumption DEF LocalCommits
    <2>2. Op(a) # NoKey BY OpOfAttempt, GraphAssumption
    <2> QED BY <1>1, <2>1, <2>2, OpsAssumption DEF Fork
  <1>2. CASE Op(a) \in Renames
    <2>1. Rename(At(a), Op(a)) BY <1>2, OpsAssumption DEF LocalCommits
    <2> QED BY <1>2, <2>1, OpsAssumption DEF Rename, treeVars
  <1>3. CASE Op(a) \in Visits
    <2>1. Activate(At(a)) BY <1>3, OpsAssumption DEF LocalCommits
    <2> QED BY <1>3, <2>1, OpsAssumption DEF Activate, treeVars
  <1>4. CASE Op(a) \in Prunes
    <2>1. Prune(Op(a), At(a)) BY <1>4, OpsAssumption DEF LocalCommits
    <2>2. \A i \in Subtree(At(a)) : node[i] # "absent"
          BY DEF Subtree, SagaInv, GraphInv, RoutesHold
    <2> QED BY <1>4, <2>1, <2>2, OpsAssumption DEF Prune
  <1> QED BY <1>1, <1>2, <1>3, <1>4, OpOfAttempt DEF Ops

(* Threads and visits make turns at most, and no command.                  *)
LEMMA ThreadLeaves ==
  ASSUME SagaInv, Thread \/ \E a \in Attempts : Visit(a)
  PROVE /\ commands' = commands /\ tomb' = tomb
        /\ \A i \in Instances \ Turns : node'[i] = "absent" <=> node[i] = "absent"
  <1>1. ASSUME NEW i \in Turns, ForkTurn(i, NoKey)
        PROVE /\ commands' = commands /\ tomb' = tomb
              /\ \A j \in Instances \ Turns : node'[j] = "absent" <=> node[j] = "absent"
        BY <1>1 DEF ForkTurn, Fork, SagaInv, GraphInv, GraphTypeOK
  <1>2. ASSUME NEW i \in Instances, Speak(i) PROVE UNCHANGED <<commands, tomb, node>>
    <2>1. CASE Edit(i) BY <2>1 DEF Edit, treeVars
    <2>2. CASE Merge(i) BY <2>2 DEF Merge, treeVars
    <2>3. ASSUME NEW role, NEW text, AppendMessage(i, role, text)
          PROVE UNCHANGED <<commands, tomb, node>>
          BY <2>3 DEF AppendMessage, treeVars
    <2> QED BY <1>2, <2>1, <2>2, <2>3 DEF Speak
  <1>3. ASSUME NEW i \in Instances, NameTurn(i) PROVE UNCHANGED <<commands, tomb, node>>
        BY <1>3 DEF NameTurn, RenameTurn, treeVars
  <1>5. CASE NameWorkflow BY <1>5 DEF NameWorkflow, RenameWorkflow, treeVars
  <1>4. ASSUME NEW a \in Attempts, Visit(a) PROVE UNCHANGED <<commands, tomb, node>>
        BY <1>4 DEF Visit, Activate, treeVars
  <1> QED BY <1>1, <1>2, <1>3, <1>4, <1>5 DEF Thread

(* A step by an attempt of operation o.                                    *)
Own(o) == \E a \in Attempts :
            /\ Op(a) = o
            /\ Quiet(a) \/ HostActs(a) \/ HostUndoes(a) \/ LocalCommits(a) \/ Visit(a)

(* Other steps leave an operation where it is, on both sides.              *)
LEMMA ForeignStep ==
  ASSUME SagaInv, [Next]_vars, NEW o \in Ops, ~Own(o), ~Restart
  PROVE /\ saga'[o] = saga[o] /\ expect'[o] = expect[o]
        /\ \A a \in Attempts : Op(a) = o => pc'[a] = pc[a] /\ todo'[a] = todo[a]
        /\ o \in commands' <=> o \in commands
        /\ \A i \in Instances : tomb'[i] = o => tomb[i] = o
        /\ archived \subseteq archived'
        /\ o \in Forks => /\ copies'[Target[o]] = copies[Target[o]]
                          /\ node'[Target[o]] = "absent" <=> node[Target[o]] = "absent"
  <1>t. TypeOK BY DEF SagaInv
  <1>o. o \in Forks => /\ Target[o] \in Instances \ Turns /\ o \notin Prunes
                       /\ \A p \in Forks : p # o => Target[p] # Target[o]
        BY OpsAssumption DEF Ops
  <1>g. tomb \in [Instances -> Keys \cup {NoKey}] /\ node \in [Instances -> {"absent", "active", "pruned"}]
        BY DEF SagaInv, GraphInv, GraphTypeOK
  <1>1. ASSUME NEW a \in Attempts, Op(a) # o,
               Quiet(a) \/ HostActs(a) \/ HostUndoes(a) \/ LocalCommits(a) \/ Visit(a)
        PROVE /\ saga'[o] = saga[o] /\ expect'[o] = expect[o]
              /\ \A b \in Attempts : Op(b) = o => pc'[b] = pc[b] /\ todo'[b] = todo[b]
        BY <1>t, <1>1, OthersStay
  <1>2. ASSUME NEW a \in Attempts, Op(a) # o, Quiet(a)
        PROVE UNCHANGED <<commands, tomb, archived, copies, node>>
        BY <1>2, QuietIsQuiet
  <1>3. ASSUME NEW a \in Attempts, Op(a) # o, HostActs(a)
        PROVE /\ UNCHANGED <<commands, tomb, node>> /\ archived \subseteq archived'
              /\ o \in Forks => copies'[Target[o]] = copies[Target[o]]
    <2>1. UNCHANGED <<commands, tomb, node>> BY <1>3 DEF HostActs, graphVars, treeVars
    <2>2. archived \subseteq archived' BY <1>3 DEF HostActs, hostVars
    <2>3. CASE Op(a) \in Forks
      <3>1. copies' = [copies EXCEPT ![At(a)] = copies[At(a)] + 1]
            BY <1>3, <2>3, OpsAssumption DEF HostActs
      <3> QED BY <1>o, <1>t, <1>3, <2>1, <2>2, <2>3, <3>1 DEF At, TypeOK
    <2>4. CASE Op(a) \notin Forks BY <1>3, <2>1, <2>2, <2>4 DEF HostActs, hostVars
    <2> QED BY <2>3, <2>4
  <1>4. ASSUME NEW a \in Attempts, Op(a) # o, HostUndoes(a)
        PROVE UNCHANGED <<commands, tomb, node, copies>> /\ archived \subseteq archived'
        BY <1>4 DEF HostUndoes, graphVars, treeVars
  <1>5. ASSUME NEW a \in Attempts, Op(a) # o, LocalCommits(a)
        PROVE /\ UNCHANGED <<copies, archived>>
              /\ o \in commands' <=> o \in commands
              /\ \A i \in Instances : tomb'[i] = o => tomb[i] = o
              /\ o \in Forks => (node'[Target[o]] = "absent" <=> node[Target[o]] = "absent")
    <2>1. UNCHANGED <<copies, archived>> BY <1>5 DEF LocalCommits, hostVars
    <2>2. CASE Op(a) \in Forks
      <3>1. o \in Forks => At(a) # Target[o] BY <1>o, <1>5, <2>2 DEF At
      <3> QED BY <1>5, <1>g, <1>o, <2>1, <2>2, <3>1, CommitLeaves
    <2>3. CASE Op(a) \in Renames \cup Visits
          BY <1>5, <1>o, <2>1, <2>3, CommitLeaves, OpsAssumption
    <2>4. CASE Op(a) \in Prunes
          BY <1>5, <1>o, <1>g, <2>1, <2>4, CommitLeaves, OpsAssumption
    <2> QED BY <2>2, <2>3, <2>4, OpOfAttempt DEF Ops
  <1>6. ASSUME NEW a \in Attempts, Op(a) # o, Visit(a)
        PROVE /\ UNCHANGED <<copies, archived, commands, tomb>>
              /\ o \in Forks => (node'[Target[o]] = "absent" <=> node[Target[o]] = "absent")
        BY <1>6, <1>o, ThreadLeaves DEF Visit, hostVars
  <1>7. CASE Thread
    <2>1. UNCHANGED <<saga, expect, pc, todo, copies, archived>>
          BY <1>7 DEF Thread, attemptVars, hostVars
    <2> QED BY <1>7, <1>o, <2>1, ThreadLeaves
  <1>8. CASE UNCHANGED vars
        BY <1>8 DEF vars, graphVars, treeVars, attemptVars, hostVars
  <1>9. CASE \E a \in Attempts : /\ Op(a) # o
                                 /\ Quiet(a) \/ HostActs(a) \/ HostUndoes(a)
                                    \/ LocalCommits(a) \/ Visit(a)
        BY <1>1, <1>2, <1>3, <1>4, <1>5, <1>6, <1>9
  <1> QED BY <1>7, <1>8, <1>9, StepSplits DEF Own

(* The journal and the attempts of the operation that a step belongs to.   *)
LEMMA OwnJournal ==
  ASSUME SagaInv, NEW b \in Attempts,
         Quiet(b) \/ HostActs(b) \/ HostUndoes(b) \/ LocalCommits(b) \/ Visit(b),
         NEW a \in Attempts, Op(a) = Op(b)
  PROVE /\ pc'[a] \in AtHost => /\ saga'[Op(b)] = "started"
                                /\ \A c \in Attempts : Op(c) = Op(b) /\ pc'[c] # "idle" => c = a
        /\ pc'[a] \in Beyond => saga'[Op(b)] \notin {"none", "started"}
        /\ pc'[a] \in {"undo", "undone"} => Op(b) \in Forks \cup Renames
        /\ pc'[a] = "visit" => Op(b) \in Forks
        /\ Op(b) \in Forks => todo'[a] = {}
  <1> DEFINE o == Op(b)
             Goal == /\ pc'[a] \in AtHost => /\ saga'[o] = "started"
                                             /\ \A c \in Attempts : Op(c) = o /\ pc'[c] # "idle" => c = a
                     /\ pc'[a] \in Beyond => saga'[o] \notin {"none", "started"}
                     /\ pc'[a] \in {"undo", "undone"} => o \in Forks \cup Renames
                     /\ pc'[a] = "visit" => o \in Forks
                     /\ o \in Forks => todo'[a] = {}
  <1>0. /\ pc \in [Attempts -> Pcs] /\ todo \in [Attempts -> SUBSET Instances]
        /\ saga \in [Ops -> Terminal \cup {"none", "started", "host_succeeded"}] /\ o \in Ops
        BY OpOfAttempt DEF SagaInv, TypeOK
  <1>1. \A c \in Attempts : Op(c) = o =>
          /\ pc[c] \in AtHost => /\ saga[o] = "started"
                                /\ \A d \in Attempts : Op(d) = o /\ pc[d] # "idle" => d = c
          /\ pc[c] \in Beyond => saga[o] \notin {"none", "started"}
          /\ pc[c] \in {"undo", "undone"} => o \in Forks \cup Renames
          /\ pc[c] = "visit" => o \in Forks
          /\ o \in Forks => todo[c] = {}
        BY DEF SagaInv, SidesAgree, JournalAgrees
  <1>2. \A c \in Attempts \ {b} : pc'[c] = pc[c] /\ todo'[c] = todo[c]
        BY OthersStay DEF SagaInv
  <1>3. o \in Forks => o \notin Renames \cup Visits \cup Prunes BY OpsAssumption
  <1> USE DEF Goto, Leave, Transition, Terminal, Pcs, AtHost, Beyond
  <1>4. ASSUME Begin(b) PROVE Goal BY <1>0, <1>1, <1>2, <1>3, <1>4 DEF Begin, Plan
  <1>5. ASSUME BeginAgain(b) PROVE Goal BY <1>0, <1>1, <1>2, <1>3, <1>5 DEF BeginAgain, Resume, Plan
  <1>6. ASSUME HostActs(b) PROVE Goal
    <2>1. /\ pc[b] = "calling" /\ pc' = [pc EXCEPT ![b] = "called"] /\ saga' = saga
          /\ o \in Forks => todo' = todo
          BY <1>3, <1>6 DEF HostActs
    <2> QED BY <1>0, <1>1, <1>2, <2>1
  <1>7. ASSUME HostReturns(b) PROVE Goal BY <1>0, <1>1, <1>2, <1>7 DEF HostReturns
  <1>8. ASSUME HostRefuses(b) \/ HostRaises(b) PROVE Goal
        BY <1>0, <1>1, <1>2, <1>8 DEF HostRefuses, HostRaises
  <1>9. ASSUME LocalCommits(b) \/ LocalReplays(b) PROVE Goal
    <2>1. /\ pc[b] = "local" /\ saga' = saga /\ todo' = todo
          /\ pc' = [pc EXCEPT ![b] = IF o \in Forks THEN "visit" ELSE "finish"]
          BY <1>9 DEF LocalCommits, LocalReplays, LocalDone
    <2> QED BY <1>0, <1>1, <1>2, <2>1
  <1>10. ASSUME LocalRaises(b) PROVE Goal BY <1>0, <1>1, <1>2, <1>10 DEF LocalRaises
  <1>11. ASSUME HostUndoes(b) PROVE Goal
    <2>1. pc[b] = "undo" /\ pc' = [pc EXCEPT ![b] = "undone"] /\ saga' = saga /\ todo' = todo
          BY <1>11 DEF HostUndoes
    <2> QED BY <1>0, <1>1, <1>2, <2>1
  <1>12. ASSUME Undone(b) \/ UndoFails(b) PROVE Goal
        BY <1>0, <1>1, <1>2, <1>12 DEF Undone, UndoFails, UndoFailure
  <1>13. ASSUME Visit(b) \/ SkipVisit(b) PROVE Goal
        BY <1>0, <1>1, <1>2, <1>13 DEF Visit, SkipVisit
  <1>14. ASSUME Finish(b) PROVE Goal BY <1>0, <1>1, <1>2, <1>14 DEF Finish
  <1> HIDE DEF Goal
  <1>15. Goal BY <1>4, <1>5, <1>6, <1>7, <1>8, <1>9, <1>10, <1>11, <1>12, <1>13, <1>14 DEF Quiet
  <1> QED BY <1>15 DEF Goal

LEMMA SagaJournal == ASSUME SagaInv, [Next]_vars PROVE JournalAgrees'
  <1> SUFFICES ASSUME NEW a \in Attempts
               PROVE /\ pc'[a] \in AtHost =>
                          /\ saga'[Op(a)] = "started"
                          /\ \A c \in Attempts : Op(c) = Op(a) /\ pc'[c] # "idle" => c = a
                     /\ pc'[a] \in Beyond => saga'[Op(a)] \notin {"none", "started"}
                     /\ pc'[a] \in {"undo", "undone"} => Op(a) \in Forks \cup Renames
                     /\ pc'[a] = "visit" => Op(a) \in Forks
                     /\ Op(a) \in Forks => todo'[a] = {}
      BY DEF JournalAgrees, Op
  <1>1. CASE Own(Op(a)) BY <1>1, OwnJournal DEF Own
  <1>2. CASE Restart BY <1>2 DEF Restart, AtHost, Beyond
  <1>3. CASE ~Own(Op(a)) /\ ~Restart
    <2>1. /\ saga'[Op(a)] = saga[Op(a)]
          /\ \A c \in Attempts : Op(c) = Op(a) => pc'[c] = pc[c] /\ todo'[c] = todo[c]
          BY <1>3, ForeignStep, OpOfAttempt
    <2> QED BY <2>1 DEF SagaInv, SidesAgree, JournalAgrees
  <1> QED BY <1>1, <1>2, <1>3

(* The two sides of the fork that a step belongs to.                       *)
LEMMA OwnFork ==
  ASSUME SagaInv, [Next]_vars, NEW b \in Attempts, Op(b) \in Forks,
         Quiet(b) \/ HostActs(b) \/ HostUndoes(b) \/ LocalCommits(b) \/ Visit(b)
  PROVE LET o == Op(b) IN
        /\ node'[Target[o]] # "absent" <=> o \in commands'
        /\ copies'[Target[o]] <= 1
        /\ saga'[o] = "none" => copies'[Target[o]] = 0
        /\ saga'[o] \in {"none", "started"} => o \notin commands'
        /\ saga'[o] = "started" => \E a \in Attempts : Op(a) = o /\ pc'[a] \in AtHost
        /\ saga'[o] = "host_succeeded" \/ o \in commands' => copies'[Target[o]] = 1
        /\ saga'[o] = "completed" => o \in commands'
        /\ saga'[o] = "compensated" => o \notin commands' /\ Doomed(o)' /\ Target[o] \in archived'
        /\ \A a \in Attempts : Op(a) = o =>
             /\ pc'[a] = "calling" => copies'[Target[o]] = 0
             /\ pc'[a] = "called" \/ pc'[a] \in Beyond => copies'[Target[o]] = 1
             /\ pc'[a] \in {"visit", "finish"} => o \in commands'
             /\ pc'[a] \in {"undo", "undone"} => o \notin commands' /\ Doomed(o)'
             /\ pc'[a] = "undone" => Target[o] \in archived'
  <1> DEFINE o == Op(b)
             T == Target[o]
             Fate == /\ saga'[o] = "none" => copies'[T] = 0
                     /\ saga'[o] \in {"none", "started"} => o \notin commands'
                     /\ saga'[o] = "started" => \E a \in Attempts : Op(a) = o /\ pc'[a] \in AtHost
                     /\ saga'[o] = "host_succeeded" => copies'[T] = 1
                     /\ saga'[o] = "completed" => o \in commands'
                     /\ saga'[o] = "compensated" => o \notin commands' /\ Doomed(o)' /\ T \in archived'
             Places == \A a \in Attempts : Op(a) = o =>
                        /\ pc'[a] = "calling" => copies'[T] = 0
                        /\ pc'[a] = "called" \/ pc'[a] \in Beyond => copies'[T] = 1
                        /\ pc'[a] \in {"visit", "finish"} => o \in commands'
                        /\ pc'[a] \in {"undo", "undone"} => o \notin commands' /\ Doomed(o)'
                        /\ pc'[a] = "undone" => T \in archived'
             Sides == /\ node'[T] # "absent" <=> o \in commands'
                      /\ copies'[T] <= 1 /\ (o \in commands' => copies'[T] = 1)
             Goal == Fate /\ Places /\ Sides
  <1>0. /\ pc \in [Attempts -> Pcs] /\ copies \in [Instances -> Nat] /\ T \in Instances
        /\ saga \in [Ops -> Terminal \cup {"none", "started", "host_succeeded"}] /\ o \in Ops
        BY OpOfAttempt DEF SagaInv, TypeOK
  <1>1. \A c \in Attempts : Op(c) = o =>
          /\ pc[c] \in AtHost => /\ saga[o] = "started"
                                 /\ \A d \in Attempts : Op(d) = o /\ pc[d] # "idle" => d = c
          /\ pc[c] \in Beyond => saga[o] \notin {"none", "started"}
          /\ todo[c] = {}
        BY DEF SagaInv, SidesAgree, JournalAgrees
  <1>2. /\ node[T] # "absent" <=> o \in commands
        /\ copies[T] <= 1
        /\ saga[o] = "none" => copies[T] = 0
        /\ saga[o] \in {"none", "started"} => o \notin commands
        /\ saga[o] = "started" => \E a \in Attempts : Op(a) = o /\ pc[a] \in AtHost
        /\ saga[o] = "host_succeeded" \/ o \in commands => copies[T] = 1
        /\ saga[o] = "completed" => o \in commands
        /\ saga[o] = "compensated" => o \notin commands /\ Doomed(o) /\ T \in archived
        BY DEF SagaInv, SidesAgree, ForksAgree
  <1>3. \A c \in Attempts : Op(c) = o =>
          /\ pc[c] = "calling" => copies[T] = 0
          /\ pc[c] = "called" \/ pc[c] \in Beyond => copies[T] = 1
          /\ pc[c] \in {"visit", "finish"} => o \in commands
          /\ pc[c] \in {"undo", "undone"} => o \notin commands /\ Doomed(o)
          /\ pc[c] = "undone" => T \in archived
        BY DEF SagaInv, SidesAgree, ForkAttemptsAgree, At
  <1>4. \A c \in Attempts \ {b} : pc'[c] = pc[c]
        BY OthersStay DEF SagaInv
  <1>5. o \in Forks /\ o \notin Renames \cup Visits \cup Prunes BY OpsAssumption
  <1>6. saga[o] # "none" /\ Doomed(o) => Doomed(o)' BY <1>5, DoomedStays
  <1>7. Quiet(b) => UNCHANGED <<node, commands, copies, archived>> BY QuietIsQuiet
  <1> HIDE DEF o, T
  <1>8. ASSUME UNCHANGED <<node, commands, copies>> PROVE Sides BY <1>2, <1>8
  <1>9. /\ Op(b) = o /\ At(b) = T BY DEF o, T, At
  <1> USE DEF Goto, Leave, Transition, Terminal, Pcs, AtHost, Beyond
  <1>10. ASSUME Begin(b) PROVE Goal
    <2>1. /\ pc[b] = "idle" /\ saga[o] = "none" /\ UNCHANGED <<node, commands, copies, archived>>
          /\ \/ saga' = [saga EXCEPT ![o] = "failed"] /\ pc' = [pc EXCEPT ![b] = "idle"]
             \/ saga' = [saga EXCEPT ![o] = "started"] /\ pc' = [pc EXCEPT ![b] = "calling"]
          BY <1>7, <1>9, <1>10 DEF Begin, Quiet
    <2>2. copies[T] = 0 /\ o \notin commands BY <1>2, <2>1
    <2>3. \A c \in Attempts : Op(c) = o => pc[c] = "idle" BY <1>0, <1>1, <2>1
    <2>4. CASE saga' = [saga EXCEPT ![o] = "failed"] /\ pc' = [pc EXCEPT ![b] = "idle"]
      <3>1. saga'[o] = "failed" /\ pc'[b] = "idle" BY <1>0, <2>4
      <3> QED BY <1>2, <1>4, <1>9, <2>1, <2>2, <2>3, <3>1
    <2>5. CASE saga' = [saga EXCEPT ![o] = "started"] /\ pc' = [pc EXCEPT ![b] = "calling"]
      <3>1. saga'[o] = "started" /\ pc'[b] = "calling" BY <1>0, <2>5
      <3> QED BY <1>2, <1>4, <1>9, <2>1, <2>2, <2>3, <3>1
    <2> QED BY <2>1, <2>4, <2>5
  <1>11. ASSUME BeginAgain(b) PROVE Goal
         BY <1>0, <1>1, <1>2, <1>3, <1>4, <1>5, <1>6, <1>7, <1>8, <1>9, <1>11 DEF BeginAgain, Resume, Quiet
  <1>12. ASSUME HostActs(b) PROVE Goal
    <2>1. /\ pc[b] = "calling" /\ pc' = [pc EXCEPT ![b] = "called"] /\ saga' = saga
          /\ copies' = [copies EXCEPT ![T] = copies[T] + 1]
          /\ UNCHANGED <<node, commands, archived>>
          BY <1>5, <1>9, <1>12 DEF HostActs, graphVars, treeVars
    <2>2. saga[o] = "started" /\ copies[T] = 0 /\ o \notin commands BY <1>1, <1>2, <1>3, <1>9, <2>1
    <2>3. copies'[T] = 1 BY <1>0, <2>1, <2>2
    <2>4. \A c \in Attempts : Op(c) = o => pc'[c] \in {"idle", "called"}
          BY <1>0, <1>1, <1>4, <1>9, <2>1
    <2>5. pc'[b] = "called" BY <1>0, <2>1
    <2> QED BY <1>2, <1>9, <2>1, <2>2, <2>3, <2>4, <2>5
  <1>13. ASSUME HostReturns(b) PROVE Goal
    <2>1. /\ pc[b] = "called" /\ pc' = [pc EXCEPT ![b] = "local"]
          /\ saga' = [saga EXCEPT ![o] = "host_succeeded"]
          BY <1>0, <1>1, <1>9, <1>13 DEF HostReturns, MoreToArchive
    <2> QED BY <1>0, <1>1, <1>2, <1>3, <1>4, <1>7, <1>8, <1>9, <1>13, <2>1 DEF Quiet
  <1>14. ASSUME HostRaises(b) PROVE Goal
         BY <1>0, <1>1, <1>2, <1>3, <1>4, <1>5, <1>7, <1>8, <1>9, <1>14 DEF HostRaises, Quiet
  <1>15. ASSUME LocalCommits(b) PROVE Goal
    <2>1. /\ pc[b] = "local" /\ pc' = [pc EXCEPT ![b] = "visit"] /\ UNCHANGED <<saga, copies, archived>>
          /\ LocalCan(o)
          BY <1>5, <1>9, <1>15 DEF LocalCommits, LocalDone, hostVars
    <2>2. node' = [node EXCEPT ![T] = "active"] /\ o \in commands'
          BY <1>5, <1>9, <1>15, CommitLeaves
    <2>3. ~Doomed(o) BY <1>5, <2>1, DoomedCannot
    <2>4. copies[T] = 1 /\ saga[o] \notin {"none", "started"} BY <1>1, <1>3, <1>9, <2>1
    <2>5. \A c \in Attempts : Op(c) = o => pc[c] \notin {"calling", "undo", "undone"}
          BY <1>1, <1>3, <2>3, <2>4
    <2>6. node'[T] = "active"
          BY <1>0, <2>2 DEF SagaInv, GraphInv, GraphTypeOK
    <2> QED BY <1>0, <1>2, <1>3, <1>4, <1>9, <2>1, <2>2, <2>3, <2>4, <2>5, <2>6
  <1>16. ASSUME LocalReplays(b) PROVE Goal
         BY <1>0, <1>1, <1>2, <1>3, <1>4, <1>5, <1>6, <1>7, <1>8, <1>9, <1>16 DEF LocalReplays, LocalDone, Quiet
  <1>17. ASSUME LocalRaises(b) PROVE Goal
    <2>1. pc[b] = "local" /\ o \notin commands /\ ~LocalCan(o) BY <1>9, <1>17 DEF LocalRaises
    <2>2. saga[o] \notin {"none", "started"} BY <1>1, <1>9, <2>1
    <2>3. Doomed(o) BY <1>5, <2>1, <2>2, CannotIsDoomed
    <2> QED BY <1>0, <1>1, <1>2, <1>3, <1>4, <1>5, <1>6, <1>7, <1>8, <1>9, <1>17, <2>2, <2>3
            DEF LocalRaises, Quiet
  <1>18. ASSUME HostUndoes(b) PROVE Goal
    <2>1. /\ pc[b] = "undo" /\ pc' = [pc EXCEPT ![b] = "undone"] /\ saga' = saga
          /\ archived' = archived \cup {T} /\ UNCHANGED <<node, commands, copies>>
          BY <1>5, <1>9, <1>18 DEF HostUndoes, graphVars, treeVars
    <2>2. saga[o] \notin {"none", "started"} BY <1>1, <1>9, <2>1
    <2> QED BY <1>0, <1>1, <1>2, <1>3, <1>4, <1>6, <1>8, <1>9, <2>1, <2>2
  <1>19. ASSUME Undone(b) \/ UndoFails(b) PROVE Goal
         BY <1>0, <1>1, <1>2, <1>3, <1>4, <1>6, <1>7, <1>8, <1>9, <1>19 DEF Undone, UndoFails, UndoFailure, Quiet
  <1>20. ASSUME Visit(b) PROVE Goal
    <2>1. /\ pc[b] = "visit" /\ pc' = [pc EXCEPT ![b] = "finish"]
          /\ UNCHANGED <<saga, copies, archived, commands, node>>
          BY <1>20 DEF Visit, Activate, hostVars, treeVars
    <2>2. saga[o] \notin {"none", "started"} BY <1>1, <1>9, <2>1
    <2> QED BY <1>0, <1>1, <1>2, <1>3, <1>4, <1>6, <1>8, <1>9, <2>1, <2>2
  <1>21. ASSUME SkipVisit(b) \/ Finish(b) PROVE Goal
         BY <1>0, <1>1, <1>2, <1>3, <1>4, <1>6, <1>7, <1>8, <1>9, <1>21 DEF SkipVisit, Finish, Quiet
  <1>22. ~HostRefuses(b) BY <1>5, <1>9 DEF HostRefuses
  <1> HIDE DEF Goal
  <1>23. Goal BY <1>10, <1>11, <1>12, <1>13, <1>14, <1>15, <1>16, <1>17, <1>18, <1>19, <1>20, <1>21,
                 <1>22 DEF Quiet
  <1> QED BY <1>23 DEF Goal, o, T

LEMMA SagaForks == ASSUME SagaInv, [Next]_vars PROVE ForksAgree' /\ ForkAttemptsAgree'
  <1> DEFINE Both(o) ==
        /\ /\ node[Target[o]] # "absent" <=> o \in commands
           /\ copies[Target[o]] <= 1
           /\ saga[o] = "none" => copies[Target[o]] = 0
           /\ saga[o] \in {"none", "started"} => o \notin commands
           /\ saga[o] = "started" => \E a \in Attempts : Op(a) = o /\ pc[a] \in AtHost
           /\ saga[o] = "host_succeeded" \/ o \in commands => copies[Target[o]] = 1
           /\ saga[o] = "completed" => o \in commands
           /\ saga[o] = "compensated" => o \notin commands /\ Doomed(o) /\ Target[o] \in archived
        /\ \A a \in Attempts : Op(a) = o =>
             /\ pc[a] = "calling" => copies[Target[o]] = 0
             /\ pc[a] = "called" \/ pc[a] \in Beyond => copies[Target[o]] = 1
             /\ pc[a] \in {"visit", "finish"} => o \in commands
             /\ pc[a] \in {"undo", "undone"} => o \notin commands /\ Doomed(o)
             /\ pc[a] = "undone" => Target[o] \in archived
  <1>1. ASSUME NEW o \in Forks PROVE Both(o)'
    <2>0. Both(o) BY DEF SagaInv, SidesAgree, ForksAgree, ForkAttemptsAgree, At
    <2>1. o \in Ops BY DEF Ops
    <2>2. CASE Own(o)
      <3> PICK b \in Attempts : /\ Op(b) = o
                                /\ Quiet(b) \/ HostActs(b) \/ HostUndoes(b) \/ LocalCommits(b) \/ Visit(b)
          BY <2>2 DEF Own
      <3> QED BY OwnFork DEF Op
    <2>3. CASE Restart
      <3>1. /\ UNCHANGED <<node, scope, crev, expect, commands, copies, archived>>
            /\ \A a \in Attempts : pc'[a] = "idle"
            /\ saga'[o] = IF saga[o] = "started" THEN "orphaned" ELSE saga[o]
            BY <2>1, <2>3 DEF Restart, Recovered, graphVars, treeVars, hostVars
      <3> QED BY <2>0, <3>1 DEF Doomed, Beyond, AtHost
    <2>4. CASE ~Own(o) /\ ~Restart
      <3>1. /\ saga'[o] = saga[o] /\ archived \subseteq archived'
            /\ \A a \in Attempts : Op(a) = o => pc'[a] = pc[a]
            /\ o \in commands' <=> o \in commands
            /\ copies'[Target[o]] = copies[Target[o]]
            /\ node'[Target[o]] = "absent" <=> node[Target[o]] = "absent"
        BY <2>1, <2>4, ForeignStep
      <3>2. saga[o] # "none" /\ Doomed(o) => Doomed(o)' BY DoomedStays
      <3>3. \A a \in Attempts : Op(a) = o /\ pc[a] \in {"undo", "undone"} => saga[o] # "none"
            BY DEF SagaInv, SidesAgree, JournalAgrees, Beyond
      <3> HIDE DEF Doomed
      <3> QED BY <2>0, <3>1, <3>2, <3>3 DEF Op
    <2> QED BY <2>2, <2>3, <2>4
  <1>2. ForksAgree' BY <1>1 DEF ForksAgree
  <1>3. ForkAttemptsAgree'
    <2> SUFFICES ASSUME NEW a \in Attempts, Op(a) \in Forks
                 PROVE /\ pc'[a] = "calling" => copies'[At(a)] = 0
                       /\ pc'[a] = "called" \/ pc'[a] \in Beyond => copies'[At(a)] = 1
                       /\ pc'[a] \in {"visit", "finish"} => Op(a) \in commands'
                       /\ pc'[a] \in {"undo", "undone"} => Op(a) \notin commands' /\ Doomed(Op(a))'
                       /\ pc'[a] = "undone" => At(a) \in archived'
        BY DEF ForkAttemptsAgree, At, Op
    <2> QED BY <1>1 DEF At
  <1> QED BY <1>2, <1>3

(* A prune whose revision is still that of the graph has been planned on   *)
(* the tree that is there.                                                 *)
LEMMA TreeOfRevision ==
  ASSUME SagaInv, [Next]_vars, NEW o \in Prunes, saga[o] # "none", grev' = expect'[o]
  PROVE grev = expect[o] /\ Subtree(Target[o])' = Subtree(Target[o])
  <1>1. o \in Ops BY DEF Ops
  <1>2. expect'[o] = expect[o] BY <1>1, BegunStays DEF SagaInv
  <1>3. expect[o] <= grev BY <1>1 DEF SagaInv, SidesAgree, RevisionsAgree
  <1>4. grev' >= grev /\ (treeVars' # treeVars => grev' > grev) BY GraphOfStep
  <1>5. grev \in Nat /\ grev' \in Nat /\ expect[o] \in Int
        BY <1>1, GraphOfStep DEF SagaInv, TypeOK, GraphInv, GraphTypeOK
  <1>6. grev = expect[o] /\ grev' = grev BY <1>2, <1>3, <1>4, <1>5
  <1>7. treeVars' = treeVars BY <1>4, <1>5, <1>6
  <1> QED BY <1>6, <1>7 DEF treeVars, Subtree

(* The two sides of the prune that a step belongs to.                      *)
LEMMA OwnPrune ==
  ASSUME SagaInv, [Next]_vars, NEW b \in Attempts, Op(b) \in Prunes,
         Quiet(b) \/ HostActs(b) \/ HostUndoes(b) \/ LocalCommits(b) \/ Visit(b)
  PROVE LET o == Op(b) IN
        /\ \A i \in Instances : tomb'[i] = o => o \in commands'
        /\ saga'[o] \in {"none", "started"} => o \notin commands'
        /\ saga'[o] = "host_succeeded" /\ grev' = expect'[o] =>
             Subtree(Target[o])' \subseteq archived'
        /\ saga'[o] = "completed" => o \in commands'
        /\ saga'[o] \in {"host_succeeded", "completed"} =>
             \A i \in Instances : tomb'[i] = o => i \in archived'
        /\ \A a \in Attempts : Op(a) = o =>
             /\ pc'[a] \in AtHost /\ grev' = expect'[o] =>
                  Subtree(Target[o])' \ todo'[a] \subseteq archived'
             /\ pc'[a] = "finish" => o \in commands'
  <1> DEFINE o == Op(b)
             T == Target[o]
             Below == Subtree(Target[o])
             Fate == /\ \A i \in Instances : tomb'[i] = o => o \in commands'
                     /\ saga'[o] \in {"none", "started"} => o \notin commands'
                     /\ saga'[o] = "host_succeeded" /\ grev' = expect'[o] => Below' \subseteq archived'
                     /\ saga'[o] = "completed" => o \in commands'
                     /\ saga'[o] \in {"host_succeeded", "completed"} =>
                          \A i \in Instances : tomb'[i] = o => i \in archived'
             Places == \A a \in Attempts : Op(a) = o =>
                         /\ pc'[a] \in AtHost /\ grev' = expect'[o] => Below' \ todo'[a] \subseteq archived'
                         /\ pc'[a] = "finish" => o \in commands'
             Goal == Fate /\ Places
  <1>0. /\ pc \in [Attempts -> Pcs] /\ todo \in [Attempts -> SUBSET Instances]
        /\ expect \in [Ops -> Int] /\ T \in Instances /\ grev \in Nat
        /\ saga \in [Ops -> Terminal \cup {"none", "started", "host_succeeded"}] /\ o \in Ops
        BY OpOfAttempt DEF SagaInv, TypeOK, GraphInv, GraphTypeOK
  <1>1. \A c \in Attempts : Op(c) = o =>
          /\ pc[c] \in AtHost => /\ saga[o] = "started"
                                 /\ \A d \in Attempts : Op(d) = o /\ pc[d] # "idle" => d = c
          /\ pc[c] \in Beyond => saga[o] \notin {"none", "started"}
          /\ pc[c] \notin {"undo", "undone", "visit"}
    <2>1. o \notin Forks \cup Renames BY OpsAssumption
    <2> QED BY <2>1 DEF SagaInv, SidesAgree, JournalAgrees
  <1>2. /\ \A i \in Instances : tomb[i] = o => o \in commands
        /\ saga[o] \in {"none", "started"} => o \notin commands
        /\ saga[o] = "host_succeeded" /\ grev = expect[o] => Below \subseteq archived
        /\ saga[o] = "completed" => o \in commands
        /\ saga[o] \in {"host_succeeded", "completed"} =>
             \A i \in Instances : tomb[i] = o => i \in archived
        BY DEF SagaInv, SidesAgree, PrunesAgree
  <1>3. \A c \in Attempts : Op(c) = o =>
          /\ pc[c] \in AtHost /\ grev = expect[o] => Below \ todo[c] \subseteq archived
          /\ pc[c] = "finish" => o \in commands
        BY DEF SagaInv, SidesAgree, PruneAttemptsAgree, At
  <1>4. /\ \A c \in Attempts \ {b} : pc'[c] = pc[c] /\ todo'[c] = todo[c]
        /\ saga[o] # "none" => expect'[o] = expect[o]
        BY OthersStay DEF SagaInv
  <1>5. o \in Prunes /\ o \notin Forks \cup Renames \cup Visits BY OpsAssumption
  <1>6. Quiet(b) => UNCHANGED <<tomb, grev, commands, archived, Below>>
        BY QuietIsQuiet DEF Subtree
  <1>7. saga[o] # "none" /\ grev' = expect'[o] => grev = expect[o] /\ Below' = Below
        BY <1>5, TreeOfRevision
  <1>8. Op(b) = o /\ At(b) = T /\ Below = Subtree(T) BY DEF At
  <1> HIDE DEF o, T, Below
  <1> USE DEF Goto, Leave, Transition, Terminal, Pcs, AtHost, Beyond
  <1>10. ASSUME Begin(b) PROVE Goal
    <2>1. /\ pc[b] = "idle" /\ saga[o] = "none" /\ UNCHANGED <<tomb, grev, commands, archived, Below>>
          /\ saga' = [saga EXCEPT ![o] = "started"] /\ pc' = [pc EXCEPT ![b] = "calling"]
          /\ todo' = [todo EXCEPT ![b] = Below]
          BY <1>5, <1>6, <1>8, <1>10 DEF Begin, Quiet, Stale, Plan
    <2>2. o \notin commands BY <1>2, <2>1
    <2>3. \A c \in Attempts : Op(c) = o => pc[c] = "idle" BY <1>0, <1>1, <2>1
    <2>4. saga'[o] = "started" /\ todo'[b] = Below BY <1>0, <2>1
    <2> QED BY <1>2, <1>4, <1>8, <2>1, <2>2, <2>3, <2>4
  <1>11. ASSUME BeginAgain(b) PROVE Goal
         BY <1>0, <1>1, <1>2, <1>3, <1>4, <1>6, <1>8, <1>11 DEF BeginAgain, Resume, Quiet
  <1>12. ASSUME HostActs(b) PROVE Goal
    <2>1. PICK i \in todo[b] : /\ archived' = archived \cup {i}
                               /\ todo' = [todo EXCEPT ![b] = todo[b] \ {i}]
          BY <1>5, <1>8, <1>12 DEF HostActs, Leaves
    <2>2. /\ pc[b] = "calling" /\ pc' = [pc EXCEPT ![b] = "called"]
          /\ UNCHANGED <<saga, expect, tomb, grev, commands>>
          BY <1>5, <1>8, <1>12 DEF HostActs, graphVars, treeVars
    <2>3. todo'[b] = todo[b] \ {i} BY <1>0, <2>1
    <2>4. saga[o] = "started" /\ saga'[o] = "started" BY <1>1, <1>8, <2>2
    <2>5. \A c \in Attempts : Op(c) = o => c = b \/ pc'[c] = "idle" BY <1>1, <1>4, <1>8, <2>2
    <2> QED BY <1>2, <1>3, <1>7, <1>8, <2>1, <2>2, <2>3, <2>4, <2>5
  <1>13. ASSUME HostReturns(b) PROVE Goal
    <2>1. pc[b] = "called" /\ UNCHANGED <<todo, expect, tomb, grev, commands, archived, Below>>
          BY <1>6, <1>13 DEF HostReturns, Quiet
    <2>2. saga[o] = "started" /\ o \notin commands BY <1>1, <1>2, <1>8, <2>1
    <2>3. \A c \in Attempts : Op(c) = o => c = b \/ pc'[c] = "idle" BY <1>1, <1>4, <1>8, <2>1
    <2>4. CASE MoreToArchive(b)
      <3>1. pc'[b] = "calling" /\ saga' = saga BY <1>0, <1>13, <2>4 DEF HostReturns
      <3> QED BY <1>2, <1>3, <1>8, <2>1, <2>2, <2>3, <3>1
    <2>5. CASE ~MoreToArchive(b)
      <3>1. todo[b] = {} BY <2>5 DEF MoreToArchive
      <3>2. pc'[b] = "local" /\ saga'[o] = "host_succeeded"
            BY <1>0, <1>8, <1>13, <2>2, <2>5 DEF HostReturns
      <3> QED BY <1>2, <1>3, <1>8, <2>1, <2>2, <2>3, <3>1, <3>2
    <2> QED BY <2>4, <2>5
  <1>14. ASSUME HostRefuses(b) \/ HostRaises(b) PROVE Goal
         BY <1>0, <1>1, <1>2, <1>3, <1>4, <1>5, <1>6, <1>8, <1>14 DEF HostRefuses, HostRaises, Quiet
  <1>15. ASSUME LocalCommits(b) PROVE Goal
    <2>1. /\ pc[b] = "local" /\ pc' = [pc EXCEPT ![b] = "finish"] /\ UNCHANGED <<saga, expect, archived>>
          /\ LocalCan(o) /\ Prune(o, T)
          BY <1>5, <1>8, <1>15 DEF LocalCommits, LocalDone, hostVars
    <2>2. grev = expect[o] /\ o \notin commands BY <1>5, <2>1 DEF LocalCan, CanPrune
    <2>3. saga[o] \notin {"none", "started", "completed"} BY <1>1, <1>2, <1>8, <2>1, <2>2
    <2>4. /\ o \in commands' /\ grev' = grev + 1
          /\ \A i \in Instances : tomb'[i] = o => i \in Below \/ tomb[i] = o
          BY <1>8, <2>1 DEF Prune
    <2>5. grev' # expect'[o] BY <1>0, <2>1, <2>2, <2>4
    <2> QED BY <1>2, <1>3, <1>8, <2>1, <2>2, <2>3, <2>4, <2>5
  <1>16. ASSUME LocalReplays(b) \/ LocalRaises(b) PROVE Goal
         BY <1>0, <1>1, <1>2, <1>3, <1>4, <1>5, <1>6, <1>8, <1>16 DEF LocalReplays, LocalRaises, LocalDone, Quiet
  <1>17. ASSUME Finish(b) PROVE Goal
         BY <1>0, <1>1, <1>2, <1>3, <1>4, <1>6, <1>8, <1>17 DEF Finish, Quiet
  <1>18. ~(HostUndoes(b) \/ Undone(b) \/ UndoFails(b) \/ Visit(b) \/ SkipVisit(b))
         BY <1>1, <1>8 DEF HostUndoes, Undone, UndoFails, Visit, SkipVisit
  <1> HIDE DEF Goal
  <1>19. Goal BY <1>10, <1>11, <1>12, <1>13, <1>14, <1>15, <1>16, <1>17, <1>18 DEF Quiet
  <1> QED BY <1>19 DEF Goal, o, T, Below

LEMMA SagaPrunes == ASSUME SagaInv, [Next]_vars PROVE PrunesAgree' /\ PruneAttemptsAgree'
  <1> DEFINE Both(o) ==
        /\ /\ \A i \in Instances : tomb[i] = o => o \in commands
           /\ saga[o] \in {"none", "started"} => o \notin commands
           /\ saga[o] = "host_succeeded" /\ grev = expect[o] => Subtree(Target[o]) \subseteq archived
           /\ saga[o] = "completed" => o \in commands
           /\ saga[o] \in {"host_succeeded", "completed"} =>
                \A i \in Instances : tomb[i] = o => i \in archived
        /\ \A a \in Attempts : Op(a) = o =>
             /\ pc[a] \in AtHost /\ grev = expect[o] =>
                  Subtree(Target[o]) \ todo[a] \subseteq archived
             /\ pc[a] = "finish" => o \in commands
  <1>1. ASSUME NEW o \in Prunes PROVE Both(o)'
    <2>0. Both(o) BY DEF SagaInv, SidesAgree, PrunesAgree, PruneAttemptsAgree, At
    <2>1. o \in Ops BY DEF Ops
    <2>2. CASE Own(o)
      <3> PICK b \in Attempts : /\ Op(b) = o
                                /\ Quiet(b) \/ HostActs(b) \/ HostUndoes(b) \/ LocalCommits(b) \/ Visit(b)
          BY <2>2 DEF Own
      <3> QED BY OwnPrune DEF Op
    <2>3. CASE Restart
      <3>1. /\ UNCHANGED <<grev, tomb, expect, commands, archived, Subtree(Target[o])>>
            /\ \A a \in Attempts : pc'[a] = "idle"
            /\ saga'[o] = IF saga[o] = "started" THEN "orphaned" ELSE saga[o]
            BY <2>1, <2>3 DEF Restart, Recovered, graphVars, treeVars, hostVars, Subtree
      <3> QED BY <2>0, <3>1 DEF AtHost
    <2>4. CASE ~Own(o) /\ ~Restart
      <3>1. /\ saga'[o] = saga[o] /\ archived \subseteq archived'
            /\ \A a \in Attempts : Op(a) = o => pc'[a] = pc[a] /\ todo'[a] = todo[a]
            /\ o \in commands' <=> o \in commands
            /\ \A i \in Instances : tomb'[i] = o => tomb[i] = o
            BY <2>1, <2>4, ForeignStep
      <3>2. saga[o] # "none" /\ grev' = expect'[o] =>
              grev = expect[o] /\ Subtree(Target[o])' = Subtree(Target[o])
            BY TreeOfRevision
      <3>3. \A a \in Attempts : Op(a) = o /\ pc[a] \in AtHost => saga[o] = "started"
            BY DEF SagaInv, SidesAgree, JournalAgrees
      <3> HIDE DEF Subtree
      <3> QED BY <2>0, <3>1, <3>2, <3>3 DEF Op
    <2> QED BY <2>2, <2>3, <2>4
  <1>2. PrunesAgree' BY <1>1 DEF PrunesAgree
  <1>3. PruneAttemptsAgree'
    <2> SUFFICES ASSUME NEW a \in Attempts, Op(a) \in Prunes
                 PROVE /\ pc'[a] \in AtHost /\ grev' = expect'[Op(a)] =>
                            Subtree(Target[Op(a)])' \ todo'[a] \subseteq archived'
                       /\ pc'[a] = "finish" => Op(a) \in commands'
        BY DEF PruneAttemptsAgree, At, Op
    <2> QED BY <1>1
  <1> QED BY <1>2, <1>3

(* Every step keeps the two sides together.                                *)
LEMMA SagaStep == ASSUME SagaInv, [Next]_vars PROVE SagaInv'
  <1>1. TypeOK' BY SagaTypes DEF SagaInv
  <1>2. GraphInv' BY GraphOfStep
  <1> QED BY <1>1, <1>2, SagaJournal, SagaRevisions, SagaForks, SagaPrunes DEF SagaInv, SidesAgree

(* The inductive invariant of the sagas: journal, attempts, graph and host *)
(* agree on every operation, whatever raises and wherever the process      *)
(* dies.                                                                   *)
THEOREM SagaInvariant == Spec => []SagaInv
  BY InitSides, SagaStep, PTL DEF Spec

(* fork and prune_commit: what the journal calls completed has happened in *)
(* the graph and in the host.                                              *)
THEOREM SagaCompletedOnBothSides == Spec => []CompletedOnBothSides
  <1>1. SagaInv => CompletedOnBothSides
        BY DEF SagaInv, SidesAgree, ForksAgree, PrunesAgree, CompletedOnBothSides, LiveInHost
  <1> QED BY <1>1, SagaInvariant, PTL

(* fork: a compensated one leaves neither a child in the graph nor a live  *)
(* conversation in the host.                                               *)
THEOREM SagaCompensatedLeavesNothing == Spec => []CompensatedLeavesNothing
  <1>1. SagaInv => CompensatedLeavesNothing
        BY DEF SagaInv, SidesAgree, ForksAgree, CompensatedLeavesNothing, LiveInHost
  <1> QED BY <1>1, SagaInvariant, PTL

(* fork: repeated requests and restarts never make a second conversation   *)
(* in the host.                                                            *)
THEOREM SagaOneHostCopy == Spec => []OneHostCopy
  <1>1. SagaInv => OneHostCopy BY DEF SagaInv, SidesAgree, ForksAgree, OneHostCopy
  <1> QED BY <1>1, SagaInvariant, PTL

(* fork: a started one is always in the hands of an attempt.               *)
THEOREM SagaStartedIsServed == Spec => []StartedIsServed
  <1>1. SagaInv => StartedIsServed
        BY DEF SagaInv, SidesAgree, ForksAgree, StartedIsServed, AtHost
  <1> QED BY <1>1, SagaInvariant, PTL
=============================================================================
