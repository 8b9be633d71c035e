------------------------------ MODULE HostSagas ------------------------------
(***************************************************************************)
(* Mutations of a workflow whose conversations live in an external host    *)
(* (Codex, Claude Code): the endpoints fork, rename_instance, activate and *)
(* prune_commit of api/app.py with the journal of host_adapters/saga.py.   *)
(*                                                                         *)
(* An operation (a row of host_operation_sagas) is named by its            *)
(* idempotency key.  An attempt <<operation, n>> is a coroutine of the one *)
(* event loop that serves HTTP requests for it, one after the other; two   *)
(* attempts of an operation are concurrent requests.  A coroutine is       *)
(* suspended while it awaits the host.  A host call has two steps, the     *)
(* host acts and the answer arrives: the answer may be lost with or        *)
(* without the act.  Journal and graph are separate transactions, between  *)
(* which requests served by threads may change the graph, and the process  *)
(* may die.                                                                *)
(***************************************************************************)
EXTENDS ConversationGraph, FiniteSets

CONSTANTS Forks, Renames, Visits, Prunes,  \* operations of each type
          Target,      \* Target[o]: the child of a fork, else the instance
          Source,      \* Source[o]: where a fork starts
          Given, First,  \* the title and the first message in a fork, or NoText
          Turns,       \* ids that fork-chat gives to turns
          Coroutines,  \* that may serve requests of one key
          Attempts,    \* <<operation, coroutine>>
          MaxOps, MaxRequests, MaxCrashes   \* bounds: see Begin, Thread, Restart

Ops == Forks \cup Renames \cup Visits \cup Prunes
AnyRev == -1        \* a fork without expectedContentRevision
Unseen == -2        \* nobody has asked for the operation

ASSUME OpsAssumption == /\ Keys = Ops /\ Renames \subseteq Titles
                        /\ Forks \cap (Renames \cup Visits \cup Prunes) = {}
                        /\ Renames \cap (Visits \cup Prunes) = {} /\ Visits \cap Prunes = {}
                        /\ Target \in [Ops -> Instances] /\ Source \in [Forks -> Instances]
                        /\ Given \in [Forks -> Texts] /\ First \in [Forks -> Texts]
                        /\ \A o \in Forks : Target[o] \notin Turns \cup {Root}
                        /\ \A o, p \in Forks : Target[o] = Target[p] => o = p
                        /\ Turns \in SUBSET (Instances \ {Root})
                        /\ Attempts \subseteq Ops \X Coroutines
                        /\ MaxOps \in Nat /\ MaxRequests \in Nat /\ MaxCrashes \in Nat

VARIABLES
  saga,       \* host_operation_sagas.status
  expect,     \* the revision in the requests of an operation
  pc,         \* each attempt: where it is, "idle" without a request
  todo,       \* each prune attempt: instances not archived yet
  old,        \* each rename attempt: the title to restore
  copies,     \* the host: conversations made for an instance
  archived,   \* the host: instances whose conversation is archived
  hostTitle,  \* the host: titles
  requests,   \* served by threads
  crashes

hostVars == <<copies, archived, hostTitle>>
attemptVars == <<pc, todo, old>>
counts == <<requests, crashes>>
vars == <<graphVars, saga, expect, attemptVars, hostVars, counts>>

Terminal == {"completed", "compensated", "orphaned", "failed"}

Init == /\ GraphInit
        /\ saga = [o \in Ops |-> "none"] /\ expect = [o \in Ops |-> Unseen]
        /\ pc = [a \in Attempts |-> "idle"]
        /\ todo = [a \in Attempts |-> {}] /\ old = [a \in Attempts |-> Placeholder]
        /\ copies = [i \in Instances |-> IF i = Root THEN 1 ELSE 0]
        /\ archived = {}
        /\ hostTitle = [i \in Instances |-> Placeholder]
        /\ requests = 0 /\ crashes = 0

Op(a) == a[1]
At(a) == Target[Op(a)]
Goto(a, l) == pc' = [pc EXCEPT ![a] = l] /\ UNCHANGED <<todo, old>>
Leave(a) == /\ pc' = [pc EXCEPT ![a] = "idle"]
            /\ todo' = [todo EXCEPT ![a] = {}]
            /\ old' = [old EXCEPT ![a] = Placeholder]
LiveInHost(i) == copies[i] > 0 /\ i \notin archived

(* HostOperationJournal.transition: a terminal operation stays as it is.   *)
Transition(o, s) == saga' = [saga EXCEPT ![o] = IF saga[o] \in Terminal THEN saga[o] ELSE s]

-----------------------------------------------------------------------------
(* Requests.                                                               *)

(* What begin makes of an operation that is there already; only            *)
(* prune_commit goes on with one that has ended.  Mutant: a started one is *)
(* run again.                                                              *)
Resume_Repeats(o) == CASE saga[o] = "started" -> "calling"
                       [] saga[o] = "host_succeeded" -> "local"
                       [] OTHER -> "idle"
Resume(o) == IF \/ saga[o] = "host_succeeded"
                \/ o \in Prunes /\ saga[o] \in Terminal \ {"completed"}
             THEN "local" ELSE "idle"

(* The revision that a client has seen, maybe long ago.                    *)
Seen(o) == IF o \in Forks THEN 0 .. crev[Source[o]] \cup {AnyRev} ELSE 1 .. grev

(* A fork or rename from a stale revision fails before the host is asked.  *)
Stale(o, rev) == \/ o \in Forks /\ rev \notin {AnyRev, crev[Source[o]]}
                 \/ o \in Renames /\ rev # grev

(* Before the journal: the instance is looked up, and prune_commit plans   *)
(* the subtree and compares the revision.                                  *)
Refused(o, rev) == \/ o \in Prunes /\ (node[Target[o]] # "active" \/ grev # rev)
                   \/ node[IF o \in Forks THEN Source[o] ELSE Target[o]] = "absent"

(* A request for a new operation, or for one that can be resumed; a        *)
(* request that is refused, or answered from the journal, changes nothing. *)
(* The client of a fork chooses the id of the child.  At most MaxOps       *)
(* operations are begun.                                                   *)
Plan(a) == [todo EXCEPT ![a] = IF Op(a) \in Prunes THEN Subtree(At(a)) ELSE {}]
OldTitle(a) == [old EXCEPT ![a] = IF Op(a) \in Renames THEN title[At(a)] ELSE old[a]]

Begin(a) == \E rev \in Seen(Op(a)) :
  /\ pc[a] = "idle" /\ saga[Op(a)] = "none" /\ ~Refused(Op(a), rev)
  /\ Cardinality({o \in Ops : saga[o] # "none"}) < MaxOps
  /\ expect' = [expect EXCEPT ![Op(a)] = rev]
  /\ IF Stale(Op(a), rev)
     THEN saga' = [saga EXCEPT ![Op(a)] = "failed"] /\ Leave(a)
     ELSE /\ saga' = [saga EXCEPT ![Op(a)] = "started"]
          /\ pc' = [pc EXCEPT ![a] = "calling"] /\ todo' = Plan(a) /\ old' = OldTitle(a)
  /\ UNCHANGED <<graphVars, hostVars, counts>>

BeginAgain(a) ==
  /\ pc[a] = "idle" /\ saga[Op(a)] # "none" /\ ~Refused(Op(a), expect[Op(a)])
  /\ Resume(Op(a)) # "idle" /\ pc' = [pc EXCEPT ![a] = Resume(Op(a))]
  /\ todo' = Plan(a) /\ old' = OldTitle(a)
  /\ UNCHANGED <<graphVars, saga, expect, hostVars, counts>>

-----------------------------------------------------------------------------
(* Host calls.                                                             *)

(* Leaf first: an instance of the plan below which nothing is left.        *)
Leaves(a) == {i \in todo[a] : \A j \in todo[a] \ {i} : i \notin route[j]}

HostActs(a) ==
  /\ pc[a] = "calling"
  /\ \/ /\ Op(a) \in Forks /\ Goto(a, "called")
        /\ copies' = [copies EXCEPT ![At(a)] = copies[At(a)] + 1]
        /\ UNCHANGED <<archived, hostTitle>>
     \/ /\ Op(a) \in Renames /\ Goto(a, "called")
        /\ hostTitle' = [hostTitle EXCEPT ![At(a)] = Op(a)]
        /\ UNCHANGED <<copies, archived>>
     \/ Op(a) \in Visits /\ Goto(a, "called") /\ UNCHANGED hostVars
     \/ /\ Op(a) \in Prunes /\ pc' = [pc EXCEPT ![a] = "called"] /\ UNCHANGED old
        /\ \E i \in Leaves(a) : /\ archived' = archived \cup {i}
                                /\ todo' = [todo EXCEPT ![a] = todo[a] \ {i}]
        /\ UNCHANGED <<copies, hostTitle>>
  /\ UNCHANGED <<graphVars, saga, expect, counts>>

(* The answer is good.  A prune goes on to the next instance of its plan.  *)
(* Mutant: the first archived instance is enough.                          *)
MoreToArchive_No(a) == FALSE
MoreToArchive(a) == todo[a] # {}

HostReturns(a) ==
  /\ pc[a] = "called"
  /\ IF MoreToArchive(a)
     THEN Goto(a, "calling") /\ UNCHANGED saga
     ELSE Goto(a, "local") /\ Transition(Op(a), "host_succeeded")
  /\ UNCHANGED <<graphVars, expect, hostVars, counts>>

(* The host answers that it did not: result.ok is false.                   *)
HostRefuses(a) ==
  /\ pc[a] = "calling" /\ Op(a) \notin Forks
  /\ Transition(Op(a), IF Op(a) \in Prunes THEN "orphaned" ELSE "failed")
  /\ Leave(a)
  /\ UNCHANGED <<graphVars, expect, hostVars, counts>>

(* The call raises (a lost connection, an answer that does not fit), maybe *)
(* after the host has acted.  Only fork has an except clause for it.       *)
HostRaises(a) ==
  /\ pc[a] \in {"calling", "called"} /\ Leave(a)
  /\ IF Op(a) \in Forks THEN Transition(Op(a), "failed") ELSE UNCHANGED saga
  /\ UNCHANGED <<graphVars, expect, hostVars, counts>>

-----------------------------------------------------------------------------
(* Local transactions.  Each has a good end, which moves the graph, and    *)
(* one where GraphStore raises.                                            *)

ForkRev(o) == IF expect[o] = AnyRev THEN crev[Source[o]] ELSE expect[o]

(* Mutant: a visit does not ask whether the instance is still there.       *)
LocalCan_AnyVisit(o) ==
  \/ o \in Forks /\ CanFork(o, Target[o], Source[o], "workflow", ForkRev(o))
  \/ o \in Renames /\ CanRename(Target[o], expect[o])
  \/ o \in Visits
  \/ o \in Prunes /\ CanPrune(o, Target[o], expect[o])
LocalCan(o) ==
  \/ o \in Forks /\ CanFork(o, Target[o], Source[o], "workflow", ForkRev(o))
  \/ o \in Renames /\ CanRename(Target[o], expect[o])
  \/ o \in Visits /\ CanActivate(Target[o])
  \/ o \in Prunes /\ CanPrune(o, Target[o], expect[o])

LocalDone(a) == Goto(a, IF Op(a) \in Forks THEN "visit" ELSE "finish")

LocalCommits(a) ==
  LET o == Op(a) IN
  /\ pc[a] = "local" /\ LocalCan(o)
  /\ \/ o \in Forks /\ Fork(o, At(a), Source[o], "workflow", Given[o], First[o])
     \/ o \in Renames /\ Rename(At(a), o)
     \/ o \in Visits /\ Activate(At(a))
     \/ o \in Prunes /\ Prune(o, At(a))
  /\ LocalDone(a)
  /\ UNCHANGED <<saga, expect, hostVars, counts>>

(* The commands table replays a fork or prune that was committed before.   *)
LocalReplays(a) == /\ pc[a] = "local" /\ Op(a) \in commands
                   /\ LocalDone(a)
                   /\ UNCHANGED <<graphVars, saga, expect, hostVars, counts>>

(* GraphStore raises: a fork or rename undoes what the host did, others    *)
(* cannot.                                                                 *)
LocalRaises(a) ==
  LET o == Op(a) IN
  /\ pc[a] = "local" /\ ~LocalCan(o) /\ o \notin commands
  /\ IF o \in Forks \cup Renames THEN Goto(a, "undo") /\ UNCHANGED saga
                                 ELSE Leave(a) /\ Transition(o, "orphaned")
  /\ UNCHANGED <<graphVars, expect, hostVars, counts>>

(* Compensation: archive the child, restore the title. *)
HostUndoes(a) ==
  /\ pc[a] = "undo" /\ Goto(a, "undone")
  /\ \/ Op(a) \in Forks /\ archived' = archived \cup {At(a)} /\ UNCHANGED hostTitle
     \/ Op(a) \in Renames /\ hostTitle' = [hostTitle EXCEPT ![At(a)] = old[a]]
        /\ UNCHANGED archived
  /\ UNCHANGED <<graphVars, saga, expect, copies, counts>>

Undone(a) == /\ pc[a] = "undone"
             /\ Transition(Op(a), "compensated") /\ Leave(a)
             /\ UNCHANGED <<graphVars, expect, hostVars, counts>>

(* Mutant: a compensation that raises counts as one that worked.           *)
UndoFailure_Compensated == "compensated"
UndoFailure == "orphaned"

UndoFails(a) == /\ pc[a] \in {"undo", "undone"}
                /\ Transition(Op(a), UndoFailure) /\ Leave(a)
                /\ UNCHANGED <<graphVars, expect, hostVars, counts>>

(* After a fork the host shows the child; only then it is made current.    *)
(* A pruned child or a call that raises ends the request.                  *)
Visit(a) == /\ pc[a] = "visit" /\ CanActivate(At(a))
            /\ Activate(At(a)) /\ Goto(a, "finish")
            /\ UNCHANGED <<saga, expect, hostVars, counts>>
SkipVisit(a) == /\ pc[a] = "visit" /\ (Goto(a, "finish") \/ Leave(a))
                /\ UNCHANGED <<graphVars, saga, expect, hostVars, counts>>

Finish(a) == /\ pc[a] = "finish"
             /\ Transition(Op(a), "completed") /\ Leave(a)
             /\ UNCHANGED <<graphVars, expect, hostVars, counts>>

-----------------------------------------------------------------------------
(* Requests that threads serve meanwhile, at most MaxRequests.             *)
Thread == /\ requests < MaxRequests /\ requests' = requests + 1
          /\ \/ \E i \in Turns : ForkTurn(i, NoKey)
             \/ \E i \in Instances : Speak(i) \/ NameTurn(i)
             \/ NameWorkflow
          /\ UNCHANGED <<saga, expect, attemptVars, hostVars, crashes>>

(* The process dies; recover_started gives up what may have happened.      *)
(* Mutant: it stays started.                                               *)
Recovered_Kept(o) == saga[o]
Recovered(o) == IF saga[o] = "started" THEN "orphaned" ELSE saga[o]

Restart == /\ crashes < MaxCrashes /\ crashes' = crashes + 1 /\ UNCHANGED requests
           /\ saga' = [o \in Ops |-> Recovered(o)]
           /\ pc' = [a \in Attempts |-> "idle"]
           /\ todo' = [a \in Attempts |-> {}] /\ old' = [a \in Attempts |-> Placeholder]
           /\ UNCHANGED <<graphVars, expect, hostVars>>

Next == \/ \E a \in Attempts :
             \/ Begin(a) \/ BeginAgain(a)
             \/ HostActs(a) \/ HostReturns(a) \/ HostRefuses(a) \/ HostRaises(a)
             \/ LocalCommits(a) \/ LocalReplays(a) \/ LocalRaises(a)
             \/ HostUndoes(a) \/ Undone(a) \/ UndoFails(a)
             \/ Visit(a) \/ SkipVisit(a) \/ Finish(a)
        \/ Thread \/ Restart

Spec == Init /\ [][Next]_vars
-----------------------------------------------------------------------------
Pcs == {"idle", "calling", "called", "local", "undo", "undone", "visit", "finish"}

TypeOK == /\ GraphTypeOK
          /\ saga \in [Ops -> Terminal \cup {"none", "started", "host_succeeded"}]
          /\ expect \in [Ops -> Int]
          /\ pc \in [Attempts -> Pcs]
          /\ todo \in [Attempts -> SUBSET Instances]
          /\ old \in [Attempts -> Titles \cup {Placeholder}]
          /\ copies \in [Instances -> Nat] /\ archived \in SUBSET Instances
          /\ hostTitle \in [Instances -> Titles \cup {Placeholder}]
          /\ requests \in Nat /\ crashes \in Nat

(* A completed operation has happened on both sides: a forked child is in  *)
(* the graph and in the host, and everything a prune has taken out of the  *)
(* graph, branches opened meanwhile included, is archived in the host.     *)
CompletedOnBothSides ==
  \A o \in Ops : saga[o] = "completed" =>
    /\ o \in Forks => node[Target[o]] # "absent" /\ copies[Target[o]] > 0
    /\ o \in Prunes => \A i \in Instances : tomb[i] = o => ~LiveInHost(i)

(* A compensated fork has left nothing behind on either side.              *)
CompensatedLeavesNothing ==
  \A o \in Forks : saga[o] = "compensated" =>
    node[Target[o]] = "absent" /\ ~LiveInHost(Target[o])

(* However often a fork is repeated, also after a restart, the host makes  *)
(* one conversation; and the graph never shows a child without one.        *)
OneHostCopy == \A o \in Forks : /\ copies[Target[o]] <= 1
                                /\ node[Target[o]] # "absent" => copies[Target[o]] = 1

(* A started fork is in the hands of an attempt that awaits the host, so   *)
(* its client is not told forever that it is in progress.  (Of the others  *)
(* this is not so: when host.rename, navigate or archive raises, nothing   *)
(* settles the operation before the next start of the process.)            *)
StartedIsServed ==
  \A o \in Forks : saga[o] = "started" =>
    \E a \in Attempts : Op(a) = o /\ pc[a] \in {"calling", "called"}

(* Every step of a saga is a step of the graph, or none of its business.   *)
ImplementsGraph == GraphSpec

(* docs/architecture.md:264: when only some hosts were archived, no change *)
(* of the graph is committed.                                              *)
PrunedAreArchived == \A i \in Instances : node[i] = "pruned" => ~LiveInHost(i)
=============================================================================
