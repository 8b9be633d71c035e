------------------------- MODULE ChatRequestsProofs -------------------------
(* Proofs about ChatRequests, for any number of attempts of either kind.   *)
EXTENDS ChatRequests, FiniteSetTheorems, TLAPS

LEMMA NamesDiffer == /\ "none" \notin Attempts
                     /\ \A t \in NoResults : t \notin Attempts
BY ChatAssumption, RepliesAssumption DEF NoResults

LEMMA ChatInit == Init => ChatInv
BY NamesDiffer, ChatAssumption
   DEF Init, ChatInv, TypeOK, AttemptsHold, RowHolds, RepliesAgree, Messages, Pcs

(* Type correctness of one step. *)
LEMMA ChatType == TypeOK /\ [Next]_vars => TypeOK'
<1> SUFFICES ASSUME TypeOK, [Next]_vars PROVE TypeOK'
  OBVIOUS
<1> USE DEF TypeOK, Messages, Pcs, NoResults, rowVars, messageVars, registryVars, Goto, Tell
<1>1. ASSUME NEW a \in Attempts, Request(a) PROVE TypeOK'
  BY <1>1 DEF Request
<1>2. ASSUME NEW a \in Attempts, Claim(a) PROVE TypeOK'
  BY <1>2 DEF Claim, Reopened
<1>3. ASSUME NEW a \in Attempts, GiveBack(a) PROVE TypeOK'
  BY <1>3 DEF GiveBack, ReleaseSlot
<1>4. ASSUME NEW a \in Attempts, ReuseUser(a) \/ AppendUser(a) \/ RecordUser(a) PROVE TypeOK'
  BY <1>4 DEF ReuseUser, AppendUser, RecordUser
<1>5. ASSUME NEW a \in Attempts, Answer(a) \/ Stop(a) \/ Complete(a) \/ Raise(a) PROVE TypeOK'
  BY <1>5 DEF Answer, Stop, Complete, Raise, Fail, Finish, ReleaseSlot
<1>6. ASSUME NEW a \in Attempts, Publish(a) PROVE TypeOK'
  BY <1>6 DEF Publish, Finish, ReleaseSlot, Last
<1>7. ASSUME NEW a \in Attempts, EndFailed(a) \/ EndCancelled(a) PROVE TypeOK'
  BY <1>7 DEF EndFailed, EndCancelled, FinishRow, Last
<1>8. ASSUME NEW a \in Attempts, Close(a) \/ CloseRow(a) PROVE TypeOK'
  BY <1>8 DEF Close, CloseRow, Finish, FinishRow, ReleaseSlot
<1>9. ASSUME NEW a \in Attempts, Disconnect(a) PROVE TypeOK'
  BY <1>9 DEF Disconnect
<1>10. CASE Cancel \/ Evict \/ Prune
  BY <1>10 DEF Cancel, Evict, Prune
<1>11. CASE Restart
  BY <1>11 DEF Restart, Recovered
<1>12. CASE UNCHANGED vars
  BY <1>12 DEF vars
<1>13. QED
  BY <1>1, <1>2, <1>3, <1>4, <1>5, <1>6, <1>7, <1>8, <1>9, <1>10, <1>11, <1>12
     DEF Next, Serve

(* Every step keeps the inductive invariant. *)
LEMMA ChatStep == ChatInv /\ [Next]_vars => ChatInv'
<1> SUFFICES ASSUME ChatInv, [Next]_vars PROVE ChatInv'
  OBVIOUS
<1> DEFINE Agree == AttemptsHold /\ RowHolds /\ RepliesAgree
<1> USE NamesDiffer DEF AttemptsHold, RowHolds, RepliesAgree, rowVars, messageVars,
        registryVars, Goto, Tell
<1>0. TypeOK /\ Agree
  BY DEF ChatInv
<1>t. TypeOK'
  BY <1>0, ChatType
<1>1. ASSUME NEW a \in Attempts, Request(a) PROVE Agree'
  BY <1>0, <1>1 DEF Request, TypeOK, Messages, NoResults
<1>2. ASSUME NEW a \in Attempts, Claim(a) PROVE Agree'
  BY <1>0, <1>2 DEF Claim, Reopened, TypeOK, Messages, Pcs
<1>3. ASSUME NEW a \in Attempts, GiveBack(a) PROVE Agree'
  BY <1>0, <1>3 DEF GiveBack, TypeOK, Messages, NoResults, Pcs
<1>4. ASSUME NEW a \in Attempts, ReuseUser(a) \/ AppendUser(a) \/ RecordUser(a) PROVE Agree'
  BY <1>0, <1>4 DEF ReuseUser, AppendUser, RecordUser, TypeOK, Messages, Pcs
<1>5. ASSUME NEW a \in Attempts, Answer(a) \/ Stop(a) \/ Complete(a) \/ Raise(a) PROVE Agree'
  BY <1>0, <1>5 DEF Answer, Stop, Complete, CanComplete, Raise, Fail, Finish, TypeOK, Messages, Pcs
<1>6. ASSUME NEW a \in Attempts, Publish(a) PROVE Agree'
  BY <1>0, <1>6 DEF Publish, Finish, Last, TypeOK, Messages, Pcs
<1>7. ASSUME NEW a \in Attempts, EndFailed(a) \/ EndCancelled(a) PROVE Agree'
  BY <1>0, <1>7 DEF EndFailed, EndCancelled, FinishRow, Last, TypeOK, Messages, Pcs, NoResults
<1>8. ASSUME NEW a \in Attempts, Close(a) \/ CloseRow(a) PROVE Agree'
  BY <1>0, <1>8 DEF Close, CloseRow, Finish, FinishRow, TypeOK, Messages, Pcs
<1>9. ASSUME NEW a \in Attempts, Disconnect(a) PROVE Agree'
  BY <1>0, <1>9 DEF Disconnect, TypeOK, Messages, Pcs, NoResults
<1>10. ASSUME Cancel \/ Evict \/ Prune PROVE Agree'
  BY <1>0, <1>10 DEF Cancel, Evict, Prune, TypeOK
<1>11. ASSUME Restart PROVE Agree'
  BY <1>0, <1>11 DEF Restart, Recovered, TypeOK, Messages, NoResults, Pcs
<1>12. ASSUME UNCHANGED vars PROVE Agree'
  BY <1>0, <1>12 DEF vars
<1>13. QED
  BY <1>t, <1>1, <1>2, <1>3, <1>4, <1>5, <1>6, <1>7, <1>8, <1>9, <1>10, <1>11, <1>12
     DEF Next, Serve, ChatInv

(* The rows, registries and attempts of a chat key always agree: the       *)
(* inductive invariant of chat and chat_stream.                            *)
THEOREM ChatInvariant == Spec => []ChatInv
BY ChatInit, ChatStep, PTL DEF Spec

(* Every state of a chat key is well typed. *)
THEOREM ChatTypeCorrect == Spec => []TypeOK
<1>1. ChatInv => TypeOK
  BY DEF ChatInv
<1>2. QED BY <1>1, ChatInvariant, PTL

(* Whoever is told a result of the chat key is told the durable one, and   *)
(* its two messages are in the conversation.                               *)
THEOREM ChatRepliesAgree == Spec => []RepliesAgree
<1>1. ChatInv => RepliesAgree
  BY DEF ChatInv
<1>2. QED BY <1>1, ChatInvariant, PTL

(* Every step of the chat endpoints decides a result, tells one attempt,   *)
(* loses the waiting attempts, or changes nothing ReplyOnce can see.       *)
LEMMA ChatOnceStep == ChatInv /\ [Next]_vars => [Once!Next]_(Once!vars)
<1> SUFFICES ASSUME ChatInv, [Next]_vars PROVE Once!Next \/ UNCHANGED <<result, reply>>
  BY DEF Once!vars
<1> USE NamesDiffer DEF rowVars, messageVars, registryVars, Goto
<1>0. TypeOK /\ AttemptsHold /\ RowHolds /\ RepliesAgree
  BY DEF ChatInv
<1> DEFINE Told == UNCHANGED result /\ \E a \in Attempts, t \in NoResults \cup {result} : Tell(a, t)
           Kept == UNCHANGED <<result, reply>>
<1>1. ASSUME Told PROVE Once!Next \/ Kept
  BY <1>1, <1>0 DEF Tell, TypeOK, Once!Next, Once!Tell
<1>2. ASSUME NEW a \in Attempts, Request(a) PROVE Told \/ Kept
  BY <1>0, <1>2 DEF Request, RepliesAgree, NoResults
<1>3. ASSUME NEW a \in Attempts, Claim(a) PROVE Kept
  BY <1>0, <1>3 DEF Claim, RowHolds
<1>4. ASSUME NEW a \in Attempts, GiveBack(a) PROVE Told
  BY <1>4 DEF GiveBack, NoResults
<1>5. ASSUME NEW a \in Attempts, ReuseUser(a) \/ AppendUser(a) \/ RecordUser(a) PROVE Kept
  BY <1>5 DEF ReuseUser, AppendUser, RecordUser
<1>6. ASSUME NEW a \in Attempts, Answer(a) \/ Stop(a) \/ Raise(a) PROVE Kept
  BY <1>6 DEF Answer, Stop, Raise, Fail
<1>7. ASSUME NEW a \in Attempts, Complete(a) PROVE Once!Next
  BY <1>0, <1>7 DEF Complete, CanComplete, RowHolds, Once!Next, Once!Decide
<1>8. ASSUME NEW a \in Attempts, Publish(a) PROVE Told
  BY <1>0, <1>8 DEF Publish, AttemptsHold
<1>9. ASSUME NEW a \in Attempts, EndFailed(a) \/ EndCancelled(a) PROVE Told
  BY <1>9 DEF EndFailed, EndCancelled, NoResults
<1>10. ASSUME NEW a \in Attempts, Close(a) \/ CloseRow(a) PROVE Kept
  BY <1>10 DEF Close, CloseRow
<1>11. ASSUME NEW a \in Attempts, Disconnect(a) PROVE Told
  BY <1>11 DEF Disconnect, NoResults
<1>12. ASSUME Cancel \/ Evict \/ Prune PROVE Kept
  BY <1>12 DEF Cancel, Evict, Prune
<1>13. ASSUME Restart PROVE Once!Next
  <2> DEFINE lost == {a \in Attempts : reply[a] = "none" /\ pc[a] # "idle"}
  <2>1. reply' = [a \in Attempts |-> IF a \in lost THEN "lost" ELSE reply[a]]
    BY <1>13 DEF Restart
  <2>2. lost \in SUBSET {a \in Attempts : reply[a] = "none"}
    OBVIOUS
  <2>3. Once!Lose BY <1>13, <2>1, <2>2 DEF Restart, Once!Lose
  <2>4. QED BY <2>3 DEF Once!Next
<1>14. ASSUME UNCHANGED vars PROVE Kept
  BY <1>14 DEF vars
<1>15. QED
  BY <1>1, <1>2, <1>3, <1>4, <1>5, <1>6, <1>7, <1>8, <1>9, <1>10, <1>11, <1>12,
     <1>13, <1>14 DEF Next, Serve

(* The chat endpoints implement ReplyOnce: one result per key is decided,  *)
(* and every attempt that is given a result is given that one.             *)
THEOREM ChatRefinement == Spec => ImplementsReplyOnce
<1>1. Init => Once!Init
  BY DEF Init, Once!Init
<1>2. QED BY <1>1, ChatInvariant, ChatOnceStep, PTL DEF Spec, ImplementsReplyOnce, Once!Spec

(* An attempt that holds the slot has still to give it back.               *)
Holding == {"claimed", "replaying", "refusing", "opened", "appended", "asking",
            "answered", "recorded", "yielded", "abandoned"}
HolderWorks == \A a \in Attempts : active = a => pc[a] \in Holding

(* The slot of a key outlives its attempt only if the stream was dropped   *)
(* before its generator was first resumed (_chat_finish always pops it).   *)
THEOREM ChatSlotIsReleased == Spec => []SlotIsReleased
<1> USE NamesDiffer DEF Holding, rowVars, messageVars, registryVars, Goto, Finish, ReleaseSlot
<1>1. Init => HolderWorks
  BY DEF Init, HolderWorks
<1>2. TypeOK /\ HolderWorks /\ [Next]_vars => HolderWorks'
  <2> SUFFICES ASSUME TypeOK, HolderWorks, [Next]_vars, NEW a \in Attempts, active' = a
               PROVE pc'[a] \in Holding
    BY DEF HolderWorks
  <2>0. pc \in [Attempts -> Pcs] /\ (active = a => pc[a] \in Holding)
    BY DEF TypeOK, HolderWorks
  <2>1. ASSUME NEW b \in Attempts, Request(b) PROVE pc'[a] \in Holding
    BY <2>0, <2>1 DEF Request
  <2>2. ASSUME NEW b \in Attempts, Claim(b) \/ GiveBack(b) PROVE pc'[a] \in Holding
    BY <2>0, <2>2 DEF Claim, GiveBack
  <2>3. ASSUME NEW b \in Attempts, ReuseUser(b) \/ AppendUser(b) \/ RecordUser(b)
        PROVE pc'[a] \in Holding
    BY <2>0, <2>3 DEF ReuseUser, AppendUser, RecordUser
  <2>4. ASSUME NEW b \in Attempts, \/ Answer(b) \/ Stop(b) \/ Complete(b) \/ Raise(b)
                                   \/ Publish(b) \/ Close(b)
        PROVE pc'[a] \in Holding
    BY <2>0, <2>4 DEF Answer, Stop, Complete, Raise, Fail, Publish, Close
  <2>5. ASSUME NEW b \in Attempts, EndFailed(b) \/ EndCancelled(b) \/ CloseRow(b)
        PROVE pc'[a] \in Holding
    BY <2>0, <2>5 DEF EndFailed, EndCancelled, CloseRow
  <2>6. ASSUME NEW b \in Attempts, Disconnect(b) PROVE pc'[a] \in Holding
    BY <2>0, <2>6 DEF Disconnect
  <2>7. ASSUME Cancel \/ Evict \/ Prune \/ Restart PROVE pc'[a] \in Holding
    BY <2>0, <2>7 DEF Cancel, Evict, Prune, Restart
  <2>8. ASSUME UNCHANGED vars PROVE pc'[a] \in Holding
    BY <2>0, <2>8 DEF vars
  <2>9. QED BY <2>1, <2>2, <2>3, <2>4, <2>5, <2>6, <2>7, <2>8 DEF Next, Serve
<1>3. TypeOK /\ HolderWorks => SlotIsReleased
  BY DEF TypeOK, HolderWorks, SlotIsReleased, Messages
<1>4. QED BY <1>1, <1>2, <1>3, ChatTypeCorrect, PTL DEF Spec
-----------------------------------------------------------------------------
(* A plain client in one life of the process.  Its attempts come one after *)
(* another, so the row is started exactly while one of them works, and the *)
(* row, not the attempt, remembers the user message from one to the next.  *)
Working == {"opened", "appended", "asking", "answered", "failing"}
OneAtATime ==
  /\ \A a, b \in Attempts : pc[a] \notin {"idle", "done"} /\ pc[b] \notin {"idle", "done"} => a = b
  /\ \A a \in Attempts : /\ pc[a] \in Working \cup {"idle", "claimed", "replaying", "refusing",
                                                    "recorded", "done"}
                         /\ pc[a] = "done" <=> reply[a] # "none"
                         /\ pc[a] \in Working => status = "started"
  /\ status = "started" => \E a \in Attempts : pc[a] \in Working
MessageRemembered ==
  /\ \A a \in Attempts : /\ pc[a] = "opened" => mine[a] = user
                         /\ pc[a] = "appended" => mine[a] = a /\ user = "none"
  /\ \/ users \subseteq {user}
     \/ \E a \in Attempts : pc[a] = "appended" /\ users = {a}
AnswerRemembered ==
  \/ answers = {}
  \/ \E a \in Attempts : pc[a] = "answered" /\ answers = {a}
  \/ status = "completed" /\ answers = {result}
PlainInv == client = "plain" /\ crashes = 0 =>
              OneAtATime /\ MessageRemembered /\ AnswerRemembered

LEMMA PlainStep == ChatInv /\ PlainInv /\ [Next]_vars => PlainInv'
<1> SUFFICES ASSUME ChatInv, PlainInv, [Next]_vars, client' = "plain", crashes' = 0
             PROVE (OneAtATime /\ MessageRemembered /\ AnswerRemembered)'
  BY DEF PlainInv
<1> DEFINE Goal == (OneAtATime /\ MessageRemembered /\ AnswerRemembered)'
<1> USE NamesDiffer DEF rowVars, messageVars, registryVars, Goto, Tell, Finish, ReleaseSlot, Working
<1>0. /\ TypeOK /\ AttemptsHold /\ RowHolds /\ RepliesAgree
      /\ client \in Clients /\ crashes \in Nat
  BY DEF ChatInv, TypeOK
<1>1. client = "plain" /\ crashes = 0
  <2>1. client' = client /\ (crashes' = crashes \/ crashes' = crashes + 1)
    BY DEF Next, Serve, Request, Claim, GiveBack, ReuseUser, AppendUser, RecordUser, Answer, Stop,
           Complete, Raise, Fail, Publish, EndFailed, EndCancelled, Close, CloseRow, Disconnect,
           Cancel, Evict, Prune, Restart, vars
  <2>2. QED BY <1>0, <2>1
<1>2. OneAtATime /\ MessageRemembered /\ AnswerRemembered
  BY <1>1 DEF PlainInv
<1>3. \A a \in Attempts : ~Streaming(a)
  BY <1>1 DEF Streaming
<1>4. ASSUME NEW a \in Attempts, Request(a) PROVE Goal
  BY <1>0, <1>1, <1>2, <1>4
     DEF Request, OneAtATime, MessageRemembered, AnswerRemembered, TypeOK, Messages, NoResults, Pcs
<1>5. ASSUME NEW a \in Attempts, Claim(a) PROVE Goal
  BY <1>0, <1>2, <1>5
     DEF Claim, Reopened, OneAtATime, MessageRemembered, AnswerRemembered, TypeOK, Messages, Pcs
<1>6. ASSUME NEW a \in Attempts, GiveBack(a) PROVE Goal
  BY <1>0, <1>2, <1>6
     DEF GiveBack, OneAtATime, MessageRemembered, AnswerRemembered, AttemptsHold, RowHolds, TypeOK, Messages, Pcs
<1>7. ASSUME NEW a \in Attempts, ReuseUser(a) PROVE Goal
  BY <1>0, <1>2, <1>7
     DEF ReuseUser, OneAtATime, MessageRemembered, AnswerRemembered, TypeOK, Messages, Pcs
<1>8. ASSUME NEW a \in Attempts, AppendUser(a) PROVE Goal
  BY <1>0, <1>2, <1>8
     DEF AppendUser, OneAtATime, MessageRemembered, AnswerRemembered, TypeOK, Messages, Pcs
<1>9. ASSUME NEW a \in Attempts, RecordUser(a) PROVE Goal
  BY <1>0, <1>2, <1>9
     DEF RecordUser, OneAtATime, MessageRemembered, AnswerRemembered, TypeOK, Messages, Pcs
<1>10. ASSUME NEW a \in Attempts, Answer(a) PROVE Goal
  BY <1>0, <1>2, <1>10
     DEF Answer, OneAtATime, MessageRemembered, AnswerRemembered, TypeOK, Messages, Pcs
<1>11. ASSUME NEW a \in Attempts, Complete(a) PROVE Goal
  BY <1>0, <1>2, <1>11
     DEF Complete, OneAtATime, MessageRemembered, AnswerRemembered, AttemptsHold, TypeOK, Messages, Pcs
<1>12. ASSUME NEW a \in Attempts, Raise(a) PROVE Goal
  BY <1>0, <1>2, <1>12
     DEF Raise, Fail, CanComplete, OneAtATime, MessageRemembered, AnswerRemembered, AttemptsHold,
         TypeOK, Messages, Pcs
<1>13. ASSUME NEW a \in Attempts, Publish(a) PROVE Goal
  BY <1>0, <1>2, <1>3, <1>13
     DEF Publish, Last, OneAtATime, MessageRemembered, AnswerRemembered, TypeOK, Messages, Pcs, NoResults
<1>14. ASSUME NEW a \in Attempts, EndFailed(a) PROVE Goal
  BY <1>0, <1>2, <1>3, <1>14
     DEF EndFailed, FinishRow, Last, OneAtATime, MessageRemembered, AnswerRemembered, TypeOK, Messages, Pcs, NoResults
<1>15. ASSUME NEW a \in Attempts, Stop(a) \/ Disconnect(a) \/ EndCancelled(a) \/ Close(a) \/ CloseRow(a)
       PROVE Goal
  BY <1>1, <1>2, <1>3, <1>15
     DEF Stop, Stopped, Disconnect, EndCancelled, Close, CloseRow, OneAtATime
<1>16. ASSUME Cancel \/ Evict \/ Prune \/ UNCHANGED vars PROVE Goal
  BY <1>2, <1>16 DEF Cancel, Evict, Prune, vars, OneAtATime, MessageRemembered, AnswerRemembered
<1>17. ~Restart
  BY <1>0 DEF Restart
<1> HIDE DEF Goal
<1>18. QED
  <2>1. Goal
    BY <1>4, <1>5, <1>6, <1>7, <1>8, <1>9, <1>10, <1>11, <1>12, <1>13, <1>14, <1>15, <1>16, <1>17
       DEF Next, Serve
  <2>2. QED BY <2>1 DEF Goal

LEMMA AtMostOneMember ==
  ASSUME NEW S, NEW x, S \subseteq {x} PROVE Cardinality(S) <= 1
<1>1. S = {} \/ S = {x}
  OBVIOUS
<1>2. Cardinality({}) = 0
  BY FS_EmptySet
<1>3. Cardinality({x}) = 1
  BY FS_Singleton
<1>4. QED BY <1>1, <1>2, <1>3

(* A client that waits for each answer and never streams gets one user     *)
(* message and at most one answer, however often it repeats its key.       *)
THEOREM ChatMessagesOnce == Spec => []MessagesOnce
<1>1. Init => PlainInv
  BY NamesDiffer DEF Init, PlainInv, OneAtATime, MessageRemembered, AnswerRemembered, Working
<1>2. PlainInv => MessagesOnce
  <2> SUFFICES ASSUME OneAtATime, MessageRemembered, AnswerRemembered
               PROVE Cardinality(users) <= 1 /\ Cardinality(answers) <= 1
    BY DEF PlainInv, MessagesOnce
  <2>1. \E x : users \subseteq {x}
    BY DEF MessageRemembered
  <2>2. \E x : answers \subseteq {x}
    BY DEF AnswerRemembered
  <2>3. QED BY <2>1, <2>2, AtMostOneMember
<1>3. QED BY <1>1, <1>2, ChatInvariant, PlainStep, PTL DEF Spec
=============================================================================
