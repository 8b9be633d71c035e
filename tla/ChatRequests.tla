---------------------------- MODULE ChatRequests ----------------------------
(***************************************************************************)
(* Idempotent chat requests: the endpoints chat and chat_stream of         *)
(* api/app.py, their in-memory registries (chat_active, chat_completed)    *)
(* and the chat_requests row of graph_core/store.py.                       *)
(*                                                                         *)
(* The module follows one idempotency key of one conversation.  Other keys *)
(* share nothing with it but the bounded cache, from which they may push   *)
(* its entry out (Evict).  An attempt is one HTTP request that carries the *)
(* key: a JSON one, or a stream whose generator is suspended at every      *)
(* yield and may be closed there.  Each registry access (under             *)
(* chat_state_lock) and each transaction is one action.                    *)
(*                                                                         *)
(* A message is named by the attempt that appended it: an attempt appends  *)
(* at most one user and one assistant message.  A result is named by the   *)
(* attempt that produced it: its messages are mine[a] and a.               *)
(***************************************************************************)
EXTENDS Integers, FiniteSets

CONSTANTS Attempts,     \* HTTP requests with the key
          Streams,      \* those that ask for a text/event-stream
          Clients,      \* the manners of the client that holds the key
          MaxCrashes    \* bound: restarts of the process

(* A hurried client repeats a request whenever it likes and may drop a     *)
(* stream, a patient one repeats it only when told an outcome, a plain one *)
(* is patient and never asks for a stream.                                 *)
Manners == {"hurried", "patient", "plain"}

ASSUME ChatAssumption == /\ "none" \notin Attempts /\ Streams \subseteq Attempts
                         /\ Clients \subseteq Manners
                         /\ MaxCrashes \in Nat

NoResults == {"refused", "failed", "cancelled", "lost"}
ASSUME RepliesAssumption == NoResults \cap Attempts = {}

VARIABLES
  status, user, result,  \* the chat_requests row: status, user_message_id, result_json
  users, answers,        \* local_messages: who appended a user, an assistant message
  open,                  \* the conversation is active
  active,                \* chat_active[key]: the attempt whose Event it is
  cached,                \* chat_completed[key]
  cancelled,             \* attempts whose Event is set
  pc, mine,              \* each attempt: where it is, the user message in its hand
  reply,                 \* what each attempt was told
  client,                \* how the client behaves, chosen once
  crashes

rowVars == <<status, user, result>>
messageVars == <<users, answers, open>>
registryVars == <<active, cached, cancelled>>
vars == <<rowVars, messageVars, registryVars, pc, mine, reply, client, crashes>>

Init == /\ status = "none" /\ user = "none" /\ result = "none"
        /\ users = {} /\ answers = {} /\ open = TRUE
        /\ active = "none" /\ cached = "none" /\ cancelled = {}
        /\ pc = [a \in Attempts |-> "idle"]
        /\ mine = [a \in Attempts |-> "none"]
        /\ reply = [a \in Attempts |-> "none"]
        /\ client \in Clients /\ crashes = 0

Streaming(a) == a \in Streams /\ client # "plain"

Goto(a, l) == pc' = [pc EXCEPT ![a] = l]
Tell(a, t) == reply' = [reply EXCEPT ![a] = IF reply[a] = "none" THEN t ELSE reply[a]]

-----------------------------------------------------------------------------
(* _chat_begin.                                                            *)

(* A client sends the key; a patient one when nothing it sent is pending.  *)
(* The registry answers from the cache, refuses while an attempt is        *)
(* active, or takes the slot.                                              *)
Request(a) ==
  /\ pc[a] = "idle"
  /\ client # "hurried" => \A b \in Attempts : pc[b] # "idle" => reply[b] # "none"
  /\ \/ cached # "none" /\ Goto(a, "done") /\ Tell(a, cached) /\ UNCHANGED active
     \/ cached = "none" /\ active # "none"
        /\ Goto(a, "done") /\ Tell(a, "refused") /\ UNCHANGED active
     \/ cached = "none" /\ active = "none"
        /\ Goto(a, "claimed") /\ active' = a /\ UNCHANGED reply
  /\ UNCHANGED <<rowVars, messageVars, cached, cancelled, mine, client, crashes>>

(* The user message a retried row starts with.  Mutant: none.              *)
Reopened_Forgets == "none"
Reopened == user

(* begin_chat_request: inserts the row, or reopens a failed or cancelled   *)
(* one.  A row that is already started is refused only while it has no     *)
(* user message.                                                           *)
Claim(a) ==
  /\ pc[a] = "claimed"
  /\ \/ ~open /\ Goto(a, "refusing") /\ UNCHANGED <<rowVars, mine>>
     \/ open /\ status = "completed" /\ Goto(a, "replaying") /\ UNCHANGED <<rowVars, mine>>
     \/ open /\ status = "started" /\ user = "none"
        /\ Goto(a, "refusing") /\ UNCHANGED <<rowVars, mine>>
     \/ open /\ status = "started" /\ user # "none"
        /\ Goto(a, "opened") /\ mine' = [mine EXCEPT ![a] = user] /\ UNCHANGED rowVars
     \/ open /\ status \in {"none", "failed", "cancelled"}
        /\ Goto(a, "opened") /\ status' = "started" /\ result' = "none"
        /\ user' = Reopened /\ mine' = [mine EXCEPT ![a] = Reopened]
  /\ UNCHANGED <<messageVars, registryVars, reply, client, crashes>>

(* The slot goes back: whoever holds it by now.                            *)
ReleaseSlot_KeepsSlot == UNCHANGED active
ReleaseSlot == active' = "none"

GiveBack(a) ==
  /\ \/ pc[a] = "replaying" /\ Tell(a, result)
     \/ pc[a] = "refusing" /\ Tell(a, "refused")
  /\ Goto(a, "done") /\ ReleaseSlot
  /\ UNCHANGED <<rowVars, messageVars, cached, cancelled, mine, client, crashes>>

-----------------------------------------------------------------------------
(* chat and events: the work of an attempt.                                *)

(* _chat_finish takes two steps.  First, under the lock, the slot...       *)
Finish(a, how) == Goto(a, how) /\ ReleaseSlot

(* ... then the row (finish_chat_request), while it is started.            *)
FinishRow_AnyStatus(s) == status' = s
FinishRow_NoRow(s) == UNCHANGED status
FinishRow(s) == status' = IF status = "started" THEN s ELSE status

Fail(a) == /\ Finish(a, "failing")
           /\ UNCHANGED <<rowVars, messageVars, cached, cancelled, mine, reply, client, crashes>>

(* A retry takes the recorded user message; otherwise one is appended and, *)
(* in a second transaction, recorded in the row.                           *)
ReuseUser(a) == /\ pc[a] = "opened" /\ mine[a] # "none"
                /\ Goto(a, "asking")
                /\ UNCHANGED <<rowVars, messageVars, registryVars, mine, reply, client, crashes>>

AppendUser(a) == /\ pc[a] = "opened" /\ mine[a] = "none" /\ open
                 /\ users' = users \cup {a} /\ mine' = [mine EXCEPT ![a] = a]
                 /\ Goto(a, "appended")
                 /\ UNCHANGED <<rowVars, answers, open, registryVars, reply, client, crashes>>

RecordUser(a) == /\ pc[a] = "appended" /\ status = "started"
                 /\ user' = mine[a] /\ Goto(a, "asking")
                 /\ UNCHANGED <<status, result, messageVars, registryVars, mine, reply, client, crashes>>

(* The provider has answered.  A stream whose Event is set stops instead;  *)
(* a JSON attempt never looks at it.                                       *)
Stopped(a) == Streaming(a) /\ a \in cancelled

Answer(a) == /\ pc[a] = "asking" /\ open /\ ~Stopped(a)
             /\ answers' = answers \cup {a} /\ Goto(a, "answered")
             /\ UNCHANGED <<rowVars, users, open, registryVars, mine, reply, client, crashes>>

Stop(a) == /\ pc[a] = "asking" /\ Stopped(a)
           /\ Finish(a, "cancelling")
           /\ UNCHANGED <<rowVars, messageVars, cached, cancelled, mine, reply, client, crashes>>

(* complete_chat_request.  Mutant: without its status test.                *)
CanComplete_AnyStatus == TRUE
CanComplete == status = "started"

Complete(a) == /\ pc[a] = "answered" /\ CanComplete
               /\ status' = "completed" /\ user' = mine[a] /\ result' = a
               /\ Goto(a, "recorded")
               /\ UNCHANGED <<messageVars, registryVars, mine, reply, client, crashes>>

(* Everything that raises: the conversation was pruned, the row is no      *)
(* longer started, the provider fails.                                     *)
Raise(a) == /\ \/ pc[a] = "opened" /\ mine[a] = "none" /\ ~open
               \/ pc[a] = "appended" /\ status # "started"
               \/ pc[a] = "asking"
               \/ pc[a] = "answered" /\ ~CanComplete
            /\ Fail(a)

(* After the except clause or the last statement a JSON attempt returns;   *)
(* a stream has yielded its last event and waits for its finally clause.   *)
Last(a) == IF Streaming(a) THEN "yielded" ELSE "done"

Publish(a) == /\ pc[a] = "recorded"
              /\ Finish(a, Last(a)) /\ cached' = a /\ Tell(a, a)
              /\ UNCHANGED <<rowVars, messageVars, cancelled, mine, client, crashes>>

EndFailed(a) == /\ pc[a] = "failing"
                /\ FinishRow("failed") /\ Goto(a, Last(a)) /\ Tell(a, "failed")
                /\ UNCHANGED <<user, result, messageVars, registryVars, mine, client, crashes>>

EndCancelled(a) == /\ pc[a] = "cancelling"
                   /\ FinishRow("cancelled") /\ Goto(a, Last(a)) /\ Tell(a, "cancelled")
                   /\ UNCHANGED <<user, result, messageVars, registryVars, mine, client, crashes>>

(* The finally clause of a stream calls _chat_finish again, whatever       *)
(* happened before.                                                        *)
Close(a) == /\ pc[a] = "yielded"
            /\ Finish(a, "closing")
            /\ UNCHANGED <<rowVars, messageVars, cached, cancelled, mine, reply, client, crashes>>

CloseRow(a) == /\ pc[a] = "closing"
               /\ FinishRow("failed") /\ Goto(a, "done")
               /\ UNCHANGED <<user, result, messageVars, registryVars, mine, reply, client, crashes>>
-----------------------------------------------------------------------------
(* The environment.                                                        *)

(* The client drops a stream: a suspended generator is closed and runs its *)
(* finally clause, one that was never started runs nothing.                *)
Disconnect(a) == /\ client = "hurried" /\ Streaming(a)
                 /\ \/ pc[a] = "asking" /\ Goto(a, "yielded")
                    \/ pc[a] = "opened" /\ Goto(a, "abandoned")
                 /\ Tell(a, "lost")
                 /\ UNCHANGED <<rowVars, messageVars, registryVars, mine, client, crashes>>

(* cancel_chat sets the Event of the attempt that holds the slot.          *)
Cancel == /\ active # "none" /\ cancelled' = cancelled \cup {active}
          /\ UNCHANGED <<rowVars, messageVars, active, cached, pc, mine, reply, client, crashes>>

(* 512 younger results have pushed this one out of chat_completed.         *)
Evict == /\ cached # "none" /\ cached' = "none"
         /\ UNCHANGED <<rowVars, messageVars, active, cancelled, pc, mine, reply, client, crashes>>

(* prune_commit *)
Prune == /\ open /\ open' = FALSE
         /\ UNCHANGED <<rowVars, users, answers, registryVars, pc, mine, reply, client, crashes>>

(* The process dies and starts again: the attempts and the registries are  *)
(* gone, recover_chat_requests fails a started row.                        *)
Recovered == "failed"

Restart ==
  /\ crashes < MaxCrashes /\ crashes' = crashes + 1
  /\ status' = IF status = "started" THEN Recovered ELSE status
  /\ active' = "none" /\ cached' = "none" /\ cancelled' = {}
  /\ pc' = [a \in Attempts |-> IF pc[a] = "idle" THEN "idle" ELSE "done"]
  /\ reply' = [a \in Attempts |-> IF pc[a] = "idle" \/ reply[a] # "none"
                                  THEN reply[a] ELSE "lost"]
  /\ UNCHANGED <<user, result, messageVars, mine, client>>

(* What the threads of the server do for an attempt. *)
Serve(a) == \/ Claim(a) \/ GiveBack(a)
            \/ ReuseUser(a) \/ AppendUser(a) \/ RecordUser(a)
            \/ Answer(a) \/ Stop(a) \/ Complete(a) \/ Raise(a) \/ Publish(a)
            \/ EndFailed(a) \/ EndCancelled(a) \/ Close(a) \/ CloseRow(a)

Next == \/ \E a \in Attempts : Request(a) \/ Serve(a) \/ Disconnect(a)
        \/ Cancel \/ Evict \/ Prune \/ Restart

Spec == Init /\ [][Next]_vars

(* A thread keeps running, the provider answers or fails, and a generator  *)
(* that has yielded its last event is resumed or closed.                   *)
FairSpec == Spec /\ \A a \in Attempts : WF_vars(Serve(a))
-----------------------------------------------------------------------------
Pcs == {"idle", "claimed", "replaying", "refusing", "opened", "appended",
        "asking", "answered", "recorded", "failing", "cancelling", "yielded",
        "closing", "abandoned", "done"}
Messages == Attempts \cup {"none"}

TypeOK == /\ status \in {"none", "started", "completed", "failed", "cancelled"}
          /\ user \in Messages /\ result \in Messages
          /\ users \in SUBSET Attempts /\ answers \in SUBSET Attempts
          /\ open \in BOOLEAN
          /\ active \in Messages /\ cached \in Messages
          /\ cancelled \in SUBSET Attempts
          /\ pc \in [Attempts -> Pcs] /\ mine \in [Attempts -> Messages]
          /\ reply \in [Attempts -> Messages \cup NoResults]
          /\ client \in Clients /\ crashes \in Nat

(* Every attempt that was told a result was told the one in the row, from  *)
(* the cache, from the row or from its own work, across evictions and      *)
(* restarts; and its two messages are in the conversation.                 *)
RepliesAgree ==
  /\ \A a \in Attempts : reply[a] \in Attempts => reply[a] = result
  /\ cached # "none" => cached = result
  /\ result # "none" => /\ status = "completed" /\ user = mine[result]
                        /\ result \in answers /\ user \in users

(* What an attempt holds at each place: a user message once it is past     *)
(* opening, its own assistant message once it has answered, the durable    *)
(* result once it has recorded it; and a replay has a result to replay.    *)
AttemptsHold ==
  \A a \in Attempts :
    /\ mine[a] # "none" => mine[a] \in users
    /\ pc[a] \in {"appended", "asking", "answered", "recorded"} => mine[a] # "none"
    /\ pc[a] = "answered" => a \in answers
    /\ pc[a] = "recorded" => result = a
    /\ pc[a] = "replaying" => status = "completed"

(* The row has a result exactly when it is completed, and the attempt that *)
(* produced it is past every step that could change its user message.      *)
RowHolds ==
  /\ status = "completed" <=> result # "none"
  /\ user # "none" => user \in users
  /\ result # "none" => pc[result] \in {"recorded", "yielded", "closing", "done"}

(* The inductive invariant behind RepliesAgree: without AttemptsHold a     *)
(* completion could name an answer that is not in the conversation, and    *)
(* without RowHolds a finished row could be completed again.               *)
ChatInv == TypeOK /\ AttemptsHold /\ RowHolds /\ RepliesAgree

(* The slot of the key is never left behind by an attempt that has ended,  *)
(* unless its stream was dropped before the generator was first resumed.   *)
SlotIsReleased == active # "none" => pc[active] \notin {"idle", "done"}

(* A request never stays started: some attempt or a restart ends it, but   *)
(* for streams dropped before their generator was first resumed.           *)
Abandoned == \E a \in Attempts : pc[a] = "abandoned"
RequestsEnd == status = "started" ~> status # "started" \/ Abandoned

(* A plain client that waits for each answer before it repeats its request *)
(* gets one user message and at most one assistant message however often   *)
(* the provider fails, unless the process dies.                            *)
MessagesOnce == client = "plain" /\ crashes = 0 =>
                  Cardinality(users) <= 1 /\ Cardinality(answers) <= 1

(* The requests of a key keep the promise of ReplyOnce.                    *)
Once == INSTANCE ReplyOnce WITH decided <- result
ImplementsReplyOnce == Once!Spec
=============================================================================
