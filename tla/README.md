# WeavePath in TLA+

WeavePath keeps a tree of conversations with language models: a conversation
can be forked into branches and turns, each sees the messages of its ancestors
up to the fork, an agent can be asked to answer one, and a conversation may be
bound to one that lives in another program (its host). This directory holds a
model of the parts of its Python backend in which the order of steps matters,
the configurations that check it with TLC, and proofs of its main invariants
for TLAPS. Paths below are relative to `src/backend/` unless they begin with
`docs/`; line by line correspondence is in `PROJECT.json` under `map`.

## 1. The system

One process owns one SQLite file (an OS lock, `api/app.py`, refuses a second).
Every write goes through `GraphStore.tx()`: a re-entrant lock and
`BEGIN IMMEDIATE`, so **transactions are atomic and serialised, and everything
between two of them interleaves**: request threads, the coroutines of the async
endpoints, one dispatcher thread, model and host calls, and the death of the
process. At start-up `lifespan` runs the recovery of agent runs, chat requests
and host operations, in that order, and submits the queued runs again.

| Component | State | Operations | Talks to | What is hard |
|---|---|---|---|---|
| Agent run journal `agent_runtime/repository.py` | rows `agent_runs` (status, lease, lineage, route revisions), `run_approvals`, `tool_calls`, `run_steps`, `tool_effects` | create, start, request_approval, decide, claim, finish, complete, fail, cancel, recover | the graph (revisions, messages) | two executors of a run, effects shared by retries, cancellation racing everything, crashes between a file and its row |
| Agent runtime service `agent_runtime/service.py` | a program counter per thread | execute, resume, decide_approval, retry, cancel | journal, graph, engineering, model | one endpoint is many transactions; a run hops between the worker and the approving thread |
| Dispatcher `agent_runtime/dispatcher.py` | queue of ids, one thread | submit, work | service | ids are in memory only |
| Conversation graph `graph_core/store.py` | instances, route closure, revisions, current route, tombstones, command journal | fork, append, edit, rename, activate, prune | everything | legal calls in any order, stale revisions, replays |
| Chat requests `api/app.py` + `store.py` | `chat_requests` row, `chat_active`, `chat_completed` | chat, chat_stream, cancel | graph, model | a retry racing the end of the attempt before it; what the client is told against what is durable |
| Host sagas `host_adapters/saga.py` + `api/app.py` | `host_operations` row, bindings | fork, rename, activate, prune of bound conversations, recover_started | graph, host | two systems without a common transaction, lost answers, compensation |
| Attachments `store.py`, `attachments.py` | uploads, chunk files, objects shared by digest, rows, chunks cited by messages | create, write chunk, complete, cancel, parse, delete, bind, cite, edit, migrate, sweep | graph, messages | files and rows change separately; plans are stored after the model has answered |
| Database lifecycle `graph_core/database_lifecycle.py`, `migrations.py`, start in `api/app.py` | lock, database file, write-ahead log, backups, manifests | start, copy, migrate, complete, restore, clean up, restore offline | process start | crashes between file, log and manifest; builds of different age |
| Streaming `api/llm.py`, `api/app.py`, `ChatPage.tsx` | events in the journal, response, draft on the page | stream, retry, store, poll, repeat, stop | chat requests, provider | two places where a stream can break, two ways to read what it said |
| Engineering repository `engineering.py` | artifacts, knowledge, datasets | create, merge, import | graph revisions, agent runs | a merge must invalidate answers in flight |
| Context, compaction, prompt builder | none | pure | service, chat | budgets at their boundary |
| Tools, model adapters, settings, credentials | settings file, OS credential store | calls | provider | a setting and its key are stored apart |
| Host bridge transports | none | calls | companion process | I/O |
| HTTP routes, web and desktop interface, companions, plugins, scripts | view state | calls | API | clients |

What makes them correct, component by component:

* **Journal, service, dispatcher**: a side effect happens at most once per retry
  lineage and only after approval; the journal never says "not started" of what
  may have happened; one executor at a time; a run that ends leaves nothing
  open; two answers never rest on one state of a route; queued runs are not
  lost; runs converge.
* **Graph**: active conversations have active ancestors, the current route is
  active, turns stay on the route of their owner, every visible change moves a
  revision.
* **Chat**: whoever is told a result of a key is told the same one; no duplicate
  messages for a client that follows the protocol; slots are released; requests
  end.
* **Sagas**: a completed operation has happened on both sides, a compensated one
  on neither; the host makes one child however often one asks; no operation is
  in progress for ever.
* **Attachments**: what a message cites or is bound to stays as it was when the
  message was stored; every row has its object; no upload and no parse is
  forgotten across restarts.
* **Database lifecycle**: what is served is migrated wholly; what is reported as
  restored is restored exactly; a migration can be rolled back as long as its
  build serves; no start takes data away.
* **Streaming**: the draft on the page and the stored answer are one answer of
  the provider; the page asks again only for what has no answer; sending ends.

## 2. The modules and their order

1. `RunLifecycle`, `AgentRuns`, `MCAgentRuns`; `AgentRunsInvariant`,
   `AgentRunsProofs`, `AgentRunsSafety`.
2. `ReplyOnce`, `ChatRequests`, `MCChatRequests`; `ChatRequestsProofs`.
3. `ConversationGraph`; `ConversationGraphProofs`.
4. `HostSagas`, which composes the graph with the host and the threads beside it,
   `MCHostSagas`; `HostSagasProofs`.
5. `AttachmentStore`, `MCAttachmentStore`; `AttachmentStoreProofs`.
6. `DatabaseUpgrade`, `MCDatabaseUpgrade`; `DatabaseUpgradeProofs`.
7. `ChatStreaming`, `MCChatStreaming`: what module 2 takes as one attempt, from
   the provider to the screen; `ChatStreamingProofs`.

```
RunLifecycle <- implemented by - AgentRuns      <- AgentRunsInvariant <- AgentRunsProofs <- AgentRunsSafety
ReplyOnce    <- implemented by - ChatRequests   <- ChatRequestsProofs
ConversationGraph <- implemented by - HostSagas <- HostSagasProofs
         ^---------- ConversationGraphProofs -------^
AttachmentStore <- AttachmentStoreProofs      DatabaseUpgrade <- DatabaseUpgradeProofs
ChatStreaming <- ChatStreamingProofs
```

What is left of the plan: an abstract specification of a sending for
`ChatStreaming` to implement (not `ChatRequests`, which takes apart what is one
step here: `_chat_begin` and `_chat_finish`); fork-chat's answer; the settings
file and the vault.

## 3. Agent runs

**State.** A run asks for at most one approval, so the rows of its approval, its
approved call and its tool step are functions of the run: `approval`, `call`,
`step`. The `agent_runs` row is `status`, `lease`, `phase`, `code`, `frozen` (the
context snapshot with the route's revisions), `root` and `attempt`. `effect` is
`tool_effects`, keyed by lineage and arguments; `artifacts` counts what was
really written; `answers` are the runs whose message is in their conversation.
`rev` and `active` are what runs see of the graph. `cpc`, `wpc`, `apc` are the
program counters of the request thread that creates a run, of the worker, and of
the thread that serves its decision; `queue` is the dispatcher's; `up` says
whether the process lives.

**Actions** are the transactions, and the steps between them that others can
observe (the artifact written, the queue read). A status check before a transaction
(`_finish_cancel_if_requested`) and the rows that only record (`run_events`,
model steps, token usage) are folded into the transaction they belong to; the
lease's expiry is written but never read by the code, so heartbeats are left
out and only the lease's owner is kept. Recovery at start-up is one action, as
nothing else runs then. Conversations are edited and pruned by an environment
that does what `GraphStore` does to revisions. `Background` says whether runs
are executed by the dispatcher or by the request's own thread, as the app is
configured.

**Abstract specification.** `RunLifecycle` is the status machine a user of the
API is promised: queued, running, waiting, cancelling and the terminal states,
which moves are possible, and what a restart does.

| Run | States | Shows |
|---|---|---|
| `agent_runs_lineage` | 123,682 | safety of effects, executors, ends and the queue, and the refinement, with two runs that may be one lineage, edits, prune, crash |
| `agent_runs_routes` | 876,492 | no two answers to one revision, with three runs on a root and its branch, executed by request threads |
| `agent_runs_liveness` | 47,322 | a first attempt ends or waits for its user; a cancellation takes effect |
| `agent_runs_conflict` | violation | finding 1 |

*Bounds.* Two runs are enough for every hazard that two actors make (a second
approval, a reused effect, a stale route); the third run of the routes changes
the root's revision under two answers in the branch. One argument value makes
all calls of a lineage collide. `MaxRev`, `MaxAttempts`, `MaxCrashes` and
`MaxSteps` (model steps of a run) stop the counters. Symmetry permutes runs and
is used in the safety runs only. Deadlock is not checked, because users may stop
asking and because bounds end behaviours.

*Fairness* (`FairSpec`): the threads of the server take their steps (creating a
run, the dispatcher, worker and approving thread of each run), a model
call ends, with an answer or an error, and a dead process is started again. The
first is the operating system's; the second is an assumption about the provider:
the client waits for an answer without a read time-out (`api/llm.py`), so a
provider that keeps the connection open and is silent holds the dispatcher's one
thread, and neither property can be had without it. The queue is first
come, first served, so weak fairness is enough. Nothing is assumed of users: that a run waits for
a decision for ever is allowed.

**Proved**, for any sets of runs, arguments, conversations and routes. The
invariant `IInv` (module `AgentRunsInvariant`) is

* `TypeOK`;
* `RunsAgree`, run by run: how far approval, call and step are together, what
  status they allow, and where the worker and the approving thread can be
  (`ToolRowsAgree`, `StatusAgrees`, `WorkerAgrees`, `ApproverAgrees`,
  `LiveRunsAreHeld`). Neither `ExclusiveExecutor` nor `OnlyApprovedCallsRun` is
  inductive without it, since each transaction relies on the thread that
  performs it being where the rows say;
* `EffectsAgree`: at most one call of an effect key has begun, its effect is not
  `prepared` or `failed`, and a completed effect has its artifact;
* `AnswersAgree`, `OneAnswerPerRevision`: a completed run answered a revision in
  the past of its conversation, so no later answer rests on the same one.

`AgentRunsProofs` proves the first (`TypeCorrect`), that a step of one run leaves
the others' parts alone, and what the shared steps do; `AgentRunsSafety` goes
through the actions, puts the parts together and derives `AtMostOnce`, `JournalTruthful`,
`OnlyApproved`, `DoubtReported`, `OneExecutor`, `OneAnswer`,
`OnlyCompletionsAnswer` (`AnswersAreCompletions`, which no run lists, since
`ImplementsLifecycle` checks it), `EndedRunsSettle`, `OnlyReuseOrphaned`, and
`Refinement`, that every step is one of `RunLifecycle` or a stutter.
`QueuedAreServed` (no queued run is forgotten) needs only `TypeOK`: a run
becomes queued in the step that its creating thread takes or at a restart, which
queues all of them again, and what leaves the queue is held by the worker until
its status has changed (`KeepsQueued`). The two liveness properties are
model-checked only.

## 4. Chat requests

**State.** One idempotency key of one conversation: its row, its slot in
`chat_active`, its entry in `chat_completed`, the messages written for it (named
by the attempt that appended them), and for each attempt, a JSON or a streaming
request, its program counter, the user message in its hand and what its client
was told. Other keys matter
only because the cache keeps 512 entries: `Evict`.

**Actions** follow `chat` and `chat_stream`: admit under the lock, begin the row,
append the user message, record it, ask the model, append the answer, complete
the row, and `_chat_finish`, which is two steps because the slot is given up
under the lock and the row settled after it. A stream's `finally` runs after its
client was told: the finished stream has a step of its own. A stream whose
client leaves may be closed at any yield, and may also be dropped before its
generator was resumed at all, when no `finally` exists yet (`abandoned`).
The client has one of three manners: a hurried one repeats a request whenever it
likes and drops streams, a patient one repeats it only when it has been told
something (as the page does, section 5), a plain one is patient and never
streams.
A request with another content for the same key is refused and changes nothing.

**Abstract specification.** `ReplyOnce`: a key gets at most one result, for ever,
and whoever is answered is given it.

| Run | States | Shows |
|---|---|---|
| `chat_requests` | 443,781 | one JSON and two streaming attempts for each manner of client, dropped streams, cancel, prune, evict, restart: replies agree, slots are released, requests end, a plain client gets one message of each kind, `ReplyOnce` |

*Bounds.* Three attempts make one that ends, one that begins meanwhile, and one
that finds what they left; one crash. *Fairness* (`FairSpec`): each attempt that was admitted
goes on (its thread runs, and the provider answers or fails, as above). No fairness for clients.

**Proved**, for any number of attempts, restarts and evictions: `ChatInv` =
`TypeOK`, `AttemptsHold` (what an attempt holds at each place: without it a
completion could name an answer that is not there), `RowHolds` (the row has a
result exactly when it is completed, and the attempt that made it is past
changing it: without it a finished row could be completed again) and
`RepliesAgree`;
from it `ChatRepliesAgree`, `ChatSlotIsReleased` (a slot outlives its attempt
only for an abandoned stream) and `ChatRefinement`. `ChatMessagesOnce` rests on
a second invariant, `PlainInv`, of a client that waits and a process that does
not die: its attempts work one at a time (`OneAtATime`), so the row remembers
the user message between them (`MessageRemembered`) and an answer is in the hand
of an attempt or is the row's result (`AnswerRemembered`). `RequestsEnd` is
model-checked only.

`MessagesOnce` is stated without a restart: the user message is appended in one
transaction and recorded in the next, so that a process which dies between them
appends it again, though the docstring of `begin_chat_request` says that a
restart cannot duplicate it. Likewise a process that dies between the answer's
message and the completion of the request answers again when it is repeated;
`MessagesOnce` and `AnsweredOnce` (section 5) leave both cases out.

## 5. Streaming, from the provider to the page

**State.** One message sent from the page: the row of its key, the journal of
its events, the slot, the generator of each request the page makes (where it is,
which connection to the provider, how much has come, the parts it will store),
the response on the wire, and the page: its step, the number of its request, the
last event it has seen, the draft and the end it knows of. Chunks are named by
request, connection and place, so that a draft can be told from a mixture.

**Actions** follow `stream_events` (connect, a chunk, a failure that is retried
with a `reset`, one that is not, the end of the body), the generator of
`_stream_chat` (store, complete the row, publish, announce, `finally`), and
`send` of `ChatPage.tsx` (post, read, recover from the journal, settle, repeat)
with `stopGenerating`. The environment breaks the response, fails a poll, loses
the confirmation of a cancellation and kills the process.

| Run | States | Shows |
|---|---|---|
| `chat_streaming` | 586,413 | two requests of the page with two connections each and answers of two chunks: the draft is the beginning of one answer and at the end the stored one, stored answers are whole, one answer per sending, sending ends |
| `chat_stream` | violation | finding 3 |

*Bounds.* Two chunks make a partial answer; two connections a reset after one;
two requests a repetition; the counterexample needs three. `MaxLosses` = 2 lets
the response and the recovery from it both fail. `Limit` = 4 (the code's is 500)
is the journal of an answer without a retry: one with a retry is longer than a
look of the page. *Fairness* (`FairSpec`): the
generators and the page run, the provider answers or fails (without a read
time-out, an assumption about the provider), and a response nobody reads is closed.

Exceptions that the properties name, because the code has them: a body that
ends without `[DONE]` is stored as a complete answer (history `cut`); the
`finally` of an ended generator may end the request of the next one (history
`overtaken`, finding 3); a generator that was never resumed runs no `finally`,
so its row stays started and the page polls until the process is restarted
(`lost`). A cancellation that is confirmed after the generator's last look at
its event still stores the answer. Left out: events that only show progress, the
choice of the network route (a 503 or a refused connection may change it between
two connections).

The page looks at the journal 500 events at a time and does not look again once
the row has ended. `DraftIsStored` therefore says nothing of a longer journal (in the run
every journal of a completed answer with a reset after a chunk is longer than
`Limit`, so that case is shown by the theorem only, which holds for any limit):
the draft of such an answer may stop short of the stored one, or be one that was
given up, until the page has loaded the conversation again.

**Proved**, for any numbers of requests, connections, chunks, failures and
restarts and any limit: `StreamInvariant` and from it `StreamDraftIsOneAnswer`,
`StreamStoredAnswersAreWhole`, `StreamDraftIsStored` and `StreamAnsweredOnce`.
`StreamInv` says

* `GeneratorsAgree`: a generator has in its hand what its connection has sent;
* `PageAgrees`: which places the page, the response and its end can be in;
* `SlotAgrees`: the generator that works holds the slot, its row is started, and
  no later request has one;
* `Follows`: there is a history of the journal, `drafts`, which gives the draft
  after each event, and ends with what the working generator has in its hand
  (`Tells`); the page shows the draft of the last event it has seen, and from
  there to the first event on the wire, from each to the next, and from the last
  to the end of the journal nothing with an effect is missing (`PageFollows`); a
  completed row has its answer at the end of the history, and who knows of the
  completion has seen all that matters (`Kept`);
* `CompletionAgrees`, `AnswerIsRecorded`: who completes the row has stored the
  answer, and no other is stored.

The last three hold only until a generator has ended the request of another. The
history has to be a part of the invariant: the page's draft and the generator's
parts are never equal in between, and neither knows the journal but in parts.
What a look at the journal returns (`Missed`) is a recursive function; `MissedShows`
is proved by induction over its argument with sets of numbers (`UpFrom`), because
the induction theorems of the library, which take an operator, cannot be used.
`SendEnds` is model-checked only.

## 6. The conversation graph

`ConversationGraph` has the tree as the code keeps it: `route[i]` is the set of
`i`'s ancestors (the closure table), `node[i]`, the surface (`workflow` or
`turn`) and its owner, content and graph revisions, the current instance,
the tombstones with the key that made them, and the keys of the command
journal. Names are state: `title`, with `generated` (`title_is_generated`), the
workflow's `name` and `turnTitle`, of one user message in each conversation. Its
actions are the transactions `Fork`, `AppendMessage`, `Edit`, `Merge` (of
knowledge), `Rename`, `RenameWorkflow`, `RenameTurn`, `Activate`, `Prune`. A
conversation that was given no title gets one from the first message of its user
(`NamesBranch`), the workflow then too if it has no name (`NamesWorkflow`), and
`append_message` advances the graph revision for either (`RevisionStep`). What a
text is shortened to is not modelled: a member of `Titles` stands for both.
A request that is refused or replayed takes no step. Message contents, checkpoints and topics are left out, and an edit that is
prepared, answered by a model and committed is only its commit.

It is checked through `HostSagas`, whose behaviours are its behaviours. What an
edit does to the evidence of its message is in `AttachmentStore`.

**Proved**, for any instances and keys: `GraphInv` = `GraphTypeOK`, `RoutesHold`
(a member of a route brings its own route; without it a prune might leave a
descendant behind), `RoutesAreLive`, `CurrentIsActive`, `TurnsHaveOwners`;
and the action property `RevisionsTell` (`GraphRevisionsTell`), for any texts.

## 7. Host sagas

**State.** The graph; `saga[o]`, the journal row of operation `o`, named by its
idempotency key; `expect[o]`, the revision its client based it on; for each
attempt (a coroutine that serves requests for the key, one after another) its
program counter, the rest of a prune's plan and the old title it read; the
host's side: how many copies it made of a child, what is archived, its titles.

**Actions.** The endpoints of `api/app.py` are async, so they interleave at each
host call; requests served by threads (`Thread`: fork-chat, messages, names)
come between any two of their steps. A host call is two steps, the host acts and
the answer arrives, and may raise after either, which is a lost answer. Then the
local transaction, which commits, is replayed from the command journal or raises;
compensation; navigation to a new child; the end of the row. A stale revision
is any earlier one. `Restart` is `recover_started`, which quarantines what is
started. Host operations that write no saga (import, inspect) are left out.

| Run | States | Shows |
|---|---|---|
| `host_sagas` | 487,899 | any two of a fork (with two concurrent requests), a rename, a visit and a prune, beside a threaded request and across a restart: agreement of the two sides, one copy, forks never stuck, the graph's invariants, `RevisionsTell`, and `ImplementsGraph` |
| `host_prune` | violation | finding 2 |

*Bounds.* `MaxOps` = 2 operations begun, since each hazard is a pair; all four
kinds are offered. The fork carries a first message and no title (`First` and
`Given`). The root is created without a title, in a workflow with a name or
without one: a first message then names the root alone, which is where a
revision could be forgotten, or both. There is one text, that of the rename.
One threaded request, one restart. Symmetry permutes the two coroutines that may
serve the fork. Deadlock is not checked: all operations may
have ended.

**Proved**: `SagaRefinement`, that every step of a saga is a step of the graph
or none of its business, for any operations of any kind (the kinds being
disjoint, `OpsAssumption`), any attempts and any host; through it the graph's
theorems hold of the composed system (`SagaRoutesAreLive`, `SagaCurrentIsActive`,
`SagaTurnsHaveOwners`, `SagaRevisionsTell`). The refinement needs no invariant,
because each guard of a graph transaction is evaluated in the transaction,
never before.

The sagas' own properties, `SagaCompletedOnBothSides`,
`SagaCompensatedLeavesNothing`, `SagaOneHostCopy` and `SagaStartedIsServed`, do:
`SagaInv` is `TypeOK`, the graph's `GraphInv` and what relates the two sides.
The journal against the attempts (`JournalAgrees`): who asks the host is alone
with its operation, and what is past the host has been recorded. A fork
(`ForksAgree`, `ForkAttemptsAgree`): only its transaction makes the child, after
the host has made one; it is undone only if it is `Doomed`, its source pruned, a
turn, or past the revision it was asked for, which no later step mends, so that
another request for the key cannot complete what this one archives. A prune
(`PrunesAgree`, `PruneAttemptsAgree`): as long as the graph is at the revision
of the request, what is not left to archive is archived, and the transaction
takes only that; a branch made meanwhile has moved the revision.

`StartedIsServed` is stated for forks: when `host.rename`, `navigate` or `archive`
raises, the code has no `except` clause, and the row stays `started` until the
next start of the process.
A fork whose host call raises after the host has made the child ends `failed`
with nothing archived or quarantined, where `docs/architecture.md:261` has the
child archived or else orphaned.

## 8. Attachments

**State.** The files of one conversation: rows by id (content, whether it is an
object or still inline, parse status, the message it is bound to, whether its
context is frozen, whether its chunks are there), the objects by content, which
attachments each message cites, the uploads with the parts received and what is
on disk, and for each thread the request it serves. One message stands for each
conversation, of the one that owns the files or of one below it.

**Actions.** The store's lock makes a piece of a request atomic; files are read
and unlinked outside it. So an upload is: object, row, and if the conversation
was pruned meanwhile or the transaction fails, count the references, unlink; a parse is: mark, read
without the lock, index; a deletion is: row, then unlink. Only
`complete_attachment_upload` holds the lock over its commits, and a crash or an
error may still come between them: an error while the parts are put together, in
the registration or in the completion gives the upload back to its client
(`AssemblyFails`; the statement that does so is taken to succeed). An edit with a new answer is prepared, answered without
the lock, and committed with the plan as it was. A start migrates inline files,
resumes parses, resets assemblies and sweeps objects before it serves; the sweep
when a store is closed is left out. Ids are given out when a request begins,
which only names them earlier.

| Run | States | Shows |
|---|---|---|
| `attachments` | 1,976,664 | two threads, two attachments of equal content, an upload in a part that may be damaged, a legacy file, a message above and one below, a restart: evidence stays and is fixed, rows have objects, no upload and no parse is forgotten |
| `attachments_edit` | violation | finding 4 |

*Bounds.* Two threads and two attachments of one content make every race about
an object; one part can be lost, damaged and sent again. Symmetry permutes
threads; there is no liveness in these runs.

**Proved**, for any threads, contents, uploads, messages, ids and crashes, in
`AttachmentStoreProofs`: `StoreInvariant` and from it `StoreEvidenceStays`,
`StoreEvidenceIsFixed`, `StoreRowsHaveObjects`, `StoreNoAbandonedAssembly`,
`StoreParsingIsOwed`. None of the properties is inductive alone. `IInv` adds
what requests in progress know: `JobsAgree` (a dead process serves nothing, and
each step has the fields it uses), `ParsersAgree` (a parser has marked its
attachment and is the only one; without it an index could clear a context frozen
meanwhile), `MarksAgree` (what is being parsed is bound to nothing),
`ObjectsAgree` (who is about to register has its object, who is about to unlink
has nothing referring to it), `OneAssembly` (the lock), `InlineIsOld`.

Exceptions that the properties name, because the code has them:

* `raced`: a file that is stored again while a thread, which found no reference
  to it, is about to unlink it, loses its object.
* `overlapped`: a second reparse of an attachment while the first is reading; if
  a message is bound between their ends, the second clears its frozen context,
  which `docs/architecture.md:192` rules out.
* `stranded`: an error after an upload has its row and before it is completed
  leaves that row waiting for a parse that nobody makes, until it is parsed anew
  or the store restarts.

Also in the model: a crash after the row and before the completion of an upload
leaves an attachment that the repeated completion doubles; a completed upload
whose attachment an edit has dropped answers "missing durable chunk files" and
cannot be cancelled; a failed reparse of a legacy file keeps the old context.

## 9. Starts, migrations and backups

**State.** The database as data, effects of migrations and markers; the file and
the write-ahead log apart, since what is committed is in the log until SQLite
closes; who holds the lock; the backups with file and manifest; for each build,
which knows a number of migrations, where its start is; the restore command.

**Actions.** `_open_locked_store` step by step: lock; refuse a newer database,
open one that is up to date, copy an older one by SQLite's backup; manifest;
the scripts, each of which commits the marker of the one before (`executescript`
commits what is pending) and applies its own effects; verify; complete. A
failure closes the database, removes the log, replaces the file, writes the
manifest and reports; each of these may fail or be the last thing before the
process dies. A build that serves writes, stops, and cleans up backups, each
file before its manifest. The restore command chooses before it locks.

| Run | States | Shows |
|---|---|---|
| `database_upgrade` | 446,773 | an old build and one that knows two migrations more, three faults, two backups, two writes: what is served is whole, what is restored is exact, a migration can be undone, no start loses data |

*Bounds.* Two migrations are needed for a marker that is ahead or behind; two
backups for a cleanup that has to choose; three faults for a start that dies in
the middle, one that fails on what the first left, and one that cannot restore.

**Proved**, for any builds, migrations, backups, faults and writes, in
`DatabaseUpgradeProofs`: `UpgradeInvariant` and from it `UpgradeServedIsWhole`,
`UpgradeRecoveredIsExact`, `UpgradeRollbackIsThere` and the action property
`UpgradeDataOutlivesStarts`. The invariant says that whoever is past the lock is
alone (`Locked`), so that what a start has found is still so at its next step
(`BuildAgrees`: its backup is the newest and holds what it found, its log is
gone before the file is replaced), that markers are never ahead of effects
(`ContentsAgree`, of backups too), and that the offline choice exists. That the
newest backup survives a cleanup needs only that at least one is kept.

Also in the model: a crash in the middle of a migration leaves a `prepared`
manifest that nothing restores, and the next start backs up the half-migrated
database; a restore that fails after the file was replaced reports that nothing
was restored; a crash between removing a backup and its manifest leaves a
manifest that is invalid; the restore command removes the log before it replaces
the file, so that its death between them loses what was in the log (while it
holds the lock, which `DataOutlivesStarts` exempts). Objects of attachments are
not part of a backup: the sweep after a restored start deletes those that only
newer backups refer to.

## 10. Findings

1. **A run that is running for ever** (`agent_runs_conflict`,
   `agent_runtime/service.py`). An approved retry that reuses a completed effect
   completes at once; if the route changed, `complete` raises and nothing settles
   the run, while `docs/runtime-v2-p0.md:31` promises a terminal failure. Repeating
   the decision does nothing, as the call is completed; only a restart ends it.
2. **A refused prune that is committed** (`host_prune`, `api/app.py`). The same key
   sent again after the host refused to archive falls through to the local
   commit; `docs/architecture.md:264` says that no change is committed.
3. **A doubled answer after a failed stream** (`chat_stream`, `api/app.py`). The
   `finally` of a failed stream releases the slot, and fails the row, of the
   request that the page has made meanwhile; the page repeats it while that one
   still answers. `docs/host-and-release-p3.md:89` promises one message.
4. **An edit that can never be stored** (`attachments_edit`, `store.py`). Editing a
   message with a file into plain text that the file matches makes a plan which
   cites the file, asks the model, and then deletes the file in the commit that
   stores the plan: a foreign key error, now and at every retry, while
   `README.md:81` promises that the last question can be edited and regenerated.

The passing runs hold beside them: where a finding, or another behaviour named
in the sections above, would break a property, the property names the exception.

## 11. What is not modelled, and what the prover does not reach

* Host bridge transports, tools, model adapters: I/O and pure evaluation; their
  outcomes are nondeterministic in the models of those who call them.
* Settings and credentials (`api/model_settings.py`, `credential_store.py`):
  `configure` writes the key to the OS vault and then the settings to a file, so
  that an error or a crash between them leaves, for the next start, the new key
  beside the settings of the provider before. No other component reads either.
* Engineering: a merge of knowledge is modelled as the revision it advances and
  an approved effect as its artifact; other artifacts, datasets and experiments
  are single transactions that no other component depends on.
* Context assembly and compaction are pure functions of a snapshot.
* Of the graph: message contents, checkpoints and topics, and fork-chat's answer
  (two requests with one key may both append one). Of the host: importing and
  inspecting conversations, which write no saga.
* Routing, validation, the other pages, the desktop shell, companions, plugins,
  scripts and evaluations keep no state that the properties are about.

TLAPS proves safety: every invariant and every action property that a run checks
is also a theorem, and so is every refinement. Liveness under fairness
(`RunsConverge`, `CancellationConverges`, `RequestsEnd`, `SendEnds`) stays with
TLC, as temporal reasoning over `ENABLED` is out of the prover's reach. `TypeOK`,
and the inductive invariants, are proved and not listed in the runs. The assumptions of the proofs are the named
`ASSUME`s of each module about its constants; TLC evaluates them in the runs of
that module.

To check: `tlc -config MCAgentRuns_lineage.cfg MCAgentRuns` and likewise for
each configuration; `tlapm AgentRunsSafety.tla` and likewise for each module of
proofs. Configurations of findings end with TLC's counterexample.
