--------------------------- MODULE AttachmentStore ---------------------------
(***************************************************************************)
(* The files of one conversation and what messages rest on them: uploads,  *)
(* the content-addressed objects, parsing, attachments bound to a message, *)
(* chunks cited by retrieval plans (graph_core/store.py with its tables in *)
(* migrations.py).                                                         *)
(*                                                                         *)
(* Requests and background tasks are threads.  The store has one lock:     *)
(* whatever is done under it in one piece is one action.  Files are read   *)
(* and unlinked outside the lock, and only complete_attachment_upload      *)
(* keeps the lock over several commits; the other steps of a request may   *)
(* be separated by those of another, and the process may die after each.   *)
(* What a restarted store does before it serves is sequential.             *)
(***************************************************************************)
EXTENDS Integers, FiniteSets, Functions

CONSTANTS Threads,
          Contents,        \* file contents, as told apart by their SHA-256
          Uploads, Parts,  \* chunked uploads, and the chunks of each
          ContentOf,       \* ContentOf[u]: what the chunks of u add up to
          Messages,        \* one user message in each conversation
          Owners,          \* those in the conversation that owns the files
          Legacy,          \* contents that an old database holds inline
          MaxAttachments,  \* bound: ids that are given out
          MaxCrashes, None

ASSUME StoreAssumption ==
  /\ ContentOf \in [Uploads -> Contents] /\ Owners \subseteq Messages /\ Legacy \subseteq Contents
  /\ MaxAttachments \in Nat \ {0} /\ MaxCrashes \in Nat
  /\ None \notin Contents \cup Uploads \cup Messages

VARIABLES
  att,        \* rows of message_attachments, by id
  next,       \* the next id
  objects,    \* files under objects/
  cites,      \* each message: attachments in message_retrieval_sources
  sent,       \* messages that have been appended
  upload,     \* rows of attachment_uploads, with their directory of parts
  job,        \* each thread: the request it serves
  serving,    \* the constructor of the store has returned
  open,       \* the conversation is not pruned
  crashes,
  overlapped, \* history: attachments in use although parsed anew meanwhile
  raced,      \* history: contents stored again while they were unlinked
  stranded    \* history: attachments whose upload failed when they were registered

vars == <<att, next, objects, cites, sent, upload, job, serving, open, crashes,
          overlapped, raced, stranded>>

Ids == 1 .. MaxAttachments
Attachment == [content: Contents, filed: BOOLEAN, parse: {"processing", "ready", "failed"},
               message: Messages \cup {None}, context: BOOLEAN, chunks: BOOLEAN]
Session == [status: {"none", "uploading", "assembling", "completed"},
            received: SUBSET Parts, files: [Parts -> {"none", "good", "bad"}],
            id: Ids \cup {0}]
Steps == {"idle", "persist", "register", "count", "drop", "queued", "parse", "index",
          "spoiled", "assemble", "enroll", "finish", "answering"}
Assembly == {"assemble", "enroll", "finish"}
Job == [step: Steps, id: Ids \cup {0}, content: Contents \cup {None},
        upload: Uploads \cup {None}, message: Messages \cup {None}, evidence: SUBSET Ids]

Idle == [step |-> "idle", id |-> 0, content |-> None, upload |-> None,
         message |-> None, evidence |-> {}]
Unopened == [status |-> "none", received |-> {}, files |-> [p \in Parts |-> "none"], id |-> 0]
Uploaded(c) == [content |-> c, filed |-> TRUE, parse |-> "processing", message |-> None,
                context |-> FALSE, chunks |-> FALSE]
Inline(c, m) == [Uploaded(c) EXCEPT !.filed = FALSE, !.parse = "ready", !.message = m,
                                    !.context = m # None]

Stored == DOMAIN att
Ready == {i \in Stored : att[i].parse = "ready"}
BoundTo(m) == {i \in Stored : att[i].message = m}
Cited == UNION {cites[m] : m \in Messages}

(* An old database holds at most one file inline, bound or not.            *)
Init == /\ \/ att = <<>> /\ sent = {}
           \/ \E c \in Legacy, m \in Owners \cup {None} :
                att = [i \in {1} |-> Inline(c, m)] /\ sent = {m} \ {None}
        /\ next = Cardinality(Stored) + 1
        /\ objects = {} /\ cites = [m \in Messages |-> {}]
        /\ upload = [u \in Uploads |-> Unopened]
        /\ job = [t \in Threads |-> Idle]
        /\ serving = FALSE /\ open = TRUE /\ crashes = 0
        /\ overlapped = {} /\ raced = {} /\ stranded = {}

At(t, step) == serving /\ job[t].step = step
Do(t, j) == job' = [job EXCEPT ![t] = j]
Goto(t, step) == Do(t, [job[t] EXCEPT !.step = step])
For(i, step) == [Idle EXCEPT !.id = i, !.step = step]
(* Only an assembly keeps the lock of the store between two steps.         *)
Unlocked == serving /\ \A t \in Threads : job[t].step \notin Assembly

evidenceVars == <<cites, sent>>
marks == <<overlapped, raced, stranded>>
process == <<serving, open, crashes>>
-----------------------------------------------------------------------------
(* A file uploaded in one piece: upload_attachment streams it to a staging *)
(* file, create_attachment_from_file moves it to its object and registers  *)
(* it, and a background task parses it.                                    *)

BeginUpload(t, c) == /\ At(t, "idle") /\ Unlocked /\ open /\ next <= MaxAttachments
                     /\ Do(t, [For(next, "persist") EXCEPT !.content = c])
                     /\ next' = next + 1
                     /\ UNCHANGED <<att, objects, evidenceVars, upload, process, marks>>

PersistObject(t) == /\ At(t, "persist")
                    /\ objects' = objects \cup {job[t].content} /\ Goto(t, "register")
                    /\ UNCHANGED <<att, next, evidenceVars, upload, process, marks>>

(* The new row.  Another thread may have decided to unlink the object.     *)
Dropping(c) == \E t \in Threads : job[t].step = "drop" /\ job[t].content = c
Enlist(t) == /\ att' = [i \in Stored \cup {job[t].id} |->
                           IF i \in Stored THEN att[i] ELSE Uploaded(job[t].content)]
             /\ raced' = raced \cup {c \in {job[t].content} : Dropping(c)}

Register(t) == /\ At(t, "register") /\ Unlocked /\ open
               /\ Enlist(t) /\ Do(t, For(job[t].id, "queued"))
               /\ UNCHANGED <<next, objects, evidenceVars, upload, process, overlapped, stranded>>

(* The conversation has been pruned, or the transaction fails.             *)
RegisterFails(t) == /\ At(t, "register") /\ Unlocked /\ Goto(t, "count")
                    /\ UNCHANGED <<att, next, objects, evidenceVars, upload, process, marks>>

(* References to an object among rows a.                                   *)
ReferredIn(a, c) == \E i \in DOMAIN a : a[i].filed /\ a[i].content = c

(* A refused registration counts the references and drops the object.      *)
CountReferences(t) ==
  /\ At(t, "count") /\ Unlocked
  /\ IF ReferredIn(att, job[t].content) THEN Do(t, Idle) ELSE Goto(t, "drop")
  /\ UNCHANGED <<att, next, objects, evidenceVars, upload, process, marks>>

(* It may be unlinked while another thread has stored the same content.    *)
Storing(t, c) == \E u \in Threads \ {t} : job[u].step \in {"register", "enroll"}
                                         /\ job[u].content = c
Unlink(t) == /\ objects' = objects \ {job[t].content}
             /\ raced' = raced \cup {c \in {job[t].content} : Storing(t, c)}
             /\ UNCHANGED <<overlapped, stranded>>

DropObject(t) == /\ At(t, "drop") /\ Unlink(t) /\ Do(t, Idle)
                 /\ UNCHANGED <<att, next, evidenceVars, upload, process>>
-----------------------------------------------------------------------------
(* Parsing.                                                                *)

(* reparse_attachment, and the background task after an upload.            *)
CanReparse(i) == open /\ i \in Stored /\ att[i].message = None /\ i \notin Cited

Parsing(i) == \E t \in Threads : job[t].id = i /\ job[t].step \in {"parse", "index", "spoiled"}

StartParsing(t, i) == /\ att' = [att EXCEPT ![i].parse = "processing"]
                      /\ Do(t, For(i, "parse"))
                      /\ overlapped' = overlapped \cup {j \in {i} : Parsing(j)}
                      /\ stranded' = stranded \ {i}

Reparse(t, i) == /\ At(t, "idle") /\ Unlocked /\ CanReparse(i) /\ StartParsing(t, i)
                 /\ UNCHANGED <<next, objects, evidenceVars, upload, process, raced>>

BackgroundParse(t) == /\ At(t, "queued") /\ Unlocked
                      /\ IF CanReparse(job[t].id)
                         THEN StartParsing(t, job[t].id)
                         ELSE Do(t, Idle) /\ UNCHANGED <<att, overlapped, stranded>>
                      /\ UNCHANGED <<next, objects, evidenceVars, upload, process, raced>>

(* The parser reads the object without the lock; it fails when the object  *)
(* is missing, and may fail on any.                                        *)
Parse(t) == /\ At(t, "parse")
            /\ \/ job[t].id \in Stored /\ att[job[t].id].content \in objects /\ Goto(t, "index")
               \/ Goto(t, "spoiled")
            /\ UNCHANGED <<att, next, objects, evidenceVars, upload, process, marks>>

(* The sources of a plan restrict the deletion of their chunks.  Mutant:   *)
(* they do not.                                                            *)
Erasable_Any(S, c) == TRUE
Erasable(S, c) == \A m \in Messages : S \cap c[m] = {}

(* _index_attachment after the parser: new chunks and no context, unless   *)
(* it is to be preserved; if the old chunks cannot go, the attachment has  *)
(* failed like one that cannot be parsed.  Mutant: that error is not       *)
(* caught.                                                                 *)
Indexed_Leaves(i, good, preserve) ==
  IF i \notin Stored \/ (good /\ ~Erasable({i}, cites)) THEN att
  ELSE IF good
       THEN [att EXCEPT ![i].parse = "ready", ![i].chunks = TRUE, ![i].context = preserve /\ @]
       ELSE [att EXCEPT ![i].parse = "failed"]
Indexed(i, good, preserve) ==
  IF i \notin Stored THEN att
  ELSE IF good /\ Erasable({i}, cites)
       THEN [att EXCEPT ![i].parse = "ready", ![i].chunks = TRUE, ![i].context = preserve /\ @]
       ELSE [att EXCEPT ![i].parse = "failed"]

Index(t) == /\ serving /\ job[t].step \in {"index", "spoiled"} /\ Unlocked
            /\ att' = Indexed(job[t].id, job[t].step = "index", FALSE)
            /\ Do(t, Idle)
            /\ UNCHANGED <<next, objects, evidenceVars, upload, process, marks>>

(* delete_attachment; the last reference takes the object along, after the *)
(* transaction.  Mutant: the references are not counted.                   *)
LastReference_Any(i) == TRUE
LastReference(i) == ~ReferredIn(Restrict(att, Stored \ {i}), att[i].content)

Delete(t, i) == /\ At(t, "idle") /\ Unlocked /\ CanReparse(i) /\ Erasable({i}, cites)
                /\ att' = Restrict(att, Stored \ {i})
                /\ upload' = [u \in Uploads |-> IF upload[u].id = i THEN Unopened ELSE upload[u]]
                /\ IF LastReference(i)
                   THEN Do(t, [Idle EXCEPT !.step = "drop", !.content = att[i].content])
                   ELSE UNCHANGED job
                /\ UNCHANGED <<next, objects, evidenceVars, process, marks>>
-----------------------------------------------------------------------------
(* Chunked uploads.                                                        *)

(* create_attachment_upload; a known client key gets the upload it has.    *)
OpenUpload(u) == /\ Unlocked /\ open /\ upload[u].status = "none"
                 /\ upload' = [upload EXCEPT ![u].status = "uploading"]
                 /\ UNCHANGED <<att, next, objects, evidenceVars, job, process, marks>>

WriteChunk(u, p) == /\ Unlocked /\ open /\ upload[u].status = "uploading"
                    /\ p \notin upload[u].received
                    /\ upload' = [upload EXCEPT ![u].received = @ \cup {p},
                                                ![u].files = [@ EXCEPT ![p] = "good"]]
                    /\ UNCHANGED <<att, next, objects, evidenceVars, job, process, marks>>

(* The disk: a part that was written is damaged or lost.                   *)
Damage(u, p) == /\ upload[u].status = "uploading" /\ upload[u].files[p] = "good"
                /\ \E f \in {"none", "bad"} : upload' = [upload EXCEPT ![u].files[p] = f]
                /\ UNCHANGED <<att, next, objects, evidenceVars, job, process, marks>>

CancelUpload(u) == /\ Unlocked /\ open /\ upload[u].status \in {"uploading", "assembling"}
                   /\ upload' = [upload EXCEPT ![u] = Unopened]
                   /\ UNCHANGED <<att, next, objects, evidenceVars, job, process, marks>>

(* complete_attachment_upload.  A completed upload answers its attachment, *)
(* and the endpoint queues another parse when it is not done; damaged      *)
(* parts are to be sent again; else the assembly begins.                   *)
Bad(u) == {p \in Parts : upload[u].files[p] = "bad"}
InProgress(i) == i \in Stored /\ att[i].parse = "processing"

Complete(t, u) ==
  /\ At(t, "idle") /\ Unlocked /\ open /\ upload[u].status # "none"
  /\ IF upload[u].status = "completed" /\ upload[u].id # 0
     THEN InProgress(upload[u].id) /\ Do(t, For(upload[u].id, "queued")) /\ UNCHANGED <<upload, next>>
     ELSE /\ upload[u].received = Parts /\ \A p \in Parts : upload[u].files[p] # "none"
          /\ IF Bad(u) # {}
             THEN /\ upload' = [upload EXCEPT
                         ![u].received = @ \ Bad(u),
                         ![u].files = [p \in Parts |-> IF p \in Bad(u) THEN "none" ELSE @[p]]]
                  /\ UNCHANGED <<job, next>>
             ELSE /\ next <= MaxAttachments /\ next' = next + 1
                  /\ upload' = [upload EXCEPT ![u].status = "assembling"]
                  /\ Do(t, [For(next, "assemble") EXCEPT !.content = ContentOf[u], !.upload = u])
  /\ UNCHANGED <<att, objects, evidenceVars, process, marks>>

Assemble(t) == /\ At(t, "assemble")
               /\ objects' = objects \cup {job[t].content} /\ Goto(t, "enroll")
               /\ UNCHANGED <<att, next, evidenceVars, upload, process, marks>>

Enroll(t) == /\ At(t, "enroll") /\ Enlist(t) /\ Goto(t, "finish")
             /\ UNCHANGED <<next, objects, evidenceVars, upload, process, overlapped, stranded>>

FinishUpload(t) ==
  /\ At(t, "finish")
  /\ upload' = [upload EXCEPT ![job[t].upload] = [Unopened EXCEPT !.status = "completed",
                                                      !.received = Parts, !.id = job[t].id]]
  /\ Do(t, For(job[t].id, "queued"))
  /\ UNCHANGED <<att, next, objects, evidenceVars, process, marks>>

(* An error, of the disk or of a transaction, after which the upload can   *)
(* be completed again.  An object that has no row is unlinked; a row that  *)
(* is there already stays, and nobody parses it.                           *)
AssemblyFails(t) ==
  /\ serving /\ job[t].step \in Assembly /\ Do(t, Idle)
  /\ upload' = [upload EXCEPT ![job[t].upload].status = "uploading"]
  /\ \/ job[t].step = "assemble" /\ UNCHANGED <<objects, marks>>
     \/ /\ job[t].step = "enroll"
        /\ IF ReferredIn(att, job[t].content) THEN UNCHANGED <<objects, marks>> ELSE Unlink(t)
     \/ /\ job[t].step = "finish" /\ stranded' = stranded \cup {job[t].id}
        /\ UNCHANGED <<objects, overlapped, raced>>
  /\ UNCHANGED <<att, next, evidenceVars, process>>
-----------------------------------------------------------------------------
(* Messages.                                                               *)

(* _bind_message_attachments: a message that refers to S is bound to S,    *)
(* whose contexts are frozen; what it was bound to before is deleted.      *)
Bindable(m) == {i \in Ready : att[i].message \in {None, m}}
Dropped(m, S) == BoundTo(m) \ S
Bind(m, S) == /\ S \subseteq Bindable(m) /\ Erasable(Dropped(m, S), cites)
              /\ att' = [i \in Stored \ Dropped(m, S) |->
                           IF i \in S THEN [att[i] EXCEPT !.message = m, !.context = TRUE]
                           ELSE att[i]]
              /\ upload' = [u \in Uploads |-> IF upload[u].id \in Dropped(m, S)
                                              THEN [upload[u] EXCEPT !.id = 0] ELSE upload[u]]

(* The sources of a plan refer to chunks, those that are left when the     *)
(* message has been bound.                                                 *)
Citable(m, C) == \A i \in C : i \in Stored \ BoundTo(m) /\ att[i].chunks

(* A message refers to attachments of its own conversation, or it is plain *)
(* and cites chunks that its route has ready.                              *)
Refers(m, S) == m \in Owners /\ S # {} /\ Bind(m, S) /\ cites' = [cites EXCEPT ![m] = {}]
Plain(m, C) == Bind(m, {}) /\ Citable(m, C) /\ cites' = [cites EXCEPT ![m] = C]

Append(m) == /\ Unlocked /\ open /\ m \notin sent /\ sent' = sent \cup {m}
             /\ \E S \in SUBSET Ready : Refers(m, S) \/ Plain(m, S)
             /\ UNCHANGED <<next, objects, job, process, marks>>

(* An edit makes the revision stale that other edits have seen.            *)
StaleFor(m) == [t \in Threads |-> IF job[t].message = m THEN Idle ELSE job[t]]

Edit(m) == /\ Unlocked /\ open /\ m \in sent /\ job' = StaleFor(m)
           /\ \E S \in SUBSET Ready : Refers(m, S) \/ Plain(m, S)
           /\ UNCHANGED <<next, objects, sent, process, marks>>

(* An edit with a new answer: the plan is made, the model is asked without *)
(* the lock, and the plan is stored as it was made.                        *)
PrepareEdit(t, m) == \E C \in SUBSET Ready :
  /\ At(t, "idle") /\ Unlocked /\ open /\ m \in sent
  /\ Do(t, [Idle EXCEPT !.step = "answering", !.message = m, !.evidence = C])
  /\ UNCHANGED <<att, next, objects, evidenceVars, upload, process, marks>>

CommitEdit(t) == LET m == job[t].message  C == job[t].evidence IN
  /\ At(t, "answering") /\ Unlocked /\ open
  /\ Plain(m, C) /\ job' = StaleFor(m)
  /\ overlapped' = overlapped \cup (C \ Ready)
  /\ UNCHANGED <<next, objects, sent, process, raced, stranded>>

(* The model gives no answer, or the commit is refused.                    *)
AbandonEdit(t) == /\ At(t, "answering") /\ Do(t, Idle)
                  /\ UNCHANGED <<att, next, objects, evidenceVars, upload, process, marks>>

(* prune, of this conversation and all below it.                           *)
Prune == /\ Unlocked /\ open /\ open' = FALSE
         /\ UNCHANGED <<att, next, objects, evidenceVars, upload, job, serving, crashes, marks>>
-----------------------------------------------------------------------------
(* Crash and start.                                                        *)

Crash == /\ crashes < MaxCrashes /\ crashes' = crashes + 1
         /\ serving' = FALSE /\ job' = [t \in Threads |-> Idle]
         /\ UNCHANGED <<att, next, objects, evidenceVars, upload, open, marks>>

(* _migrate_legacy_attachment_payloads moves an inline file to its object. *)
MigrateLegacy(i) == /\ ~serving /\ i \in Stored /\ ~att[i].filed
                    /\ objects' = objects \cup {att[i].content}
                    /\ att' = [att EXCEPT ![i].filed = TRUE, ![i].parse = "processing"]
                    /\ UNCHANGED <<next, evidenceVars, upload, job, process, marks>>

(* _recover_processing_attachments, and the parse that ends a migration:   *)
(* a frozen context is preserved.  Mutant: it is not.                      *)
Preserved_Never(i) == FALSE
Preserved(i) == att[i].context

ResumeParsing(i) == /\ ~serving /\ i \in Stored /\ att[i].filed /\ InProgress(i)
                    /\ \E good \in BOOLEAN : /\ good => att[i].content \in objects
                                             /\ att' = Indexed(i, good, Preserved(i))
                    /\ UNCHANGED <<next, objects, evidenceVars, upload, job, process, marks>>

(* _recover_attachment_uploads: parts that are not on disk are forgotten,  *)
(* an assembly may begin again.  Mutant: it may not.                       *)
Resumed_Never(s) == IF s.status = "uploading"
                    THEN [s EXCEPT !.received = {p \in @ : s.files[p] = "good"},
                                   !.files = [p \in Parts |-> IF @[p] = "bad" THEN "none" ELSE @[p]]]
                    ELSE s
Resumed(s) == IF s.status \in {"uploading", "assembling"}
              THEN [s EXCEPT !.status = "uploading",
                             !.received = {p \in @ : s.files[p] = "good"},
                             !.files = [p \in Parts |-> IF @[p] = "bad" THEN "none" ELSE @[p]]]
              ELSE s

(* cleanup_orphan_attachment_objects keeps what is referred to.            *)
Swept == {c \in objects : ReferredIn(att, c)}

(* The rest of the constructor, once every attachment is parsed.           *)
Serve == /\ ~serving /\ serving' = TRUE
         /\ \A i \in Stored : att[i].filed /\ ~InProgress(i)
         /\ upload' = [u \in Uploads |-> Resumed(upload[u])] /\ objects' = Swept
         /\ UNCHANGED <<att, next, evidenceVars, job, open, crashes, marks>>
-----------------------------------------------------------------------------
Requests(t) == \/ \E c \in Contents : BeginUpload(t, c)
               \/ \E i \in Stored : Reparse(t, i) \/ Delete(t, i)
               \/ \E u \in Uploads : Complete(t, u)
               \/ \E m \in Messages : PrepareEdit(t, m)

Continue(t) == \/ PersistObject(t) \/ Register(t) \/ RegisterFails(t)
               \/ CountReferences(t) \/ DropObject(t)
               \/ BackgroundParse(t) \/ Parse(t) \/ Index(t)
               \/ Assemble(t) \/ Enroll(t) \/ FinishUpload(t)

Client == \/ \E u \in Uploads : OpenUpload(u) \/ CancelUpload(u)
          \/ \E u \in Uploads, p \in Parts : WriteChunk(u, p) \/ Damage(u, p)
          \/ \E m \in Messages : Append(m) \/ Edit(m)
          \/ Prune

Start == Serve \/ \E i \in Stored : MigrateLegacy(i) \/ ResumeParsing(i)

Next == \/ \E t \in Threads : Requests(t) \/ Continue(t) \/ AssemblyFails(t)
                              \/ CommitEdit(t) \/ AbandonEdit(t)
        \/ Client \/ Start \/ Crash

Spec == Init /\ [][Next]_vars
-----------------------------------------------------------------------------
(* Properties.                                                             *)

TypeOK == /\ Stored \subseteq Ids /\ att \in [Stored -> Attachment]
          /\ next \in 1 .. MaxAttachments + 1 /\ objects \subseteq Contents
          /\ cites \in [Messages -> SUBSET Ids] /\ sent \subseteq Messages
          /\ upload \in [Uploads -> Session] /\ job \in [Threads -> Job]
          /\ serving \in BOOLEAN /\ open \in BOOLEAN /\ crashes \in 0 .. MaxCrashes
          /\ overlapped \subseteq Ids /\ raced \subseteq Contents /\ stranded \subseteq Ids

(* What a message cites stays: the attachment and its chunks are there     *)
(* however attachments are deleted, parsed again and dropped by edits, and *)
(* a plan prepared before that is not stored.                              *)
EvidenceStays == \A m \in Messages : \A i \in cites[m] : i \in Stored /\ att[i].chunks

(* Whatever requests and restarts follow, a bound attachment keeps the     *)
(* context that was frozen for its message, and a cited one is ready: not  *)
(* marked as failed under an answer that rests on it.  Save those used     *)
(* while they were parsed anew.                                            *)
Settled(i) == /\ att[i].message # None => att[i].context
              /\ i \in Cited => att[i].parse = "ready"
EvidenceIsFixed == \A i \in Stored \ overlapped : Settled(i)

(* Every registered attachment has its object, save those stored while the *)
(* object, that nothing referred to, was about to be unlinked.             *)
RowsHaveObjects == \A i \in Stored : att[i].filed => att[i].content \in objects \cup raced

(* An edit that the model has answered, and that no other edit overtook,   *)
(* can be stored with the plan that the model has seen.                    *)
PreparedEditFits ==
  \A t \in Threads : At(t, "answering") /\ open => Citable(job[t].message, job[t].evidence)

(* An upload is never left assembling by a store that serves: its client   *)
(* can send the rest and complete it, or cancel it.                        *)
NoAbandonedAssembly ==
  serving => \A u \in Uploads : upload[u].status = "assembling" =>
               \E t \in Threads : job[t].upload = u /\ job[t].step \in Assembly

(* A store that serves forgets no parse: some thread is about to end it,   *)
(* unless the conversation is pruned first.  Save those of a failed        *)
(* upload, until they are parsed anew or the store restarts.               *)
ParsingIsOwed ==
  serving /\ open => \A i \in Stored \ stranded : InProgress(i) =>
    \E t \in Threads : job[t].id = i /\ job[t].step \in {"queued", "parse", "index", "spoiled", "finish"}
=============================================================================
