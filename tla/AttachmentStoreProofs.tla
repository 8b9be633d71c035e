------------------------ MODULE AttachmentStoreProofs ------------------------
(***************************************************************************)
(* What messages rest on stays, and no upload and no parse is forgotten:   *)
(* proved for any threads, contents, uploads, messages and crashes.        *)
(*                                                                         *)
(* Each property of AttachmentStore is made inductive by what it needs of  *)
(* the requests in progress: a parser knows that its attachment is marked, *)
(* a request that is about to register that its object is there, and one   *)
(* about to unlink that nothing refers to it.                              *)
(***************************************************************************)
EXTENDS AttachmentStore, FiniteSetTheorems, TLAPS

(* The fields of a job that its step uses.                                 *)
JobShape(j) ==
  /\ j.step \in {"persist", "register", "count", "drop", "assemble", "enroll"} => j.content \in Contents
  /\ j.step \in {"persist", "register", "queued", "parse", "index", "spoiled"} \cup Assembly => j.id \in Ids
  /\ j.step \in Assembly => j.upload \in Uploads
  /\ j.message # None <=> j.step = "answering"
DownIsIdle == ~serving => \A t \in Threads : job[t] = Idle
JobsAgree == DownIsIdle /\ \A t \in Threads : JobShape(job[t])

(* An inline file has no chunks, and no store serves it.                   *)
InlineIsOld == \A i \in Stored : ~att[i].filed => ~serving /\ ~att[i].chunks

(* Save for attachments that were used while parsed anew, a parser has     *)
(* marked its attachment, and it is the only one.                          *)
ParserOf(t, i) == job[t].id = i /\ job[t].step \in {"parse", "index", "spoiled"}
ParsersAgree ==
  /\ \A t \in Threads, i \in Stored \ overlapped : ParserOf(t, i) => InProgress(i)
  /\ \A t, u \in Threads, i \in Ids \ overlapped : ParserOf(t, i) /\ ParserOf(u, i) => t = u

(* An object is there before its row, and gone only after its rows.        *)
ObjectsAgree ==
  \A t \in Threads :
    /\ job[t].step \in {"register", "enroll"} => job[t].content \in objects \cup raced
    /\ job[t].step = "drop" => job[t].content \in raced \/ ~ReferredIn(att, job[t].content)

OneAssembly == \A t, u \in Threads : job[t].step \in Assembly /\ job[u].step \in Assembly => t = u

(* What is being parsed is bound to no message, and if it has been parsed  *)
(* before, then its parser has begun.                                      *)
MarksAgree ==
  serving => \A i \in Stored : InProgress(i) =>
    /\ att[i].message = None
    /\ att[i].chunks => \E t \in Threads : ParserOf(t, i)

IInv == /\ TypeOK /\ JobsAgree /\ InlineIsOld /\ EvidenceStays
        /\ ParsersAgree /\ EvidenceIsFixed
        /\ ObjectsAgree /\ RowsHaveObjects
        /\ OneAssembly /\ NoAbandonedAssembly
        /\ MarksAgree /\ ParsingIsOwed
-----------------------------------------------------------------------------
(* Types.                                                                  *)

RowTypes == Stored \subseteq Ids /\ att \in [Stored -> Attachment]
UploadTypes == upload \in [Uploads -> Session]
JobTypes == job \in [Threads -> Job]

USE DEF Ids

LEMMA NoneIsNothing == None \notin Contents /\ None \notin Uploads /\ None \notin Messages
  BY StoreAssumption

LEMMA InitTypes == Init => TypeOK /\ JobsAgree
<1> SUFFICES ASSUME Init PROVE TypeOK /\ JobsAgree
  OBVIOUS
<1> USE StoreAssumption, NoneIsNothing
<1>1. RowTypes /\ sent \subseteq Messages /\ next \in 1 .. MaxAttachments + 1
  <2>1. CASE att = <<>> /\ sent = {}
    <3>1. Stored = {} BY <2>1 DEF Stored
    <3>2. Cardinality(Stored) = 0 BY <3>1, FS_EmptySet
    <3>3. QED BY <2>1, <3>1, <3>2 DEF Init, RowTypes
  <2>2. CASE \E c \in Legacy, m \in Owners \cup {None} :
               att = [i \in {1} |-> Inline(c, m)] /\ sent = {m} \ {None}
    <3>1. PICK c \in Legacy, m \in Owners \cup {None} :
            att = [i \in {1} |-> Inline(c, m)] /\ sent = {m} \ {None}
      BY <2>2
    <3>2. Stored = {1} BY <3>1 DEF Stored
    <3>3. Cardinality(Stored) = 1 BY <3>2, FS_Singleton
    <3>4. Inline(c, m) \in Attachment BY DEF Inline, Uploaded, Attachment
    <3>5. QED BY <3>1, <3>2, <3>3, <3>4 DEF Init, RowTypes
  <2>3. QED BY <2>1, <2>2 DEF Init
<1>2. UploadTypes BY DEF Init, UploadTypes, Session, Unopened
<1>3. JobTypes BY DEF Init, JobTypes, Job, Idle, Steps
<1>4. JobsAgree BY DEF Init, JobsAgree, DownIsIdle, JobShape, Idle, Assembly
<1>5. /\ objects = {} /\ cites = [m \in Messages |-> {}] /\ serving = FALSE /\ open = TRUE
      /\ crashes = 0 /\ overlapped = {} /\ raced = {} /\ stranded = {}
  BY DEF Init
<1>6. /\ objects \subseteq Contents /\ cites \in [Messages -> SUBSET Ids]
      /\ serving \in BOOLEAN /\ open \in BOOLEAN /\ crashes \in 0 .. MaxCrashes
      /\ overlapped \subseteq Ids /\ raced \subseteq Contents /\ stranded \subseteq Ids
  <2>1. 0 \in 0 .. MaxCrashes OBVIOUS
  <2>2. QED BY <1>5, <2>1
<1>7. TypeOK BY <1>1, <1>2, <1>3, <1>6 DEF TypeOK, RowTypes, UploadTypes, JobTypes
<1>8. QED BY <1>4, <1>7

LEMMA ParsedTypes ==
  ASSUME RowTypes, NEW i, NEW good \in BOOLEAN, NEW p \in BOOLEAN, att' = Indexed(i, good, p)
  PROVE  RowTypes' /\ Stored' = Stored
<1>1. Stored' = Stored BY DEF Indexed, Stored
<1>2. QED BY <1>1 DEF Indexed, RowTypes, Attachment

LEMMA EnlistTypes ==
  ASSUME RowTypes, NEW t, Enlist(t), job[t].id \in Ids, job[t].content \in Contents
  PROVE  RowTypes'
<1>1. Uploaded(job[t].content) \in Attachment BY DEF Uploaded, Attachment
<1>2. Stored' = Stored \cup {job[t].id} BY DEF Enlist, Stored
<1>3. QED BY <1>1, <1>2 DEF Enlist, RowTypes

LEMMA BindTypes ==
  ASSUME RowTypes, UploadTypes, NEW m \in Messages, NEW S, Bind(m, S)
  PROVE  RowTypes' /\ UploadTypes'
<1>1. Stored' = Stored \ Dropped(m, S) BY DEF Bind, Stored
<1>2. \A i \in Stored : [att[i] EXCEPT !.message = m, !.context = TRUE] \in Attachment
  BY DEF RowTypes, Attachment
<1>3. RowTypes' BY <1>1, <1>2 DEF Bind, RowTypes
<1>4. UploadTypes' BY DEF Bind, UploadTypes, Session
<1>5. QED BY <1>3, <1>4

LEMMA ReparseTypes ==
  ASSUME RowTypes, JobTypes, NEW t \in Threads, NEW i, CanReparse(i), StartParsing(t, i)
  PROVE  /\ RowTypes' /\ JobTypes' /\ (overlapped \subseteq Ids => overlapped' \subseteq Ids)
         /\ stranded' \subseteq stranded
<1>1. i \in Stored /\ i \in Ids BY DEF CanReparse, RowTypes
<1>2. Stored' = Stored BY DEF StartParsing, Stored
<1>3. RowTypes' BY <1>1, <1>2 DEF StartParsing, RowTypes, Attachment
<1>4. For(i, "parse") \in Job BY <1>1 DEF For, Idle, Job, Steps
<1>5. QED BY <1>1, <1>3, <1>4 DEF StartParsing, Do, JobTypes

LEMMA TypeStep == TypeOK /\ JobsAgree /\ [Next]_vars => TypeOK'
<1> SUFFICES ASSUME TypeOK, JobsAgree, [Next]_vars PROVE TypeOK'
  OBVIOUS
<1> USE StoreAssumption, NoneIsNothing
<1>t. RowTypes /\ UploadTypes /\ JobTypes BY DEF TypeOK, RowTypes, UploadTypes, JobTypes
<1>i. Idle \in Job BY DEF Idle, Job, Steps
<1>j. \A t \in Threads, s \in Steps : [job[t] EXCEPT !.step = s] \in Job
  BY <1>t DEF JobTypes, Job
<1>f. \A i \in Ids, s \in Steps : For(i, s) \in Job BY DEF For, Idle, Job, Steps
<1>g. \A t \in Threads, s \in Steps : Goto(t, s) => JobTypes'
  BY <1>t, <1>j DEF Goto, Do, JobTypes
<1>d. \A t \in Threads, j \in Job : Do(t, j) => JobTypes' BY <1>t DEF Do, JobTypes
<1>s. \A t \in Threads : JobShape(job[t]) BY DEF JobsAgree
<1> DEFINE Rest == /\ next \in 1 .. MaxAttachments + 1 /\ objects \subseteq Contents
                   /\ cites \in [Messages -> SUBSET Ids] /\ sent \subseteq Messages
                   /\ serving \in BOOLEAN /\ open \in BOOLEAN /\ crashes \in 0 .. MaxCrashes
                   /\ overlapped \subseteq Ids /\ raced \subseteq Contents /\ stranded \subseteq Ids
<1>r. Rest BY DEF TypeOK
<1> DEFINE Kept == RowTypes' /\ UploadTypes' /\ JobTypes' /\ Rest'
<1> SUFFICES Kept
  BY DEF TypeOK, RowTypes, UploadTypes, JobTypes
<1>a. /\ UNCHANGED att => RowTypes' /\ Stored' = Stored
      /\ UNCHANGED upload => UploadTypes'
      /\ UNCHANGED job => JobTypes'
  BY <1>t DEF RowTypes, UploadTypes, JobTypes, Stored
<1>v. \A u \in Uploads, x \in Session : upload' = [upload EXCEPT ![u] = x] => UploadTypes'
  BY <1>t DEF UploadTypes
<1>u. \A u \in Uploads : upload[u] \in Session BY <1>t DEF UploadTypes
<1> USE <1>t, <1>r DEF evidenceVars, marks, process, At
<1>1. ASSUME NEW t \in Threads, NEW c \in Contents, BeginUpload(t, c) PROVE Kept
  <2>1. next \in Ids BY <1>1 DEF BeginUpload
  <2>2. [For(next, "persist") EXCEPT !.content = c] \in Job
    BY <2>1, <1>f DEF Job, Steps
  <2>3. next' \in 1 .. MaxAttachments + 1 BY <1>1 DEF BeginUpload
  <2>4. QED BY <1>1, <1>a, <1>d, <2>2, <2>3 DEF BeginUpload
<1>2. ASSUME NEW t \in Threads, PersistObject(t) PROVE Kept
  BY <1>2, <1>a, <1>g, <1>s DEF PersistObject, JobShape, Steps
<1>3. ASSUME NEW t \in Threads, Register(t) PROVE Kept
  <2>1. job[t].id \in Ids /\ job[t].content \in Contents
    BY <1>3, <1>s DEF Register, JobShape
  <2>2. QED BY <1>3, <2>1, <1>a, <1>d, <1>f, EnlistTypes DEF Register, Enlist, Steps
<1>c. ASSUME NEW t \in Threads, RegisterFails(t) PROVE Kept
  BY <1>c, <1>a, <1>g DEF RegisterFails, Steps
<1>4. ASSUME NEW t \in Threads, CountReferences(t) PROVE Kept
  BY <1>4, <1>a, <1>g, <1>i, <1>d DEF CountReferences, Steps
<1>5. ASSUME NEW t \in Threads, DropObject(t) PROVE Kept
  BY <1>5, <1>a, <1>i, <1>d, <1>s DEF DropObject, Unlink, JobShape
<1>6. ASSUME NEW t \in Threads, NEW i, Reparse(t, i) PROVE Kept
  BY <1>6, <1>a, ReparseTypes DEF Reparse
<1>7. ASSUME NEW t \in Threads, BackgroundParse(t) PROVE Kept
  BY <1>7, <1>a, <1>i, <1>d, ReparseTypes DEF BackgroundParse
<1>8. ASSUME NEW t \in Threads, Parse(t) PROVE Kept
  BY <1>8, <1>a, <1>g DEF Parse, Steps
<1>9. ASSUME NEW t \in Threads, Index(t) PROVE Kept
  BY <1>9, <1>a, <1>i, <1>d, ParsedTypes DEF Index
<1>10. ASSUME NEW t \in Threads, NEW i, Delete(t, i) PROVE Kept
  <2>1. i \in Stored BY <1>10 DEF Delete, CanReparse
  <2>2. Stored' = Stored \ {i} /\ att' = [j \in Stored \ {i} |-> att[j]]
    BY <1>10 DEF Delete, Restrict, Stored
  <2>3. RowTypes' BY <2>2 DEF RowTypes
  <2>4. UploadTypes' BY <1>10 DEF Delete, UploadTypes, Session, Unopened
  <2>5. [Idle EXCEPT !.step = "drop", !.content = att[i].content] \in Job
    BY <2>1 DEF RowTypes, Attachment, Idle, Job, Steps
  <2>6. JobTypes' BY <1>10, <2>5, <1>a, <1>d DEF Delete
  <2>7. QED BY <1>10, <2>3, <2>4, <2>6 DEF Delete
<1>11. ASSUME NEW u \in Uploads, OpenUpload(u) PROVE Kept
  BY <1>11, <1>a DEF OpenUpload, UploadTypes, Session
<1>12. ASSUME NEW u \in Uploads, NEW p \in Parts, WriteChunk(u, p) PROVE Kept
  <2>1. [upload[u].files EXCEPT ![p] = "good"] \in [Parts -> {"none", "good", "bad"}]
    BY <1>u DEF Session
  <2>2. upload[u].received \cup {p} \in SUBSET Parts BY <1>u DEF Session
  <2> DEFINE x == [upload[u] EXCEPT !.received = @ \cup {p},
                                     !.files = [@ EXCEPT ![p] = "good"]]
  <2>a. ASSUME NEW r \in SUBSET Parts, NEW f \in [Parts -> {"none", "good", "bad"}]
        PROVE  [upload[u] EXCEPT !.received = r, !.files = f] \in Session
    BY <1>u DEF Session
  <2>3. x \in Session BY <2>a, <2>1, <2>2
  <2>4. upload' = [upload EXCEPT ![u] = x] BY <1>12, <1>u DEF WriteChunk, UploadTypes, Session
  <2>5. QED BY <1>12, <1>a, <1>v, <2>3, <2>4 DEF WriteChunk
<1>13. ASSUME NEW u \in Uploads, NEW p \in Parts, Damage(u, p) PROVE Kept
  <2>1. PICK f \in {"none", "bad"} : upload' = [upload EXCEPT ![u].files[p] = f]
    BY <1>13 DEF Damage
  <2>2. [upload[u].files EXCEPT ![p] = f] \in [Parts -> {"none", "good", "bad"}]
    BY <1>u DEF Session
  <2> DEFINE x == [upload[u] EXCEPT !.files[p] = f]
  <2>3. x \in Session BY <1>u, <2>2 DEF Session
  <2>4. upload' = [upload EXCEPT ![u] = x] BY <1>u, <2>1 DEF UploadTypes, Session
  <2>5. QED BY <1>13, <1>a, <1>v, <2>3, <2>4 DEF Damage
<1>14. ASSUME NEW u \in Uploads, CancelUpload(u) PROVE Kept
  BY <1>14, <1>a DEF CancelUpload, UploadTypes, Session, Unopened
<1>15. ASSUME NEW t \in Threads, NEW u \in Uploads, Complete(t, u) PROVE Kept
  <2>1. RowTypes' BY <1>15, <1>a DEF Complete
  <2>2. CASE upload[u].status = "completed" /\ upload[u].id # 0
    <3>1. upload[u].id \in Ids BY <2>2 DEF UploadTypes, Session
    <3>2. QED BY <1>15, <2>1, <2>2, <3>1, <1>a, <1>d, <1>f DEF Complete, Steps
  <2>3. CASE ~(upload[u].status = "completed" /\ upload[u].id # 0)
    <3>1. CASE Bad(u) # {}
      <4>1. [p \in Parts |-> IF p \in Bad(u) THEN "none" ELSE upload[u].files[p]]
              \in [Parts -> {"none", "good", "bad"}]
        BY <1>u DEF Session
      <4>2. upload[u].received \ Bad(u) \in SUBSET Parts BY <1>u DEF Session
      <4>3. UploadTypes' BY <1>15, <2>3, <3>1, <4>1, <4>2, <1>u DEF Complete, UploadTypes, Session
      <4>4. QED BY <1>15, <2>1, <2>3, <3>1, <4>3, <1>a DEF Complete
    <3>2. CASE Bad(u) = {}
      <4>0. next \in Ids BY <1>15, <2>3, <3>2 DEF Complete
      <4>1. ContentOf[u] \in Contents OBVIOUS
      <4>2. [For(next, "assemble") EXCEPT !.content = ContentOf[u], !.upload = u] \in Job
        BY <4>0, <4>1 DEF For, Idle, Job, Steps
      <4>3. upload' = [upload EXCEPT ![u].status = "assembling"]
        BY <1>15, <2>3, <3>2 DEF Complete
      <4>4. UploadTypes' BY <4>3 DEF UploadTypes, Session
      <4>5. next' \in 1 .. MaxAttachments + 1 BY <4>0, <1>15, <2>3, <3>2 DEF Complete
      <4>6. QED BY <1>15, <2>1, <2>3, <3>2, <4>2, <4>4, <4>5, <1>d DEF Complete
    <3>3. QED BY <3>1, <3>2
  <2>4. QED BY <2>2, <2>3
<1>16. ASSUME NEW t \in Threads, Assemble(t) PROVE Kept
  BY <1>16, <1>a, <1>g, <1>s DEF Assemble, JobShape, Steps
<1>17. ASSUME NEW t \in Threads, AssemblyFails(t) PROVE Kept
  <2>1. job[t].upload \in Uploads BY <1>17, <1>s DEF AssemblyFails, JobShape, Assembly
  <2>2. [upload[job[t].upload] EXCEPT !.status = "uploading"] \in Session BY <1>u, <2>1 DEF Session
  <2>3. UploadTypes' BY <1>17, <1>v, <2>1, <2>2 DEF AssemblyFails
  <2>4. job[t].id \in Ids BY <1>17, <1>s DEF AssemblyFails, JobShape
  <2>5. Rest'
    <3>1. CASE UNCHANGED <<objects, marks>> BY <1>17, <3>1 DEF AssemblyFails
    <3>2. CASE job[t].step = "enroll" /\ Unlink(t)
      BY <1>17, <1>s, <3>2 DEF AssemblyFails, JobShape, Unlink
    <3>3. CASE stranded' = stranded \cup {job[t].id} /\ UNCHANGED <<objects, overlapped, raced>>
      BY <1>17, <2>4, <3>3 DEF AssemblyFails
    <3>4. QED BY <1>17, <3>1, <3>2, <3>3 DEF AssemblyFails
  <2>6. QED BY <1>17, <1>a, <1>i, <1>d, <2>3, <2>5 DEF AssemblyFails
<1>18. ASSUME NEW t \in Threads, Enroll(t) PROVE Kept
  <2>1. job[t].id \in Ids /\ job[t].content \in Contents
    BY <1>18, <1>s DEF Enroll, JobShape, Assembly
  <2>2. QED BY <1>18, <2>1, <1>a, <1>g, EnlistTypes DEF Enroll, Enlist, Steps
<1>19. ASSUME NEW t \in Threads, FinishUpload(t) PROVE Kept
  <2>1. job[t].id \in Ids BY <1>19, <1>s DEF FinishUpload, JobShape, Assembly
  <2>2. UploadTypes' BY <1>19, <2>1 DEF FinishUpload, UploadTypes, Session, Unopened
  <2>3. QED BY <1>19, <2>1, <2>2, <1>a, <1>d, <1>f DEF FinishUpload, Steps
<1>b. ASSUME NEW m \in Messages, NEW S \in SUBSET Ready, Refers(m, S) \/ Plain(m, S)
      PROVE  RowTypes' /\ UploadTypes' /\ cites' \in [Messages -> SUBSET Ids]
  BY <1>b, BindTypes DEF Refers, Plain, Ready, RowTypes
<1>20. ASSUME NEW m \in Messages, Append(m) PROVE Kept
  BY <1>20, <1>a, <1>b DEF Append
<1>k. \A m \in Messages : StaleFor(m) \in [Threads -> Job]
  BY <1>i DEF StaleFor, JobTypes
<1>21. ASSUME NEW m \in Messages, Edit(m) PROVE Kept
  BY <1>21, <1>b, <1>k DEF Edit, JobTypes
<1>22. ASSUME NEW t \in Threads, NEW m \in Messages, PrepareEdit(t, m) PROVE Kept
  <2>1. PICK C \in SUBSET Ready : Do(t, [Idle EXCEPT !.step = "answering", !.message = m, !.evidence = C])
    BY <1>22 DEF PrepareEdit
  <2>2. C \subseteq Ids BY DEF Ready, RowTypes
  <2>3. [Idle EXCEPT !.step = "answering", !.message = m, !.evidence = C] \in Job
    BY <2>2 DEF Idle, Job, Steps
  <2>4. QED BY <1>22, <2>1, <2>3, <1>a, <1>d DEF PrepareEdit
<1>23. ASSUME NEW t \in Threads, CommitEdit(t) PROVE Kept
  <2>1. job[t].message \in Messages /\ job[t].evidence \subseteq Ids
    BY <1>23, <1>s DEF CommitEdit, JobShape, JobTypes, Job
  <2>2. RowTypes' /\ UploadTypes' BY <1>23, <2>1, BindTypes DEF CommitEdit, Plain
  <2>3. cites' \in [Messages -> SUBSET Ids] BY <1>23, <2>1 DEF CommitEdit, Plain
  <2>4. QED BY <1>23, <2>1, <2>2, <2>3, <1>k DEF CommitEdit, JobTypes
<1>24. ASSUME NEW t \in Threads, AbandonEdit(t) PROVE Kept
  BY <1>24, <1>a, <1>i, <1>d DEF AbandonEdit
<1>25. CASE Prune BY <1>25, <1>a DEF Prune
<1>26. CASE Crash
  <2>1. JobTypes' BY <1>26, <1>i DEF Crash, JobTypes
  <2>2. crashes' \in 0 .. MaxCrashes BY <1>26 DEF Crash
  <2>3. QED BY <1>26, <1>a, <2>1, <2>2 DEF Crash
<1>27. ASSUME NEW i \in Stored, MigrateLegacy(i) PROVE Kept
  <2>1. Stored' = Stored BY <1>27 DEF MigrateLegacy, Stored
  <2>2. att[i].content \in Contents BY DEF RowTypes, Attachment
  <2>3. [att[i] EXCEPT !.filed = TRUE, !.parse = "processing"] \in Attachment
    BY DEF RowTypes, Attachment
  <2>4. RowTypes' BY <1>27, <2>1, <2>3 DEF MigrateLegacy, RowTypes
  <2>5. QED BY <1>27, <2>2, <2>4, <1>a DEF MigrateLegacy
<1>28. ASSUME NEW i \in Stored, ResumeParsing(i) PROVE Kept
  <2>1. Preserved(i) \in BOOLEAN BY DEF Preserved, RowTypes, Attachment
  <2>2. QED BY <1>28, <2>1, <1>a, ParsedTypes DEF ResumeParsing
<1>29. CASE Serve
  <2>1. ASSUME NEW s \in Session PROVE Resumed(s) \in Session
    <3>1. [p \in Parts |-> IF s.files[p] = "bad" THEN "none" ELSE s.files[p]]
            \in [Parts -> {"none", "good", "bad"}]
      BY DEF Session
    <3>2. {p \in s.received : s.files[p] = "good"} \in SUBSET Parts BY DEF Session
    <3>3. QED BY <3>1, <3>2 DEF Resumed, Session
  <2>2. UploadTypes' BY <1>29, <1>u, <2>1 DEF Serve, UploadTypes
  <2>3. QED BY <1>29, <1>a, <2>2 DEF Serve, Swept
<1>30. CASE UNCHANGED vars BY <1>30, <1>a DEF vars
<1>31. QED
  BY <1>c, <1>1, <1>2, <1>3, <1>4, <1>5, <1>6, <1>7, <1>8, <1>9, <1>10, <1>11, <1>12, <1>13, <1>14,
     <1>15, <1>16, <1>17, <1>18, <1>19, <1>20, <1>21, <1>22, <1>23, <1>24, <1>25, <1>26, <1>27,
     <1>28, <1>29, <1>30
     DEF Next, Requests, Continue, Client, Start

(* A step of a thread leaves the jobs of the others alone.                 *)
LEMMA OneJob ==
  ASSUME JobTypes, JobsAgree, serving, serving' = serving,
         NEW t \in Threads, NEW j, Do(t, j), JobShape(j)
  PROVE  JobsAgree'
  BY DEF JobTypes, JobsAgree, DownIsIdle, Do, JobShape, Assembly, Ids

LEMMA JobsStep == TypeOK /\ JobsAgree /\ [Next]_vars => JobsAgree'
<1> SUFFICES ASSUME TypeOK, JobsAgree, [Next]_vars PROVE JobsAgree'
  OBVIOUS
<1> USE StoreAssumption, NoneIsNothing DEF At, process
<1>t. RowTypes /\ UploadTypes /\ JobTypes BY DEF TypeOK, RowTypes, UploadTypes, JobTypes
<1>s. \A t \in Threads : JobShape(job[t]) BY DEF JobsAgree
<1>i. JobShape(Idle) BY DEF JobShape, Idle, Assembly
<1>q. \A i \in Ids, s \in {"queued", "parse"} : JobShape(For(i, s))
  BY DEF JobShape, For, Idle, Assembly
<1>k. UNCHANGED <<job, serving>> => JobsAgree'
  BY DEF JobsAgree, DownIsIdle, JobShape, Assembly
<1>d. ASSUME NEW t \in Threads, serving, serving' = serving, Do(t, Idle) PROVE JobsAgree'
  BY <1>d, <1>t, <1>i, OneJob
<1>e. ASSUME NEW t \in Threads, serving, serving' = serving, NEW i \in Ids,
             NEW s \in {"queued", "parse"}, Do(t, For(i, s))
      PROVE  JobsAgree'
  BY <1>e, <1>t, <1>q, OneJob
<1>g. ASSUME NEW t \in Threads, serving, serving' = serving, NEW s, Goto(t, s),
             JobShape([job[t] EXCEPT !.step = s])
      PROVE  JobsAgree'
  BY <1>g, <1>t, OneJob DEF Goto
<1>h. ASSUME NEW t \in Threads PROVE job[t] \in Job BY <1>t DEF JobTypes
<1>m. ASSUME NEW m \in Messages, job' = StaleFor(m), serving, serving' = serving PROVE JobsAgree'
  BY <1>m, <1>i, <1>s DEF JobsAgree, DownIsIdle, StaleFor, JobShape, Assembly
<1>1. ASSUME NEW t \in Threads, NEW c \in Contents, BeginUpload(t, c) PROVE JobsAgree'
  <2>1. next \in Ids BY <1>1 DEF BeginUpload, TypeOK
  <2>2. JobShape([For(next, "persist") EXCEPT !.content = c])
    BY <2>1 DEF JobShape, For, Idle, Assembly
  <2>3. QED BY <1>1, <2>2, <1>t, OneJob DEF BeginUpload
<1>2. ASSUME NEW t \in Threads, PersistObject(t) PROVE JobsAgree'
  <2>1. JobShape([job[t] EXCEPT !.step = "register"])
    BY <1>2, <1>s, <1>h DEF PersistObject, JobShape, Job, Assembly
  <2>2. QED BY <1>2, <2>1, <1>g DEF PersistObject
<1>3. ASSUME NEW t \in Threads, Register(t) PROVE JobsAgree'
  <2>1. job[t].id \in Ids BY <1>3, <1>s DEF Register, JobShape
  <2>2. QED BY <1>3, <2>1, <1>e DEF Register
<1>c. ASSUME NEW t \in Threads, RegisterFails(t) PROVE JobsAgree'
  <2>1. JobShape([job[t] EXCEPT !.step = "count"])
    BY <1>c, <1>s, <1>h DEF RegisterFails, JobShape, Job, Assembly
  <2>2. QED BY <1>c, <2>1, <1>g DEF RegisterFails
<1>4. ASSUME NEW t \in Threads, CountReferences(t) PROVE JobsAgree'
  <2>1. JobShape([job[t] EXCEPT !.step = "drop"])
    BY <1>4, <1>s, <1>h DEF CountReferences, JobShape, Job, Assembly
  <2>2. QED BY <1>4, <2>1, <1>d, <1>g DEF CountReferences
<1>5. ASSUME NEW t \in Threads, DropObject(t) PROVE JobsAgree'
  BY <1>5, <1>d DEF DropObject
<1>6. ASSUME NEW t \in Threads, NEW i, Reparse(t, i) PROVE JobsAgree'
  BY <1>6, <1>e, <1>t DEF Reparse, CanReparse, StartParsing, RowTypes
<1>7. ASSUME NEW t \in Threads, BackgroundParse(t) PROVE JobsAgree'
  BY <1>7, <1>d, <1>e, <1>t DEF BackgroundParse, CanReparse, StartParsing, RowTypes
<1>8. ASSUME NEW t \in Threads, Parse(t) PROVE JobsAgree'
  <2>1. \A s \in {"index", "spoiled"} : JobShape([job[t] EXCEPT !.step = s])
    BY <1>8, <1>s, <1>h DEF Parse, JobShape, Job, Assembly
  <2>2. QED BY <1>8, <2>1, <1>g DEF Parse
<1>9. ASSUME NEW t \in Threads, Index(t) PROVE JobsAgree'
  BY <1>9, <1>d DEF Index
<1>10. ASSUME NEW t \in Threads, NEW i, Delete(t, i) PROVE JobsAgree'
  <2>1. i \in Stored BY <1>10 DEF Delete, CanReparse
  <2>2. JobShape([Idle EXCEPT !.step = "drop", !.content = att[i].content])
    BY <2>1, <1>t DEF RowTypes, Attachment, JobShape, Idle, Assembly
  <2>3. QED BY <1>10, <2>2, <1>t, <1>k, OneJob DEF Delete
<1>11. ASSUME NEW u \in Uploads, OpenUpload(u) \/ CancelUpload(u) PROVE JobsAgree'
  BY <1>11, <1>k DEF OpenUpload, CancelUpload
<1>12. ASSUME NEW u \in Uploads, NEW p \in Parts, WriteChunk(u, p) \/ Damage(u, p) PROVE JobsAgree'
  BY <1>12, <1>k DEF WriteChunk, Damage
<1>13. ASSUME NEW t \in Threads, NEW u \in Uploads, Complete(t, u) PROVE JobsAgree'
  <2>1. CASE upload[u].status = "completed" /\ upload[u].id # 0
    <3>1. upload[u].id \in Ids BY <2>1, <1>t DEF UploadTypes, Session
    <3>2. QED BY <1>13, <2>1, <3>1, <1>e DEF Complete
  <2>2. CASE ~(upload[u].status = "completed" /\ upload[u].id # 0)
    <3>1. CASE Bad(u) # {} BY <1>13, <2>2, <3>1, <1>k DEF Complete
    <3>2. CASE Bad(u) = {}
      <4>1. next \in Ids BY <1>13, <2>2, <3>2 DEF Complete, TypeOK
      <4>2. JobShape([For(next, "assemble") EXCEPT !.content = ContentOf[u], !.upload = u])
        BY <4>1 DEF JobShape, For, Idle, Assembly
      <4>3. QED BY <1>13, <2>2, <3>2, <4>2, <1>t, OneJob DEF Complete
    <3>3. QED BY <3>1, <3>2
  <2>3. QED BY <2>1, <2>2
<1>14. ASSUME NEW t \in Threads, Assemble(t) PROVE JobsAgree'
  <2>1. JobShape([job[t] EXCEPT !.step = "enroll"])
    BY <1>14, <1>s, <1>h DEF Assemble, JobShape, Job, Assembly
  <2>2. QED BY <1>14, <2>1, <1>g DEF Assemble
<1>15. ASSUME NEW t \in Threads, AssemblyFails(t) PROVE JobsAgree'
  BY <1>15, <1>d DEF AssemblyFails
<1>16. ASSUME NEW t \in Threads, Enroll(t) PROVE JobsAgree'
  <2>1. JobShape([job[t] EXCEPT !.step = "finish"])
    BY <1>16, <1>s, <1>h DEF Enroll, JobShape, Job, Assembly
  <2>2. QED BY <1>16, <2>1, <1>g DEF Enroll
<1>17. ASSUME NEW t \in Threads, FinishUpload(t) PROVE JobsAgree'
  <2>1. job[t].id \in Ids BY <1>17, <1>s DEF FinishUpload, JobShape, Assembly
  <2>2. QED BY <1>17, <2>1, <1>e DEF FinishUpload
<1>18. ASSUME NEW m \in Messages, Append(m) PROVE JobsAgree'
  BY <1>18, <1>k DEF Append
<1>19. ASSUME NEW m \in Messages, Edit(m) PROVE JobsAgree'
  BY <1>19, <1>m DEF Edit, Unlocked
<1>20. ASSUME NEW t \in Threads, NEW m \in Messages, PrepareEdit(t, m) PROVE JobsAgree'
  <2>1. PICK C \in SUBSET Ready : Do(t, [Idle EXCEPT !.step = "answering", !.message = m, !.evidence = C])
    BY <1>20 DEF PrepareEdit
  <2>2. JobShape([Idle EXCEPT !.step = "answering", !.message = m, !.evidence = C])
    BY DEF JobShape, Idle, Assembly
  <2>3. QED BY <1>20, <2>1, <2>2, <1>t, OneJob DEF PrepareEdit
<1>21. ASSUME NEW t \in Threads, CommitEdit(t) PROVE JobsAgree'
  <2>1. job[t].message \in Messages BY <1>21, <1>s, <1>h DEF CommitEdit, JobShape, Job
  <2>2. QED BY <1>21, <2>1, <1>m DEF CommitEdit, Unlocked
<1>22. ASSUME NEW t \in Threads, AbandonEdit(t) PROVE JobsAgree'
  BY <1>22, <1>d DEF AbandonEdit
<1>23. CASE Prune BY <1>23, <1>k DEF Prune
<1>24. CASE Crash
  BY <1>24, <1>i DEF Crash, JobsAgree, DownIsIdle, JobShape, Assembly
<1>25. ASSUME NEW i, MigrateLegacy(i) \/ ResumeParsing(i) PROVE JobsAgree'
  BY <1>25, <1>k DEF MigrateLegacy, ResumeParsing
<1>26. CASE Serve BY <1>26, <1>s DEF Serve, JobsAgree, DownIsIdle, JobShape, Assembly
<1>27. CASE UNCHANGED vars BY <1>27, <1>k DEF vars
<1>28. QED
  BY <1>c, <1>1, <1>2, <1>3, <1>4, <1>5, <1>6, <1>7, <1>8, <1>9, <1>10, <1>11, <1>12, <1>13, <1>14,
     <1>15, <1>16, <1>17, <1>18, <1>19, <1>20, <1>21, <1>22, <1>23, <1>24, <1>25, <1>26, <1>27
     DEF Next, Requests, Continue, Client, Start
-----------------------------------------------------------------------------
(* What messages cite.                                                     *)

(* Where the rows are Stored with other contents, new or bound, the        *)
(* evidence of messages stays.                                             *)
LEMMA RowsKept ==
  ASSUME EvidenceStays, UNCHANGED cites,
         \A i \in Stored : i \in Stored' /\ (att[i].chunks => att'[i].chunks)
  PROVE  EvidenceStays'
  BY DEF EvidenceStays

LEMMA BindKeeps ==
  ASSUME RowTypes, EvidenceStays, NEW m \in Messages, NEW S, Bind(m, S)
  PROVE  /\ Stored' = Stored \ Dropped(m, S)
         /\ \A i \in Stored' : att'[i].chunks = att[i].chunks /\ att'[i].filed = att[i].filed
         /\ \A n \in Messages : \A i \in cites[n] : i \in Stored' /\ att'[i].chunks
<1>1. Stored' = Stored \ Dropped(m, S) BY DEF Bind, Stored
<1>2. \A i \in Stored' : att'[i].chunks = att[i].chunks /\ att'[i].filed = att[i].filed
  BY <1>1 DEF Bind, RowTypes, Attachment
<1>3. \A n \in Messages : \A i \in cites[n] : i \in Stored /\ i \notin Dropped(m, S) /\ att[i].chunks
  BY DEF Bind, Erasable, EvidenceStays
<1>4. QED BY <1>1, <1>2, <1>3

LEMMA MessageKeeps ==
  ASSUME TypeOK, EvidenceStays, NEW m \in Messages, NEW S, Refers(m, S) \/ Plain(m, S)
  PROVE  EvidenceStays'
<1>t. RowTypes /\ cites \in [Messages -> SUBSET Ids] BY DEF TypeOK, RowTypes
<1>1. CASE Refers(m, S) BY <1>1, <1>t, BindKeeps DEF Refers, EvidenceStays
<1>2. CASE Plain(m, S)
  <2>1. Stored' = Stored \ BoundTo(m) /\ Bind(m, {})
    BY <1>2, <1>t, BindKeeps DEF Plain, Dropped
  <2>2. \A i \in S : i \in Stored' /\ att'[i].chunks
    BY <1>2, <1>t, <2>1, BindKeeps DEF Plain, Citable
  <2>3. QED BY <1>2, <1>t, <2>1, <2>2, BindKeeps DEF Plain, EvidenceStays
<1>3. QED BY <1>1, <1>2

LEMMA ParsedKeeps ==
  ASSUME RowTypes, NEW i, NEW good \in BOOLEAN, NEW p \in BOOLEAN, att' = Indexed(i, good, p)
  PROVE  /\ Stored' = Stored
         /\ \A j \in Stored : /\ att[j].chunks => att'[j].chunks
                              /\ att'[j].filed = att[j].filed /\ att'[j].content = att[j].content
                              /\ att'[j].message = att[j].message
  BY ParsedTypes DEF Indexed, RowTypes, Attachment

LEMMA ParsedOthers ==
  ASSUME RowTypes, NEW i, NEW good, NEW p, att' = Indexed(i, good, p)
  PROVE  Stored' = Stored /\ \A j \in Stored \ {i} : att'[j] = att[j]
<1>1. Stored' = Stored BY DEF Indexed, Stored
<1>2. \A j \in Stored \ {i} : att'[j] = att[j] BY DEF Indexed, RowTypes
<1>3. QED BY <1>1, <1>2

LEMMA EnlistKeeps ==
  ASSUME RowTypes, NEW t, Enlist(t)
  PROVE  /\ Stored' = Stored \cup {job[t].id}
         /\ \A i \in Stored : att'[i] = att[i]
         /\ job[t].id \notin Stored => att'[job[t].id] = Uploaded(job[t].content)
  BY DEF Enlist, Stored

LEMMA DeleteKeeps ==
  ASSUME NEW t, NEW i, Delete(t, i)
  PROVE  /\ Stored' = Stored \ {i} /\ \A j \in Stored' : att'[j] = att[j]
         /\ i \in Stored /\ att[i].message = None /\ i \notin Cited
  BY DEF Delete, Restrict, Stored, CanReparse

LEMMA ReparseKeeps ==
  ASSUME RowTypes, NEW t, NEW i, CanReparse(i), StartParsing(t, i)
  PROVE  /\ i \in Stored /\ Stored' = Stored /\ att[i].message = None /\ i \notin Cited
         /\ att'[i].parse = "processing" /\ att'[i].chunks = att[i].chunks
         /\ att'[i].filed = att[i].filed /\ att'[i].content = att[i].content
         /\ att'[i].message = att[i].message /\ att'[i].context = att[i].context
         /\ \A j \in Stored \ {i} : att'[j] = att[j]
  BY DEF StartParsing, CanReparse, Stored, RowTypes, Attachment

LEMMA EvidenceStep == TypeOK /\ JobsAgree /\ EvidenceStays /\ [Next]_vars => EvidenceStays'
<1> SUFFICES ASSUME TypeOK, JobsAgree, EvidenceStays, [Next]_vars PROVE EvidenceStays'
  OBVIOUS
<1> USE DEF evidenceVars
<1>t. RowTypes /\ JobTypes BY DEF TypeOK, RowTypes, JobTypes
<1>k. UNCHANGED <<att, cites>> => EvidenceStays' BY DEF EvidenceStays, Stored
<1>1. ASSUME NEW t \in Threads, Register(t) \/ Enroll(t) PROVE EvidenceStays'
  BY <1>1, <1>t, <1>k, EnlistKeeps, RowsKept DEF Register, Enroll
<1>2. ASSUME NEW t \in Threads, BackgroundParse(t) PROVE EvidenceStays'
  BY <1>2, <1>t, <1>k, ReparseKeeps, RowsKept DEF BackgroundParse
<1>3. ASSUME NEW t \in Threads, NEW i, Reparse(t, i) PROVE EvidenceStays'
  BY <1>3, <1>t, ReparseKeeps, RowsKept DEF Reparse
<1>4. ASSUME NEW t \in Threads, NEW i, Delete(t, i) PROVE EvidenceStays'
  BY <1>4, DeleteKeeps DEF Delete, EvidenceStays, Cited
<1>5. ASSUME NEW t \in Threads, Index(t) PROVE EvidenceStays'
  BY <1>5, <1>t, ParsedKeeps, RowsKept DEF Index
<1>6. ASSUME NEW m \in Messages, Append(m) \/ Edit(m) PROVE EvidenceStays'
  BY <1>6, MessageKeeps DEF Append, Edit
<1>7. ASSUME NEW t \in Threads, CommitEdit(t) PROVE EvidenceStays'
  <2>1. job[t].message \in Messages
    BY <1>7, <1>t DEF CommitEdit, At, JobsAgree, JobShape, JobTypes, Job
  <2>2. QED BY <1>7, <2>1, MessageKeeps DEF CommitEdit
<1>8. ASSUME NEW i \in Stored, MigrateLegacy(i) PROVE EvidenceStays'
  <2>1. Stored' = Stored BY <1>8 DEF MigrateLegacy, Stored
  <2>2. \A j \in Stored : att'[j].chunks = att[j].chunks
    BY <1>8, <1>t DEF MigrateLegacy, RowTypes, Attachment
  <2>3. QED BY <1>8, <2>1, <2>2, RowsKept DEF MigrateLegacy
<1>9. ASSUME NEW i \in Stored, ResumeParsing(i) PROVE EvidenceStays'
  <2>1. Preserved(i) \in BOOLEAN BY <1>t DEF Preserved, RowTypes, Attachment
  <2>2. QED BY <1>9, <1>t, <2>1, ParsedKeeps, RowsKept DEF ResumeParsing
<1>10. ASSUME UNCHANGED <<att, cites>> PROVE EvidenceStays'
  BY <1>10, <1>k
<1>11. QED
  BY <1>1, <1>2, <1>3, <1>4, <1>5, <1>6, <1>7, <1>8, <1>9, <1>10
     DEF Next, Requests, Continue, Client, Start, vars, BeginUpload, PersistObject,
         RegisterFails, CountReferences, DropObject, Parse, OpenUpload, CancelUpload,
         WriteChunk, Damage, Complete, Assemble, AssemblyFails, FinishUpload, PrepareEdit, AbandonEdit, Prune,
         Crash, Serve

LEMMA InlineStep == TypeOK /\ JobsAgree /\ EvidenceStays /\ InlineIsOld /\ [Next]_vars => InlineIsOld'
<1> SUFFICES ASSUME TypeOK, JobsAgree, EvidenceStays, InlineIsOld, [Next]_vars PROVE InlineIsOld'
  OBVIOUS
<1> USE DEF process
<1>t. RowTypes /\ JobTypes BY DEF TypeOK, RowTypes, JobTypes
<1> DEFINE AllFiled == \A i \in Stored : att[i].filed
<1>f. serving => AllFiled BY DEF InlineIsOld
<1>k. UNCHANGED <<att, serving>> => InlineIsOld' BY DEF InlineIsOld, Stored
<1>n. AllFiled' => InlineIsOld' BY DEF InlineIsOld
<1>1. ASSUME NEW t \in Threads, Register(t) \/ Enroll(t) PROVE InlineIsOld'
  <2>1. AllFiled BY <1>1, <1>f DEF Register, Enroll, At
  <2>2. Uploaded(job[t].content).filed BY DEF Uploaded
  <2>3. Enlist(t) BY <1>1 DEF Register, Enroll
  <2>4. QED BY <2>1, <2>2, <2>3, <1>n, <1>t, EnlistKeeps
<1>2. ASSUME NEW t \in Threads, BackgroundParse(t) PROVE InlineIsOld'
  BY <1>2, <1>t, <1>f, <1>n, <1>k, ReparseKeeps DEF BackgroundParse, At
<1>3. ASSUME NEW t \in Threads, NEW i, Reparse(t, i) PROVE InlineIsOld'
  BY <1>3, <1>t, <1>f, <1>n, ReparseKeeps DEF Reparse, At
<1>4. ASSUME NEW t \in Threads, NEW i, Delete(t, i) PROVE InlineIsOld'
  BY <1>4, <1>f, <1>n, DeleteKeeps DEF Delete, At
<1>5. ASSUME NEW t \in Threads, Index(t) PROVE InlineIsOld'
  BY <1>5, <1>t, <1>f, <1>n, ParsedKeeps DEF Index
<1>6. ASSUME NEW m \in Messages, NEW S, Unlocked, Refers(m, S) \/ Plain(m, S) PROVE InlineIsOld'
  BY <1>6, <1>t, <1>f, <1>n, BindKeeps DEF Refers, Plain, Unlocked
<1>7. ASSUME NEW m \in Messages, Append(m) \/ Edit(m) PROVE InlineIsOld'
  BY <1>6, <1>7 DEF Append, Edit
<1>8. ASSUME NEW t \in Threads, CommitEdit(t) PROVE InlineIsOld'
  <2>1. job[t].message \in Messages
    BY <1>8, <1>t DEF CommitEdit, At, JobsAgree, JobShape, JobTypes, Job
  <2>2. QED BY <1>6, <1>8, <2>1 DEF CommitEdit
<1>9. ASSUME NEW i \in Stored, MigrateLegacy(i) PROVE InlineIsOld'
  <2>1. Stored' = Stored BY <1>9 DEF MigrateLegacy, Stored
  <2>2. att'[i].filed /\ \A j \in Stored \ {i} : att'[j] = att[j]
    BY <1>9, <1>t DEF MigrateLegacy, RowTypes, Attachment
  <2>3. QED BY <1>9, <2>1, <2>2 DEF MigrateLegacy, InlineIsOld
<1>10. ASSUME NEW i \in Stored, ResumeParsing(i) PROVE InlineIsOld'
  <2>1. Preserved(i) \in BOOLEAN BY <1>t DEF Preserved, RowTypes, Attachment
  <2>2. att[i].filed /\ UNCHANGED serving BY <1>10 DEF ResumeParsing
  <2>3. PICK good \in BOOLEAN : att' = Indexed(i, good, Preserved(i)) BY <1>10 DEF ResumeParsing
  <2>4. Stored' = Stored /\ \A j \in Stored \ {i} : att'[j] = att[j]
    BY <2>3, <1>t, ParsedOthers
  <2>5. att'[i].filed BY <2>1, <2>2, <2>3, <1>t, ParsedKeeps
  <2>6. QED BY <2>2, <2>4, <2>5 DEF InlineIsOld
<1>11. CASE Crash BY <1>11 DEF Crash, InlineIsOld, Stored
<1>12. CASE Serve BY <1>12 DEF Serve, InlineIsOld, Stored
<1>13. ASSUME UNCHANGED <<att, serving>> PROVE InlineIsOld'
  BY <1>13, <1>k
<1>14. QED
  BY <1>1, <1>2, <1>3, <1>4, <1>5, <1>7, <1>8, <1>9, <1>10, <1>11, <1>12, <1>13
     DEF Next, Requests, Continue, Client, Start, vars, BeginUpload, PersistObject,
         RegisterFails, CountReferences, DropObject, Parse, OpenUpload, CancelUpload,
         WriteChunk, Damage, Complete, Assemble, AssemblyFails, FinishUpload, PrepareEdit, AbandonEdit, Prune
-----------------------------------------------------------------------------
(* Parsers, and what they may not change.                                  *)

(* A step that lets no thread begin to parse.                              *)
NoNewParser == \A t \in Threads : \A i : ParserOf(t, i)' => ParserOf(t, i)
ParserSteps == {"parse", "index", "spoiled"}

LEMMA OtherJob ==
  ASSUME JobTypes, NEW t \in Threads, NEW j, Do(t, j),
         j.step \notin ParserSteps \/ (j.id = job[t].id /\ job[t].step \in ParserSteps)
  PROVE  NoNewParser
  BY DEF JobTypes, Do, NoNewParser, ParserOf, ParserSteps

LEMMA ParsersKept ==
  ASSUME ParsersAgree, NoNewParser, overlapped \subseteq overlapped',
         \A i \in Stored' : i \in Stored /\ InProgress(i) => att'[i].parse = "processing",
         \A i \in Stored' \ Stored : att'[i].parse = "processing"
  PROVE  ParsersAgree'
<1>1. ASSUME NEW t \in Threads, NEW i \in Stored', i \notin overlapped', ParserOf(t, i)'
      PROVE  InProgress(i)'
  BY <1>1 DEF ParsersAgree, NoNewParser, InProgress
<1>2. ASSUME NEW t \in Threads, NEW u \in Threads, NEW i \in Ids, i \notin overlapped',
             ParserOf(t, i)', ParserOf(u, i)'
      PROVE  t = u
  BY <1>2 DEF ParsersAgree, NoNewParser
<1>3. QED BY <1>1, <1>2 DEF ParsersAgree

(* StartParsing marks the attachment, and either it is the only parser or  *)
(* the attachment is overlapped.                                           *)
LEMMA StartKeeps ==
  ASSUME RowTypes, JobTypes, ParsersAgree, NEW t \in Threads, job[t].step \notin ParserSteps,
         NEW i, CanReparse(i), StartParsing(t, i)
  PROVE  ParsersAgree'
<1>1. /\ i \in Stored /\ Stored' = Stored /\ att'[i].parse = "processing"
      /\ \A j \in Stored \ {i} : att'[j] = att[j]
  BY ReparseKeeps
<1>2. \A u \in Threads : \A j : ParserOf(u, j)' => ParserOf(u, j) \/ (u = t /\ j = i)
  BY DEF StartParsing, Do, For, Idle, JobTypes, ParserOf, ParserSteps
<1>3. \A u \in Threads : ParserOf(u, i) => i \in overlapped'
  BY DEF StartParsing, Parsing, ParserOf
<1>4. overlapped \subseteq overlapped' BY DEF StartParsing
<1>5. ASSUME NEW u \in Threads, NEW j \in Stored', j \notin overlapped', ParserOf(u, j)'
      PROVE  InProgress(j)'
  BY <1>1, <1>2, <1>4, <1>5 DEF ParsersAgree, InProgress
<1>6. ASSUME NEW u \in Threads, NEW v \in Threads, NEW j \in Ids, j \notin overlapped',
             ParserOf(u, j)', ParserOf(v, j)'
      PROVE  u = v
  BY <1>2, <1>3, <1>4, <1>6 DEF ParsersAgree
<1>7. QED BY <1>5, <1>6 DEF ParsersAgree

LEMMA ParsersStep == TypeOK /\ JobsAgree /\ EvidenceStays /\ ParsersAgree /\ [Next]_vars => ParsersAgree'
<1> SUFFICES ASSUME TypeOK, JobsAgree, EvidenceStays, ParsersAgree, [Next]_vars PROVE ParsersAgree'
  OBVIOUS
<1> USE DEF At, marks
<1>t. RowTypes /\ JobTypes BY DEF TypeOK, RowTypes, JobTypes
<1>r. UNCHANGED att => Stored' = Stored BY DEF Stored
<1>n. UNCHANGED job => NoNewParser BY DEF NoNewParser, ParserOf
<1>k. ASSUME UNCHANGED att, NoNewParser, overlapped \subseteq overlapped' PROVE ParsersAgree'
  BY <1>k, <1>r, ParsersKept DEF InProgress
<1>o. ASSUME NEW t \in Threads, NEW j, Do(t, j), j.step \notin ParserSteps PROVE NoNewParser
  BY <1>o, <1>t, OtherJob
<1>g. ASSUME NEW t \in Threads, NEW q, Goto(t, q),
             q \notin ParserSteps \/ job[t].step \in ParserSteps
      PROVE  NoNewParser
  <2>1. [job[t] EXCEPT !.step = q].step = q /\ [job[t] EXCEPT !.step = q].id = job[t].id
    BY <1>t DEF JobTypes, Job
  <2>2. QED BY <1>g, <1>t, <2>1, OtherJob DEF Goto
<1>i. \A t \in Threads : Do(t, Idle) => NoNewParser BY <1>o DEF Idle, ParserSteps
<1>q. \A t \in Threads : \A i : Do(t, For(i, "queued")) => NoNewParser
  BY <1>o DEF For, Idle, ParserSteps
<1>m. ASSUME NEW m \in Messages, job' = StaleFor(m) PROVE NoNewParser
  BY <1>m DEF StaleFor, NoNewParser, ParserOf, Idle
<1>b. ASSUME NEW m \in Messages, NEW S, Bind(m, S), NoNewParser, overlapped \subseteq overlapped'
      PROVE  ParsersAgree'
  <2>1. Stored' = Stored \ Dropped(m, S) BY <1>b DEF Bind, Stored
  <2>2. \A i \in Stored' : att'[i].parse = att[i].parse
    BY <1>b, <1>t, <2>1 DEF Bind, RowTypes, Attachment
  <2>3. QED BY <1>b, <2>1, <2>2, ParsersKept DEF InProgress
<1>e. ASSUME NEW t \in Threads, Enlist(t), NoNewParser, UNCHANGED overlapped PROVE ParsersAgree'
  <2>1. \A i \in Stored' \ Stored : att'[i].parse = "processing"
    <3>1. Uploaded(job[t].content).parse = "processing" BY DEF Uploaded
    <3>2. Stored' = Stored \cup {job[t].id} BY <1>e, <1>t, EnlistKeeps
    <3>3. job[t].id \notin Stored => att'[job[t].id] = Uploaded(job[t].content)
      BY <1>e, <1>t, EnlistKeeps
    <3>4. QED BY <3>1, <3>2, <3>3
  <2>2. QED BY <1>e, <1>t, <2>1, EnlistKeeps, ParsersKept DEF InProgress
<1>1. ASSUME NEW t \in Threads, NEW c \in Contents, BeginUpload(t, c) PROVE ParsersAgree'
  <2>1. [For(next, "persist") EXCEPT !.content = c].step = "persist" BY DEF For, Idle
  <2>2. QED BY <1>1, <2>1, <1>o, <1>k DEF BeginUpload, ParserSteps
<1>2. ASSUME NEW t \in Threads, PersistObject(t) PROVE ParsersAgree'
  BY <1>2, <1>g, <1>k DEF PersistObject, ParserSteps
<1>3. ASSUME NEW t \in Threads, Register(t) PROVE ParsersAgree'
  BY <1>3, <1>q, <1>e DEF Register
<1>c. ASSUME NEW t \in Threads, RegisterFails(t) PROVE ParsersAgree'
  BY <1>c, <1>g, <1>k DEF RegisterFails, ParserSteps
<1>4. ASSUME NEW t \in Threads, CountReferences(t) PROVE ParsersAgree'
  <2>1. Do(t, Idle) \/ Goto(t, "drop") BY <1>4 DEF CountReferences
  <2>2. QED BY <1>4, <2>1, <1>i, <1>g, <1>k DEF CountReferences, ParserSteps
<1>5. ASSUME NEW t \in Threads, DropObject(t) PROVE ParsersAgree'
  BY <1>5, <1>i, <1>k DEF DropObject, Unlink
<1>6. ASSUME NEW t \in Threads, NEW i, Reparse(t, i) PROVE ParsersAgree'
  BY <1>6, <1>t, StartKeeps DEF Reparse, ParserSteps
<1>7. ASSUME NEW t \in Threads, BackgroundParse(t) PROVE ParsersAgree'
  BY <1>7, <1>t, <1>i, <1>k, StartKeeps DEF BackgroundParse, ParserSteps
<1>8. ASSUME NEW t \in Threads, Parse(t) PROVE ParsersAgree'
  BY <1>8, <1>g, <1>k DEF Parse, ParserSteps
<1>9. ASSUME NEW t \in Threads, Index(t) PROVE ParsersAgree'
  <2>1. PICK i : i = job[t].id OBVIOUS
  <2>2. att' = Indexed(i, TRUE, FALSE) \/ att' = Indexed(i, FALSE, FALSE)
    BY <1>9, <2>1 DEF Index
  <2>3. Stored' = Stored /\ \A j \in Stored \ {i} : att'[j] = att[j]
    BY <2>2, <1>t, ParsedOthers
  <2>4. ParserOf(t, i) /\ \A u \in Threads : \A j : ParserOf(u, j)' => ParserOf(u, j) /\ u # t
    BY <1>9, <1>t, <2>1 DEF Index, Do, Idle, JobTypes, ParserOf
  <2>5. UNCHANGED overlapped BY <1>9 DEF Index
  <2>6. \A u \in Threads : i \in Ids \ overlapped => ~ParserOf(u, i)'
    BY <2>4 DEF ParsersAgree
  <2>7. ASSUME NEW u \in Threads, NEW j \in Stored', j \notin overlapped', ParserOf(u, j)'
        PROVE  InProgress(j)'
    <3>1. j \in Stored /\ j \in Ids /\ j \notin overlapped BY <2>3, <2>5, <2>7, <1>t DEF RowTypes
    <3>2. j # i /\ ParserOf(u, j) BY <2>4, <2>6, <2>7, <3>1
    <3>3. InProgress(j) BY <3>1, <3>2 DEF ParsersAgree
    <3>4. QED BY <2>3, <3>1, <3>2, <3>3 DEF InProgress
  <2>8. ASSUME NEW u \in Threads, NEW v \in Threads, NEW j \in Ids, j \notin overlapped',
               ParserOf(u, j)', ParserOf(v, j)'
        PROVE  u = v
    BY <2>4, <2>5, <2>8 DEF ParsersAgree
  <2>9. QED BY <2>7, <2>8 DEF ParsersAgree
<1>10. ASSUME NEW t \in Threads, NEW i, Delete(t, i) PROVE ParsersAgree'
  <2>1. [Idle EXCEPT !.step = "drop", !.content = att[i].content].step = "drop" BY DEF Idle
  <2>2. NoNewParser BY <1>10, <2>1, <1>o, <1>n DEF Delete, ParserSteps
  <2>3. UNCHANGED overlapped BY <1>10 DEF Delete
  <2>4. QED BY <1>10, <2>2, <2>3, DeleteKeeps, ParsersKept DEF InProgress
<1>11. ASSUME NEW u \in Uploads, OpenUpload(u) \/ CancelUpload(u) PROVE ParsersAgree'
  BY <1>11, <1>n, <1>k DEF OpenUpload, CancelUpload
<1>12. ASSUME NEW u \in Uploads, NEW p \in Parts, WriteChunk(u, p) \/ Damage(u, p) PROVE ParsersAgree'
  BY <1>12, <1>n, <1>k DEF WriteChunk, Damage
<1>13. ASSUME NEW t \in Threads, NEW u \in Uploads, Complete(t, u) PROVE ParsersAgree'
  <2> DEFINE j == [For(next, "assemble") EXCEPT !.content = ContentOf[u], !.upload = u]
  <2>1. j.step = "assemble" BY DEF For, Idle
  <2>2. Do(t, For(upload[u].id, "queued")) \/ UNCHANGED job \/ Do(t, j) BY <1>13 DEF Complete
  <2>3. NoNewParser BY <2>1, <2>2, <1>n, <1>o, <1>q DEF ParserSteps
  <2>4. QED BY <1>13, <2>3, <1>k DEF Complete
<1>14. ASSUME NEW t \in Threads, Assemble(t) PROVE ParsersAgree'
  BY <1>14, <1>g, <1>k DEF Assemble, ParserSteps
<1>15. ASSUME NEW t \in Threads, AssemblyFails(t) PROVE ParsersAgree'
  BY <1>15, <1>i, <1>k DEF AssemblyFails, Unlink
<1>16. ASSUME NEW t \in Threads, Enroll(t) PROVE ParsersAgree'
  BY <1>16, <1>g, <1>e DEF Enroll, ParserSteps
<1>17. ASSUME NEW t \in Threads, FinishUpload(t) PROVE ParsersAgree'
  BY <1>17, <1>q, <1>k DEF FinishUpload
<1>18. ASSUME NEW m \in Messages, Append(m) PROVE ParsersAgree'
  BY <1>18, <1>b, <1>n DEF Append, Refers, Plain
<1>19. ASSUME NEW m \in Messages, Edit(m) PROVE ParsersAgree'
  BY <1>19, <1>b, <1>m DEF Edit, Refers, Plain
<1>20. ASSUME NEW t \in Threads, NEW m \in Messages, PrepareEdit(t, m) PROVE ParsersAgree'
  <2>1. PICK C \in SUBSET Ready : Do(t, [Idle EXCEPT !.step = "answering", !.message = m, !.evidence = C])
    BY <1>20 DEF PrepareEdit
  <2>2. [Idle EXCEPT !.step = "answering", !.message = m, !.evidence = C].step = "answering"
    BY DEF Idle
  <2>3. QED BY <1>20, <2>1, <2>2, <1>o, <1>k DEF PrepareEdit, ParserSteps
<1>21. ASSUME NEW t \in Threads, CommitEdit(t) PROVE ParsersAgree'
  <2>1. job[t].message \in Messages
    BY <1>21, <1>t DEF CommitEdit, JobsAgree, JobShape, JobTypes, Job
  <2>2. QED BY <1>21, <2>1, <1>b, <1>m DEF CommitEdit, Plain
<1>22. ASSUME NEW t \in Threads, AbandonEdit(t) PROVE ParsersAgree'
  BY <1>22, <1>i, <1>k DEF AbandonEdit
<1>23. CASE Prune BY <1>23, <1>n, <1>k DEF Prune
<1>24. CASE Crash
  <2>1. NoNewParser BY <1>24 DEF Crash, NoNewParser, ParserOf, Idle
  <2>2. QED BY <1>24, <2>1, <1>k DEF Crash
<1>25. ASSUME NEW i \in Stored, MigrateLegacy(i) PROVE ParsersAgree'
  <2>1. Stored' = Stored BY <1>25 DEF MigrateLegacy, Stored
  <2>2. att'[i].parse = "processing" /\ \A j \in Stored \ {i} : att'[j] = att[j]
    BY <1>25, <1>t DEF MigrateLegacy, RowTypes, Attachment
  <2>3. QED BY <1>25, <2>1, <2>2, <1>n, ParsersKept DEF MigrateLegacy, InProgress
<1>26. ASSUME NEW i \in Stored, ResumeParsing(i) PROVE ParsersAgree'
  <2>1. \A t \in Threads : \A j : ~ParserOf(t, j)'
    BY <1>26 DEF ResumeParsing, JobsAgree, DownIsIdle, ParserOf, Idle
  <2>2. QED BY <2>1 DEF ParsersAgree
<1>27. CASE Serve BY <1>27, <1>n, <1>k DEF Serve
<1>28. CASE UNCHANGED vars BY <1>28, <1>n, <1>k DEF vars
<1>29. QED
  BY <1>c, <1>1, <1>2, <1>3, <1>4, <1>5, <1>6, <1>7, <1>8, <1>9, <1>10, <1>11, <1>12, <1>13, <1>14,
     <1>15, <1>16, <1>17, <1>18, <1>19, <1>20, <1>21, <1>22, <1>23, <1>24, <1>25, <1>26, <1>27, <1>28
     DEF Next, Requests, Continue, Client, Start
-----------------------------------------------------------------------------
(* No parse is forgotten.                                                  *)

HIDE DEF Ids

OwedSteps == {"queued", "parse", "index", "spoiled", "finish"}
OwedBy(t, i) == job[t].id = i /\ job[t].step \in OwedSteps
(* A step after which all that were at work on an attachment still are.    *)
WorkGoesOn == \A t \in Threads : \A i \in Ids : /\ ParserOf(t, i) => ParserOf(t, i)'
                                                /\ OwedBy(t, i) => OwedBy(t, i)'
Progress == MarksAgree /\ ParsingIsOwed

LEMMA OtherWork ==
  ASSUME JobTypes, NEW t \in Threads, NEW j, Do(t, j), job[t].step \notin OwedSteps
  PROVE  WorkGoesOn
  BY DEF JobTypes, Do, WorkGoesOn, ParserOf, OwedBy, OwedSteps

LEMMA ProgressKept ==
  ASSUME RowTypes', Progress, WorkGoesOn, serving' = serving, open' => open,
         stranded' = stranded,
         \A i \in Stored' : att'[i].parse = "processing" =>
           /\ i \in Stored /\ att[i].parse = "processing"
           /\ att'[i].message = att[i].message /\ att'[i].chunks = att[i].chunks
  PROVE  Progress'
<1>1. MarksAgree' BY DEF Progress, MarksAgree, WorkGoesOn, InProgress, ParserOf, RowTypes
<1>2. ParsingIsOwed'
  <2> SUFFICES ASSUME serving', open', NEW i \in Stored' \ stranded', att'[i].parse = "processing"
               PROVE  \E t \in Threads : OwedBy(t, i)'
    BY DEF ParsingIsOwed, InProgress, OwedBy, OwedSteps
  <2>1. PICK t \in Threads : OwedBy(t, i)
    BY DEF Progress, ParsingIsOwed, InProgress, OwedBy, OwedSteps
  <2>2. i \in Ids BY DEF RowTypes
  <2>3. QED BY <2>1, <2>2 DEF WorkGoesOn, OwedBy
<1>3. QED BY <1>1, <1>2 DEF Progress

(* A new row is in the charge of the thread that registers it.             *)
LEMMA EnlistProgress ==
  ASSUME RowTypes, Progress, WorkGoesOn, UNCHANGED <<serving, open>>,
         UNCHANGED stranded, NEW t \in Threads, Enlist(t),
         NEW n \in Ids, n = job[t].id, OwedBy(t, n)'
  PROVE  Progress'
<1>1. /\ Stored' = Stored \cup {n} /\ \A i \in Stored : att'[i] = att[i]
      /\ n \notin Stored => att'[n].message = None /\ ~att'[n].chunks
  <2>1. Uploaded(job[t].content).message = None /\ ~Uploaded(job[t].content).chunks BY DEF Uploaded
  <2>2. QED BY <2>1, EnlistKeeps
<1>2. MarksAgree' BY <1>1 DEF Progress, MarksAgree, WorkGoesOn, InProgress, ParserOf, RowTypes
<1>3. ASSUME serving', open', NEW i \in Stored' \ stranded', att'[i].parse = "processing"
      PROVE  \E u \in Threads : OwedBy(u, i)'
  <2>1. CASE i \in Stored
    <3>1. PICK u \in Threads : OwedBy(u, i)
      BY <1>1, <1>3, <2>1 DEF Progress, ParsingIsOwed, InProgress, OwedBy, OwedSteps
    <3>2. QED BY <2>1, <3>1 DEF WorkGoesOn, OwedBy, RowTypes
  <2>2. CASE i = n BY <2>2 DEF OwedBy
  <2>3. QED BY <1>1, <2>1, <2>2
<1>4. ParsingIsOwed' BY <1>3 DEF ParsingIsOwed, InProgress, OwedBy, OwedSteps
<1>5. QED BY <1>2, <1>4 DEF Progress

(* The thread that begins to parse is in charge of what it parses.         *)
LEMMA StartProgress ==
  ASSUME RowTypes, JobTypes, Progress, UNCHANGED <<serving, open>>,
         NEW t \in Threads, NEW i, CanReparse(i), StartParsing(t, i),
         job[t].step = "idle" \/ (job[t].step = "queued" /\ job[t].id = i)
  PROVE  Progress'
<1>1. /\ i \in Stored /\ Stored' = Stored /\ att[i].message = None
      /\ att'[i].message = att[i].message
      /\ \A j \in Stored \ {i} : att'[j] = att[j]
  BY ReparseKeeps
<1>2. ParserOf(t, i)' /\ OwedBy(t, i)'
  BY DEF StartParsing, Do, For, Idle, JobTypes, ParserOf, OwedBy, OwedSteps
<1>3. \A u \in Threads : \A j \in Ids : /\ ParserOf(u, j) => ParserOf(u, j)'
                                        /\ OwedBy(u, j) /\ j # i => OwedBy(u, j)'
  BY DEF StartParsing, Do, JobTypes, ParserOf, OwedBy, OwedSteps
<1>4. MarksAgree' BY <1>1, <1>2, <1>3 DEF Progress, MarksAgree, InProgress, ParserOf, RowTypes
<1>5. ASSUME serving', open', NEW j \in Stored' \ stranded', att'[j].parse = "processing"
      PROVE  \E u \in Threads : OwedBy(u, j)'
  <2>1. CASE j = i BY <1>2, <2>1 DEF OwedBy
  <2>2. CASE j # i
    <3>0. j \notin stranded BY <1>5, <2>2 DEF StartParsing
    <3>1. PICK u \in Threads : OwedBy(u, j)
      BY <1>1, <1>5, <2>2, <3>0 DEF Progress, ParsingIsOwed, InProgress, OwedBy, OwedSteps
    <3>2. j \in Ids BY <1>1 DEF RowTypes
    <3>3. QED BY <1>3, <2>2, <3>1, <3>2 DEF OwedBy
  <2>3. QED BY <2>1, <2>2
<1>6. ParsingIsOwed' BY <1>5 DEF ParsingIsOwed, InProgress, OwedBy, OwedSteps
<1>7. QED BY <1>4, <1>6 DEF Progress

LEMMA ProgressStep == IInv /\ [Next]_vars => Progress'
<1> SUFFICES ASSUME IInv, [Next]_vars PROVE Progress'
  OBVIOUS
<1> USE DEF At, marks, process
<1>p. Progress BY DEF IInv, Progress
<1>t. RowTypes /\ JobTypes /\ UploadTypes /\ JobsAgree /\ TypeOK
  BY DEF IInv, TypeOK, RowTypes, JobTypes, UploadTypes
<1>x. RowTypes' BY <1>t, TypeStep DEF TypeOK, RowTypes
<1>r. UNCHANGED att => Stored' = Stored BY DEF Stored
<1>n. UNCHANGED job => WorkGoesOn BY DEF WorkGoesOn, ParserOf, OwedBy
<1>k. ASSUME UNCHANGED <<att, serving, stranded>>, open' => open, WorkGoesOn PROVE Progress'
  BY <1>k, <1>p, <1>r, <1>x, ProgressKept
<1>o. ASSUME NEW t \in Threads, NEW j, Do(t, j), job[t].step \notin OwedSteps PROVE WorkGoesOn
  BY <1>o, <1>t, OtherWork
<1>g. ASSUME NEW t \in Threads, NEW q, Goto(t, q), job[t].step \notin OwedSteps PROVE WorkGoesOn
  BY <1>g, <1>o DEF Goto
<1>m. ASSUME NEW m \in Messages, job' = StaleFor(m) PROVE WorkGoesOn
  <2>1. \A t \in Threads : job[t].message = m => job[t].step = "answering"
    BY <1>t, NoneIsNothing DEF JobsAgree, JobShape
  <2>2. QED BY <1>m, <2>1 DEF StaleFor, WorkGoesOn, ParserOf, OwedBy, OwedSteps
<1>b. ASSUME NEW m \in Messages, NEW S, Bind(m, S), S \subseteq Ready, WorkGoesOn,
             UNCHANGED <<serving, open, stranded>>
      PROVE  Progress'
  <2>1. Stored' = Stored \ Dropped(m, S) BY <1>b DEF Bind, Stored
  <2>2. \A i \in Stored' : /\ att'[i].parse = att[i].parse
                           /\ i \notin S => att'[i] = att[i]
    BY <1>b, <1>t, <2>1 DEF Bind, RowTypes, Attachment
  <2>3. \A i \in S : att[i].parse = "ready" BY <1>b DEF Ready
  <2>4. \A i \in Stored' : att'[i].parse = "processing" => att[i].parse = "processing" /\ i \notin S
    BY <2>1, <2>2, <2>3
  <2>5. \A i \in Stored' : att'[i].parse = "processing" =>
           /\ i \in Stored /\ att[i].parse = "processing"
           /\ att'[i].message = att[i].message /\ att'[i].chunks = att[i].chunks
    BY <2>1, <2>2, <2>4
  <2>6. QED BY <1>b, <1>p, <1>x, <2>5, ProgressKept
<1>1. ASSUME NEW t \in Threads, NEW c \in Contents, BeginUpload(t, c) PROVE Progress'
  BY <1>1, <1>o, <1>k DEF BeginUpload, OwedSteps
<1>2. ASSUME NEW t \in Threads, PersistObject(t) PROVE Progress'
  BY <1>2, <1>g, <1>k DEF PersistObject, OwedSteps
<1>3. ASSUME NEW t \in Threads, Register(t) PROVE Progress'
  <2>1. PICK n \in Ids : n = job[t].id BY <1>3, <1>t DEF Register, JobsAgree, JobShape
  <2>2. WorkGoesOn BY <1>3, <1>o DEF Register, OwedSteps
  <2>3. OwedBy(t, n)'
    BY <1>3, <1>t, <2>1 DEF Register, Do, For, Idle, JobTypes, OwedBy, OwedSteps
  <2>4. QED BY <1>3, <1>p, <1>t, <2>1, <2>2, <2>3, EnlistProgress DEF Register
<1>c. ASSUME NEW t \in Threads, RegisterFails(t) PROVE Progress'
  BY <1>c, <1>g, <1>k DEF RegisterFails, OwedSteps
<1>4. ASSUME NEW t \in Threads, CountReferences(t) PROVE Progress'
  <2>1. WorkGoesOn BY <1>4, <1>o, <1>g DEF CountReferences, OwedSteps
  <2>2. QED BY <1>4, <2>1, <1>k DEF CountReferences
<1>5. ASSUME NEW t \in Threads, DropObject(t) PROVE Progress'
  BY <1>5, <1>o, <1>k DEF DropObject, Unlink, OwedSteps
<1>6. ASSUME NEW t \in Threads, NEW i, Reparse(t, i) PROVE Progress'
  BY <1>6, <1>t, <1>p, StartProgress DEF Reparse
<1>7. ASSUME NEW t \in Threads, BackgroundParse(t) PROVE Progress'
  <2>1. PICK n : n = job[t].id OBVIOUS
  <2>2. CASE CanReparse(n) BY <1>7, <1>t, <1>p, <2>1, <2>2, StartProgress DEF BackgroundParse
  <2>3. CASE ~CanReparse(n)
    <3>1. /\ Do(t, Idle) /\ UNCHANGED <<att, serving, open, stranded, cites>> /\ serving
          /\ job[t].step = "queued"
      BY <1>7, <2>1, <2>3 DEF BackgroundParse, evidenceVars
    <3>2. /\ \A u \in Threads : \A j : ParserOf(u, j) => ParserOf(u, j)'
          /\ \A u \in Threads : \A j : OwedBy(u, j) /\ u # t => OwedBy(u, j)'
      BY <3>1, <1>t DEF Do, JobTypes, ParserOf, OwedBy
    <3>3. MarksAgree' BY <3>1, <3>2, <1>p, <1>r DEF Progress, MarksAgree, InProgress, ParserOf
    <3>4. ASSUME open, NEW j \in Stored \ stranded, att[j].parse = "processing"
          PROVE  \E u \in Threads : OwedBy(u, j)'
      <4>1. CASE j = n
        <5>1. att[j].message = None BY <3>1, <3>4, <1>p DEF Progress, MarksAgree, InProgress
        <5>2. j \in Cited BY <2>3, <3>4, <4>1, <5>1 DEF CanReparse
        <5>3. att[j].chunks BY <5>2 DEF Cited, IInv, EvidenceStays
        <5>4. PICK u \in Threads : ParserOf(u, j)
          BY <3>1, <3>4, <5>3, <1>p DEF Progress, MarksAgree, InProgress
        <5>5. ParserOf(u, j)' BY <3>2, <5>4
        <5>6. QED BY <5>5 DEF ParserOf, OwedBy, OwedSteps
      <4>2. CASE j # n
        <5>1. PICK u \in Threads : OwedBy(u, j)
          BY <3>1, <3>4, <1>p DEF Progress, ParsingIsOwed, InProgress, OwedBy, OwedSteps
        <5>2. u # t BY <2>1, <4>2, <5>1 DEF OwedBy
        <5>3. QED BY <3>2, <5>1, <5>2
      <4>3. QED BY <4>1, <4>2
    <3>5. ParsingIsOwed' BY <3>1, <3>4, <1>r DEF ParsingIsOwed, InProgress, OwedBy, OwedSteps
    <3>6. QED BY <3>3, <3>5 DEF Progress
  <2>4. QED BY <2>2, <2>3
<1>8. ASSUME NEW t \in Threads, Parse(t) PROVE Progress'
  <2>1. PICK q \in {"index", "spoiled"} : Goto(t, q) BY <1>8 DEF Parse
  <2>2. job' = [job EXCEPT ![t] = [job[t] EXCEPT !.step = q]] BY <2>1 DEF Goto, Do
  <2>3. job'[t].id = job[t].id /\ job'[t].step = q /\ \A u \in Threads \ {t} : job'[u] = job[u]
    BY <2>2, <1>t DEF JobTypes, Job
  <2>4. WorkGoesOn BY <1>8, <2>3 DEF Parse, WorkGoesOn, ParserOf, OwedBy, OwedSteps
  <2>5. QED BY <1>8, <2>4, <1>k DEF Parse
<1>9. ASSUME NEW t \in Threads, Index(t) PROVE Progress'
  <2>1. PICK i : i = job[t].id OBVIOUS
  <2>2. att' = Indexed(i, TRUE, FALSE) \/ att' = Indexed(i, FALSE, FALSE)
    BY <1>9, <2>1 DEF Index
  <2>3. Stored' = Stored /\ \A j \in Stored \ {i} : att'[j] = att[j]
    BY <2>2, <1>t, ParsedOthers
  <2>4. i \in Stored => att'[i].parse # "processing" BY <2>2, <1>t DEF Indexed, RowTypes, Attachment
  <2>5. /\ \A u \in Threads : \A j : ParserOf(u, j) /\ j # i => ParserOf(u, j)'
        /\ \A u \in Threads : \A j : OwedBy(u, j) /\ j # i => OwedBy(u, j)'
    BY <1>9, <2>1, <1>t DEF Index, Do, JobTypes, ParserOf, OwedBy
  <2>6. MarksAgree'
    BY <1>9, <1>p, <2>3, <2>4, <2>5 DEF Index, Progress, MarksAgree, InProgress
  <2>7. ASSUME serving', open', NEW j \in Stored' \ stranded', att'[j].parse = "processing"
        PROVE  \E u \in Threads : OwedBy(u, j)'
    <3>1. j \in Stored /\ j # i /\ att[j].parse = "processing" BY <2>3, <2>4, <2>7
    <3>2. PICK u \in Threads : OwedBy(u, j)
      BY <1>9, <1>p, <2>7, <3>1 DEF Index, Progress, ParsingIsOwed, InProgress, OwedBy, OwedSteps
    <3>3. QED BY <2>5, <3>1, <3>2
  <2>8. ParsingIsOwed' BY <2>7 DEF ParsingIsOwed, InProgress, OwedBy, OwedSteps
  <2>9. QED BY <2>6, <2>8 DEF Progress
<1>10. ASSUME NEW t \in Threads, NEW i, Delete(t, i) PROVE Progress'
  <2>1. WorkGoesOn BY <1>10, <1>o, <1>n DEF Delete, OwedSteps
  <2>2. UNCHANGED <<serving, open, stranded>> BY <1>10 DEF Delete
  <2>3. QED BY <1>10, <1>p, <1>x, <2>1, <2>2, DeleteKeeps, ProgressKept
<1>11. ASSUME NEW u \in Uploads, OpenUpload(u) \/ CancelUpload(u) PROVE Progress'
  BY <1>11, <1>n, <1>k DEF OpenUpload, CancelUpload
<1>12. ASSUME NEW u \in Uploads, NEW p \in Parts, WriteChunk(u, p) \/ Damage(u, p) PROVE Progress'
  BY <1>12, <1>n, <1>k DEF WriteChunk, Damage
<1>13. ASSUME NEW t \in Threads, NEW u \in Uploads, Complete(t, u) PROVE Progress'
  <2>1. WorkGoesOn BY <1>13, <1>o, <1>n DEF Complete, OwedSteps
  <2>2. QED BY <1>13, <2>1, <1>k DEF Complete
<1>14. ASSUME NEW t \in Threads, Assemble(t) PROVE Progress'
  BY <1>14, <1>g, <1>k DEF Assemble, OwedSteps
<1>15. ASSUME NEW t \in Threads, AssemblyFails(t) PROVE Progress'
  <2>1. CASE job[t].step # "finish"
    <3>1. WorkGoesOn /\ UNCHANGED stranded
      BY <1>15, <1>o, <2>1 DEF AssemblyFails, Assembly, OwedSteps, Unlink
    <3>2. QED BY <1>15, <3>1, <1>k DEF AssemblyFails
  <2>2. CASE job[t].step = "finish"
    <3>1. /\ stranded' = stranded \cup {job[t].id} /\ Do(t, Idle)
          /\ UNCHANGED <<att, serving, open>>
      BY <1>15, <2>2 DEF AssemblyFails
    <3>2. /\ \A u \in Threads : \A j : ParserOf(u, j) => ParserOf(u, j)'
          /\ \A u \in Threads : \A j : OwedBy(u, j) /\ j # job[t].id => OwedBy(u, j)'
      BY <2>2, <3>1, <1>t DEF Do, JobTypes, ParserOf, OwedBy
    <3>3. MarksAgree' BY <3>1, <3>2, <1>p, <1>r DEF Progress, MarksAgree, InProgress, ParserOf
    <3>4. ASSUME serving, open, NEW j \in Stored \ stranded', att[j].parse = "processing"
          PROVE  \E u \in Threads : OwedBy(u, j)'
      <4>1. j \in Stored \ stranded /\ j # job[t].id BY <3>1, <3>4
      <4>2. PICK u \in Threads : OwedBy(u, j)
        BY <3>4, <4>1, <1>p DEF Progress, ParsingIsOwed, InProgress, OwedBy, OwedSteps
      <4>3. QED BY <3>2, <4>1, <4>2
    <3>5. ParsingIsOwed' BY <3>1, <3>4, <1>r DEF ParsingIsOwed, InProgress, OwedBy, OwedSteps
    <3>6. QED BY <3>3, <3>5 DEF Progress
  <2>3. QED BY <2>1, <2>2
<1>16. ASSUME NEW t \in Threads, Enroll(t) PROVE Progress'
  <2>1. PICK n \in Ids : n = job[t].id
    BY <1>16, <1>t DEF Enroll, JobsAgree, JobShape, Assembly
  <2>2. WorkGoesOn BY <1>16, <1>g DEF Enroll, OwedSteps
  <2>3. job' = [job EXCEPT ![t] = [job[t] EXCEPT !.step = "finish"]] BY <1>16 DEF Enroll, Goto, Do
  <2>4. job'[t].id = n /\ job'[t].step = "finish" BY <2>1, <2>3, <1>t DEF JobTypes, Job
  <2>5. OwedBy(t, n)' BY <2>4 DEF OwedBy, OwedSteps
  <2>6. QED BY <1>16, <1>p, <1>t, <2>1, <2>2, <2>5, EnlistProgress DEF Enroll
<1>17. ASSUME NEW t \in Threads, FinishUpload(t) PROVE Progress'
  <2>1. job' = [job EXCEPT ![t] = For(job[t].id, "queued")] BY <1>17 DEF FinishUpload, Do
  <2>2. job'[t].id = job[t].id /\ job'[t].step = "queued"
        /\ \A u \in Threads \ {t} : job'[u] = job[u]
    BY <2>1, <1>t DEF JobTypes, For, Idle
  <2>3. WorkGoesOn BY <1>17, <2>2 DEF FinishUpload, WorkGoesOn, ParserOf, OwedBy, OwedSteps
  <2>4. QED BY <1>17, <2>3, <1>k DEF FinishUpload
<1>18. ASSUME NEW m \in Messages, Append(m) PROVE Progress'
  <2>1. PICK S \in SUBSET Ready : Refers(m, S) \/ Plain(m, S) BY <1>18 DEF Append
  <2>2. WorkGoesOn BY <1>18, <1>n DEF Append
  <2>3. UNCHANGED <<serving, open, stranded>> BY <1>18 DEF Append
  <2>4. QED BY <1>b, <2>1, <2>2, <2>3 DEF Refers, Plain
<1>19. ASSUME NEW m \in Messages, Edit(m) PROVE Progress'
  <2>1. PICK S \in SUBSET Ready : Refers(m, S) \/ Plain(m, S) BY <1>19 DEF Edit
  <2>2. WorkGoesOn BY <1>19, <1>m DEF Edit
  <2>3. UNCHANGED <<serving, open, stranded>> BY <1>19 DEF Edit
  <2>4. QED BY <1>b, <2>1, <2>2, <2>3 DEF Refers, Plain
<1>20. ASSUME NEW t \in Threads, NEW m \in Messages, PrepareEdit(t, m) PROVE Progress'
  <2>1. WorkGoesOn BY <1>20, <1>o DEF PrepareEdit, OwedSteps
  <2>2. QED BY <1>20, <2>1, <1>k DEF PrepareEdit
<1>21. ASSUME NEW t \in Threads, CommitEdit(t) PROVE Progress'
  <2>1. job[t].message \in Messages
    BY <1>21, <1>t DEF CommitEdit, JobsAgree, JobShape, JobTypes, Job
  <2>2. WorkGoesOn BY <1>21, <2>1, <1>m DEF CommitEdit
  <2>3. Bind(job[t].message, {}) /\ UNCHANGED <<serving, open, stranded>> BY <1>21 DEF CommitEdit, Plain
  <2>4. QED BY <1>b, <2>1, <2>2, <2>3
<1>22. ASSUME NEW t \in Threads, AbandonEdit(t) PROVE Progress'
  BY <1>22, <1>o, <1>k DEF AbandonEdit, OwedSteps
<1>23. CASE Prune BY <1>23, <1>n, <1>k DEF Prune
<1>24. CASE Crash BY <1>24 DEF Crash, Progress, MarksAgree, ParsingIsOwed
<1>25. ASSUME NEW i \in Stored, MigrateLegacy(i) \/ ResumeParsing(i) PROVE Progress'
  BY <1>25 DEF MigrateLegacy, ResumeParsing, Progress, MarksAgree, ParsingIsOwed
<1>26. CASE Serve BY <1>26, <1>r DEF Serve, Progress, MarksAgree, ParsingIsOwed, InProgress
<1>27. CASE UNCHANGED vars BY <1>27, <1>n, <1>k DEF vars
<1>28. QED
  BY <1>c, <1>1, <1>2, <1>3, <1>4, <1>5, <1>6, <1>7, <1>8, <1>9, <1>10, <1>11, <1>12, <1>13, <1>14,
     <1>15, <1>16, <1>17, <1>18, <1>19, <1>20, <1>21, <1>22, <1>23, <1>24, <1>25, <1>26, <1>27
     DEF Next, Requests, Continue, Client, Start
-----------------------------------------------------------------------------
(* Frozen contexts and cited attachments.                                  *)

LEMMA FixedKept ==
  ASSUME EvidenceIsFixed, UNCHANGED cites, overlapped \subseteq overlapped',
         \A i \in Stored' : /\ i \in Stored
                            /\ att'[i].message = att[i].message /\ att'[i].context = att[i].context
                            /\ att'[i].parse = att[i].parse \/ i \notin Cited
  PROVE  EvidenceIsFixed'
<1>1. Cited' = Cited BY DEF Cited
<1>2. ASSUME NEW i \in Stored', i \notin overlapped' PROVE Settled(i)'
  <2>1. i \in Stored /\ Settled(i) BY <1>2 DEF EvidenceIsFixed
  <2>2. QED BY <1>1, <1>2, <2>1 DEF Settled
<1>3. QED BY <1>2 DEF EvidenceIsFixed

LEMMA BindFixes ==
  ASSUME RowTypes, EvidenceIsFixed, NEW m \in Messages, NEW S, Bind(m, S), NEW C,
         C \cap Stored \subseteq Ready \cup overlapped', overlapped \subseteq overlapped',
         cites \in [Messages -> SUBSET Ids], cites' = [cites EXCEPT ![m] = C]
  PROVE  EvidenceIsFixed'
<1>1. Stored' = Stored \ Dropped(m, S) BY DEF Bind, Stored
<1>2. \A i \in Stored' : att'[i].parse = att[i].parse /\ (att'[i] = att[i] \/ att'[i].context)
  BY <1>1 DEF Bind, RowTypes, Attachment
<1>3. \A i : i \in Cited' => i \in Cited \/ i \in C BY DEF Cited
<1>4. ASSUME NEW i \in Stored', i \notin overlapped' PROVE Settled(i)'
  <2>1. i \in Stored /\ i \notin overlapped /\ Settled(i) BY <1>1, <1>4 DEF EvidenceIsFixed
  <2>2. att'[i].message # None => att'[i].context BY <1>2, <1>4, <2>1 DEF Settled
  <2>3. i \in C => att[i].parse = "ready" BY <1>4, <2>1 DEF Ready
  <2>4. i \in Cited' => att'[i].parse = "ready" BY <1>2, <1>3, <1>4, <2>1, <2>3 DEF Settled
  <2>5. QED BY <2>2, <2>4 DEF Settled
<1>5. QED BY <1>4 DEF EvidenceIsFixed

LEMMA FixedStep == IInv /\ [Next]_vars => EvidenceIsFixed'
<1> SUFFICES ASSUME IInv, [Next]_vars PROVE EvidenceIsFixed'
  OBVIOUS
<1> USE DEF At, marks, process, evidenceVars
<1>p. EvidenceIsFixed /\ EvidenceStays /\ InlineIsOld /\ ParsersAgree /\ MarksAgree BY DEF IInv
<1>t. RowTypes /\ JobTypes /\ JobsAgree /\ TypeOK /\ cites \in [Messages -> SUBSET Ids]
  BY DEF IInv, TypeOK, RowTypes, JobTypes
<1>k. ASSUME UNCHANGED <<att, cites, overlapped>> PROVE EvidenceIsFixed'
  BY <1>k, <1>p DEF EvidenceIsFixed, Settled, Cited, Stored
<1>c. \A i : i \in Cited => i \in Stored /\ att[i].chunks BY <1>p DEF EvidenceStays, Cited
<1>e. ASSUME NEW t \in Threads, Enlist(t), UNCHANGED <<cites, overlapped>> PROVE EvidenceIsFixed'
  <2>1. /\ Stored' = Stored \cup {job[t].id} /\ \A i \in Stored : att'[i] = att[i]
        /\ job[t].id \notin Stored => att'[job[t].id].message = None
    <3>1. Uploaded(job[t].content).message = None BY DEF Uploaded
    <3>2. QED BY <1>e, <1>t, <3>1, EnlistKeeps
  <2>2. Cited' = Cited BY <1>e DEF Cited
  <2>3. QED BY <1>e, <1>p, <1>c, <2>1, <2>2 DEF EvidenceIsFixed, Settled
<1>1. ASSUME NEW t \in Threads, Register(t) \/ Enroll(t) PROVE EvidenceIsFixed'
  BY <1>1, <1>e, <1>k DEF Register, Enroll
<1>s. ASSUME NEW t \in Threads, NEW i, CanReparse(i), StartParsing(t, i), UNCHANGED cites
      PROVE  EvidenceIsFixed'
  <2>1. overlapped \subseteq overlapped' BY <1>s DEF StartParsing
  <2>2. QED BY <1>s, <1>t, <1>p, <2>1, ReparseKeeps, FixedKept
<1>2. ASSUME NEW t \in Threads, BackgroundParse(t) PROVE EvidenceIsFixed'
  BY <1>2, <1>s, <1>k DEF BackgroundParse
<1>3. ASSUME NEW t \in Threads, NEW i, Reparse(t, i) PROVE EvidenceIsFixed'
  BY <1>3, <1>s DEF Reparse
<1>4. ASSUME NEW t \in Threads, NEW i, Delete(t, i) PROVE EvidenceIsFixed'
  BY <1>4, <1>p, DeleteKeeps, FixedKept DEF Delete
<1>5. ASSUME NEW t \in Threads, Index(t) PROVE EvidenceIsFixed'
  <2>1. PICK i : i = job[t].id OBVIOUS
  <2>2. att' = Indexed(i, TRUE, FALSE) \/ att' = Indexed(i, FALSE, FALSE)
    BY <1>5, <2>1 DEF Index
  <2>3. Stored' = Stored /\ \A j \in Stored \ {i} : att'[j] = att[j]
    BY <2>2, <1>t, ParsedOthers
  <2>4. ParserOf(t, i) /\ serving BY <1>5, <2>1 DEF Index, ParserOf
  <2>5. UNCHANGED <<cites, overlapped>> BY <1>5 DEF Index
  <2>6. i \in Stored \ overlapped => att'[i].message = None /\ i \notin Cited
    <3> SUFFICES ASSUME i \in Stored \ overlapped PROVE att'[i].message = None /\ i \notin Cited
      OBVIOUS
    <3>1. InProgress(i) BY <2>4, <1>p DEF ParsersAgree
    <3>2. att[i].message = None BY <2>4, <3>1, <1>p DEF MarksAgree
    <3>3. att'[i].message = att[i].message BY <2>2, <1>t DEF Indexed, RowTypes, Attachment
    <3>4. i \notin Cited BY <3>1, <1>p DEF InProgress, EvidenceIsFixed, Settled
    <3>5. QED BY <3>2, <3>3, <3>4
  <2>7. Cited' = Cited BY <2>5 DEF Cited
  <2>8. QED BY <1>p, <2>3, <2>5, <2>6, <2>7 DEF EvidenceIsFixed, Settled
<1>6. ASSUME NEW m \in Messages, Append(m) \/ Edit(m) PROVE EvidenceIsFixed'
  <2>1. PICK S \in SUBSET Ready : Refers(m, S) \/ Plain(m, S) BY <1>6 DEF Append, Edit
  <2>2. UNCHANGED overlapped BY <1>6 DEF Append, Edit
  <2>3. CASE Refers(m, S) BY <1>t, <1>p, <2>2, <2>3, BindFixes DEF Refers
  <2>4. CASE Plain(m, S) BY <1>t, <1>p, <2>2, <2>4, BindFixes DEF Plain
  <2>5. QED BY <2>1, <2>3, <2>4
<1>7. ASSUME NEW t \in Threads, CommitEdit(t) PROVE EvidenceIsFixed'
  <2>1. job[t].message \in Messages
    BY <1>7, <1>t DEF CommitEdit, JobsAgree, JobShape, JobTypes, Job
  <2>2. PICK C : C = job[t].evidence OBVIOUS
  <2>3. Plain(job[t].message, C) /\ overlapped' = overlapped \cup (C \ Ready)
    BY <1>7, <2>2 DEF CommitEdit
  <2>4. QED BY <1>t, <1>p, <2>1, <2>3, BindFixes DEF Plain
<1>8. ASSUME NEW i \in Stored, MigrateLegacy(i) PROVE EvidenceIsFixed'
  <2>1. Stored' = Stored /\ i \notin Cited
    BY <1>8, <1>p, <1>c DEF MigrateLegacy, Stored, InlineIsOld
  <2>2. \A j \in Stored : /\ att'[j].message = att[j].message /\ att'[j].context = att[j].context
    BY <1>8, <1>t DEF MigrateLegacy, RowTypes, Attachment
  <2>3. \A j \in Stored \ {i} : att'[j].parse = att[j].parse
    BY <1>8, <1>t DEF MigrateLegacy, RowTypes, Attachment
  <2>4. \A j \in Stored' : /\ j \in Stored
                           /\ att'[j].message = att[j].message /\ att'[j].context = att[j].context
                           /\ att'[j].parse = att[j].parse \/ j \notin Cited
    BY <2>1, <2>2, <2>3
  <2>5. UNCHANGED <<cites, overlapped>> BY <1>8 DEF MigrateLegacy
  <2>6. QED BY <1>p, <2>4, <2>5, FixedKept
<1>9. ASSUME NEW i \in Stored, ResumeParsing(i) PROVE EvidenceIsFixed'
  <2>1. PICK good \in BOOLEAN : att' = Indexed(i, good, Preserved(i)) BY <1>9 DEF ResumeParsing
  <2>2. Stored' = Stored /\ \A j \in Stored \ {i} : att'[j] = att[j]
    BY <2>1, <1>t, ParsedOthers
  <2>3. att'[i].message = att[i].message /\ (att[i].context => att'[i].context)
    BY <2>1, <1>t DEF Indexed, Preserved, RowTypes, Attachment
  <2>4. UNCHANGED <<cites, overlapped>> /\ att[i].parse = "processing"
    BY <1>9 DEF ResumeParsing, InProgress
  <2>5. i \notin overlapped => i \notin Cited BY <2>4, <1>p DEF EvidenceIsFixed, Settled
  <2>6. Cited' = Cited BY <2>4 DEF Cited
  <2>7. QED BY <1>p, <2>2, <2>3, <2>4, <2>5, <2>6 DEF EvidenceIsFixed, Settled
<1>10. ASSUME UNCHANGED <<att, cites, overlapped>> PROVE EvidenceIsFixed'
  BY <1>10, <1>k
<1>11. QED
  BY <1>1, <1>2, <1>3, <1>4, <1>5, <1>6, <1>7, <1>8, <1>9, <1>10
     DEF Next, Requests, Continue, Client, Start, vars, BeginUpload, PersistObject,
         RegisterFails, CountReferences, DropObject, Parse, OpenUpload, CancelUpload,
         WriteChunk, Damage, Complete, Assemble, AssemblyFails, FinishUpload, PrepareEdit, AbandonEdit, Prune,
         Crash, Serve, Unlink
-----------------------------------------------------------------------------
(* Objects.                                                                *)

Backed == ObjectsAgree /\ RowsHaveObjects
Claims == {"register", "enroll", "drop"}
NoNewClaim == \A t \in Threads : job'[t].step \in Claims =>
                job'[t].step = job[t].step /\ job'[t].content = job[t].content
SameFiles == \A i \in Stored' : /\ i \in Stored /\ att'[i].filed = att[i].filed
                                /\ att'[i].content = att[i].content

LEMMA BackedKept ==
  ASSUME Backed, NoNewClaim, SameFiles, objects \subseteq objects', raced \subseteq raced'
  PROVE  Backed'
<1>1. \A c : ReferredIn(att', c) => ReferredIn(att, c)
  BY DEF SameFiles, ReferredIn, Stored
<1>2. ASSUME NEW t \in Threads, job'[t].step \in {"register", "enroll"}
      PROVE  job'[t].content \in objects' \cup raced'
  BY <1>2 DEF Backed, ObjectsAgree, NoNewClaim, Claims
<1>3. ASSUME NEW t \in Threads, job'[t].step = "drop"
      PROVE  job'[t].content \in raced' \/ ~ReferredIn(att', job'[t].content)
  BY <1>1, <1>3 DEF Backed, ObjectsAgree, NoNewClaim, Claims
<1>4. RowsHaveObjects' BY DEF Backed, RowsHaveObjects, SameFiles
<1>5. QED BY <1>2, <1>3, <1>4 DEF Backed, ObjectsAgree

(* A new row has its object, and who is about to unlink it is noted.       *)
LEMMA EnlistBacked ==
  ASSUME RowTypes, Backed, NoNewClaim, NEW t \in Threads, Enlist(t), UNCHANGED objects,
         job[t].step \in {"register", "enroll"}
  PROVE  Backed'
<1> DEFINE c == job[t].content
<1>0. c \in objects \cup raced BY DEF Backed, ObjectsAgree
<1>1. raced \subseteq raced' BY DEF Enlist
<1>2. /\ Stored' = Stored \cup {job[t].id} /\ \A i \in Stored : att'[i] = att[i]
      /\ job[t].id \notin Stored => att'[job[t].id].content = c
  <2>1. Uploaded(c).content = c BY DEF Uploaded
  <2>2. QED BY <2>1, EnlistKeeps
<1>3. \A d : ReferredIn(att', d) => ReferredIn(att, d) \/ d = c
  BY <1>2 DEF ReferredIn, Stored
<1>4. ASSUME NEW u \in Threads, job'[u].step \in {"register", "enroll"}
      PROVE  job'[u].content \in objects' \cup raced'
  BY <1>1, <1>4 DEF Backed, ObjectsAgree, NoNewClaim, Claims
<1>5. ASSUME NEW u \in Threads, job'[u].step = "drop"
      PROVE  job'[u].content \in raced' \/ ~ReferredIn(att', job'[u].content)
  <2>1. job[u].step = "drop" /\ job'[u].content = job[u].content
    BY <1>5 DEF NoNewClaim, Claims
  <2>2. CASE job[u].content = c BY <2>1, <2>2 DEF Enlist, Dropping
  <2>3. CASE job[u].content # c BY <1>1, <1>3, <2>1, <2>3 DEF Backed, ObjectsAgree
  <2>4. QED BY <2>2, <2>3
<1>6. RowsHaveObjects' BY <1>0, <1>1, <1>2 DEF Backed, RowsHaveObjects
<1>7. QED BY <1>4, <1>5, <1>6 DEF Backed, ObjectsAgree

(* An object is unlinked that nothing refers to; who has stored it once    *)
(* more is noted.                                                          *)
LEMMA UnlinkBacked ==
  ASSUME Backed, NoNewClaim, NEW t \in Threads, Unlink(t), UNCHANGED att,
         job'[t].step \notin Claims,
         job[t].content \in raced \/ ~ReferredIn(att, job[t].content)
  PROVE  Backed'
<1> DEFINE c == job[t].content
<1>1. objects' = objects \ {c} /\ raced \subseteq raced' /\ (Storing(t, c) => c \in raced')
  BY DEF Unlink
<1>2. ASSUME NEW u \in Threads, job'[u].step \in {"register", "enroll"}
      PROVE  job'[u].content \in objects' \cup raced'
  <2>1. u # t BY <1>2 DEF Claims
  <2>2. job[u].step \in {"register", "enroll"} /\ job'[u].content = job[u].content
    BY <1>2 DEF NoNewClaim, Claims
  <2>3. job[u].content \in objects \cup raced BY <2>2 DEF Backed, ObjectsAgree
  <2>4. job[u].content = c => Storing(t, c) BY <2>1, <2>2 DEF Storing
  <2>5. QED BY <1>1, <2>2, <2>3, <2>4
<1>3. ASSUME NEW u \in Threads, job'[u].step = "drop"
      PROVE  job'[u].content \in raced' \/ ~ReferredIn(att', job'[u].content)
  BY <1>1, <1>3 DEF Backed, ObjectsAgree, NoNewClaim, Claims
<1>4. \A i \in Stored : att[i].filed /\ att[i].content = c => c \in raced
  BY DEF ReferredIn, Stored
<1>5. RowsHaveObjects' BY <1>1, <1>4 DEF Backed, RowsHaveObjects, Stored
<1>6. QED BY <1>2, <1>3, <1>5 DEF Backed, ObjectsAgree

LEMMA BackedStep == IInv /\ [Next]_vars => Backed'
<1> SUFFICES ASSUME IInv, [Next]_vars PROVE Backed'
  OBVIOUS
<1> USE DEF At, marks, process
<1>p. Backed BY DEF IInv, Backed
<1>t. RowTypes /\ JobTypes /\ JobsAgree /\ EvidenceStays BY DEF IInv, TypeOK, RowTypes, JobTypes
<1>f. UNCHANGED att => SameFiles BY DEF SameFiles, Stored
<1>n. UNCHANGED job => NoNewClaim BY DEF NoNewClaim
<1>o. ASSUME NEW t \in Threads, NEW j, Do(t, j), j.step \notin Claims PROVE NoNewClaim
  BY <1>o, <1>t DEF Do, JobTypes, NoNewClaim
<1>i. \A t \in Threads : Do(t, Idle) => NoNewClaim BY <1>o DEF Idle, Claims
<1>z. \A t \in Threads : Do(t, Idle) => job'[t].step = "idle" BY <1>t DEF Do, JobTypes, Idle
<1>q. \A t \in Threads : \A i : Do(t, For(i, "queued")) \/ Do(t, For(i, "parse")) => NoNewClaim
  BY <1>o DEF For, Idle, Claims
<1>h. \A t \in Threads : \A q : Goto(t, q) =>
        /\ job'[t].step = q /\ job'[t].content = job[t].content
        /\ \A u \in Threads \ {t} : job'[u] = job[u]
  BY <1>t DEF Goto, Do, JobTypes, Job
<1>g. ASSUME NEW t \in Threads, NEW q, Goto(t, q), q \notin Claims PROVE NoNewClaim
  BY <1>g, <1>h DEF NoNewClaim
<1>m. ASSUME NEW m \in Messages, job' = StaleFor(m) PROVE NoNewClaim
  BY <1>m DEF StaleFor, NoNewClaim, Idle, Claims
<1>k. ASSUME SameFiles, NoNewClaim, UNCHANGED <<objects, raced>> PROVE Backed'
  BY <1>k, <1>p, BackedKept
<1>b. ASSUME NEW m \in Messages, NEW S, Bind(m, S) PROVE SameFiles
  <2>1. Stored' = Stored \ Dropped(m, S) BY <1>b DEF Bind, Stored
  <2>2. QED BY <1>b, <1>t, <2>1 DEF Bind, SameFiles, RowTypes, Attachment
<1>1. ASSUME NEW t \in Threads, NEW c \in Contents, BeginUpload(t, c) PROVE Backed'
  <2>1. [For(next, "persist") EXCEPT !.content = c].step = "persist" BY DEF For, Idle
  <2>2. QED BY <1>1, <2>1, <1>o, <1>f, <1>k DEF BeginUpload, Claims
<1>2. ASSUME NEW t \in Threads, NEW q \in {"register", "enroll"}, Goto(t, q),
             objects' = objects \cup {job[t].content}, UNCHANGED <<att, raced>>
      PROVE  Backed'
  <2>1. \A u \in Threads \ {t} : job'[u] = job[u] BY <1>2, <1>h
  <2>2. job'[t].step \in {"register", "enroll"} /\ job'[t].content \in objects' BY <1>2, <1>h
  <2>3. ObjectsAgree' BY <1>2, <1>p, <2>1, <2>2 DEF Backed, ObjectsAgree
  <2>4. RowsHaveObjects' BY <1>2, <1>p DEF Backed, RowsHaveObjects, Stored
  <2>5. QED BY <2>3, <2>4 DEF Backed
<1>3. ASSUME NEW t \in Threads, PersistObject(t) \/ Assemble(t) PROVE Backed'
  BY <1>2, <1>3 DEF PersistObject, Assemble
<1>4. ASSUME NEW t \in Threads, Register(t) \/ RegisterFails(t) PROVE Backed'
  <2>1. CASE Register(t) BY <1>t, <1>p, <2>1, <1>q, EnlistBacked DEF Register
  <2>2. CASE RegisterFails(t) BY <2>2, <1>f, <1>g, <1>k DEF RegisterFails, Claims
  <2>3. QED BY <1>4, <2>1, <2>2
<1>5. ASSUME NEW t \in Threads, Enroll(t) PROVE Backed'
  BY <1>5, <1>t, <1>p, <1>g, EnlistBacked DEF Enroll, Claims
<1>6. ASSUME NEW t \in Threads, CountReferences(t) PROVE Backed'
  <2>1. CASE ReferredIn(att, job[t].content)
    BY <1>6, <2>1, <1>f, <1>i, <1>k DEF CountReferences
  <2>2. CASE ~ReferredIn(att, job[t].content)
    <3>1. Goto(t, "drop") /\ UNCHANGED <<att, objects, raced>> BY <1>6, <2>2 DEF CountReferences
    <3>2. ObjectsAgree' BY <1>p, <1>h, <2>2, <3>1 DEF Backed, ObjectsAgree
    <3>3. RowsHaveObjects' BY <1>p, <3>1 DEF Backed, RowsHaveObjects, Stored
    <3>4. QED BY <3>2, <3>3 DEF Backed
  <2>3. QED BY <2>1, <2>2
<1>7. ASSUME NEW t \in Threads, DropObject(t) PROVE Backed'
  <2>1. NoNewClaim BY <1>7, <1>i DEF DropObject
  <2>2. job'[t].step \notin Claims BY <1>7, <1>z DEF DropObject, Claims
  <2>3. job[t].content \in raced \/ ~ReferredIn(att, job[t].content)
    BY <1>7, <1>p DEF DropObject, Backed, ObjectsAgree
  <2>4. QED BY <1>7, <1>p, <2>1, <2>2, <2>3, UnlinkBacked DEF DropObject
<1>8. ASSUME NEW t \in Threads, NEW i, CanReparse(i), StartParsing(t, i), UNCHANGED <<objects, raced>>
      PROVE  Backed'
  <2>1. SameFiles
    <3>1. /\ i \in Stored /\ Stored' = Stored /\ att'[i].filed = att[i].filed
          /\ att'[i].content = att[i].content /\ \A j \in Stored \ {i} : att'[j] = att[j]
      BY <1>8, <1>t, ReparseKeeps
    <3>2. QED BY <3>1 DEF SameFiles
  <2>2. NoNewClaim BY <1>8, <1>q DEF StartParsing
  <2>3. QED BY <1>8, <2>1, <2>2, <1>k
<1>9. ASSUME NEW t \in Threads, NEW i, Reparse(t, i) PROVE Backed'
  BY <1>8, <1>9 DEF Reparse
<1>10. ASSUME NEW t \in Threads, BackgroundParse(t) PROVE Backed'
  BY <1>8, <1>10, <1>f, <1>i, <1>k DEF BackgroundParse
<1>11. ASSUME NEW t \in Threads, Parse(t) PROVE Backed'
  BY <1>11, <1>f, <1>g, <1>k DEF Parse, Claims
<1>12. ASSUME NEW t \in Threads, Index(t) PROVE Backed'
  <2>1. SameFiles BY <1>12, <1>t, ParsedKeeps DEF Index, SameFiles
  <2>2. QED BY <1>12, <2>1, <1>i, <1>k DEF Index
<1>13. ASSUME NEW t \in Threads, NEW i, Delete(t, i) PROVE Backed'
  <2>1. SameFiles BY <1>13, DeleteKeeps DEF SameFiles
  <2>2. UNCHANGED <<objects, raced>> BY <1>13 DEF Delete
  <2>3. CASE LastReference(i)
    <3> DEFINE j == [Idle EXCEPT !.step = "drop", !.content = att[i].content]
    <3>1. j.step = "drop" /\ j.content = att[i].content BY DEF Idle
    <3>2. Do(t, j) /\ att' = Restrict(att, Stored \ {i}) BY <1>13, <2>3 DEF Delete
    <3>3. job'[t] = j /\ \A u \in Threads \ {t} : job'[u] = job[u]
      BY <1>t, <3>2 DEF Do, JobTypes
    <3>4. ~ReferredIn(att', att[i].content) BY <2>3, <3>2 DEF LastReference
    <3>5. \A c : ReferredIn(att', c) => ReferredIn(att, c)
      BY <2>1 DEF SameFiles, ReferredIn, Stored
    <3>6. ObjectsAgree' BY <1>p, <2>2, <3>1, <3>3, <3>4, <3>5 DEF Backed, ObjectsAgree
    <3>7. RowsHaveObjects' BY <1>p, <2>1, <2>2 DEF Backed, RowsHaveObjects, SameFiles
    <3>8. QED BY <3>6, <3>7 DEF Backed
  <2>4. CASE ~LastReference(i) BY <1>13, <2>1, <2>2, <2>4, <1>n, <1>k DEF Delete
  <2>5. QED BY <2>3, <2>4
<1>14. ASSUME NEW u \in Uploads, OpenUpload(u) \/ CancelUpload(u) PROVE Backed'
  BY <1>14, <1>f, <1>n, <1>k DEF OpenUpload, CancelUpload
<1>15. ASSUME NEW u \in Uploads, NEW p \in Parts, WriteChunk(u, p) \/ Damage(u, p) PROVE Backed'
  BY <1>15, <1>f, <1>n, <1>k DEF WriteChunk, Damage
<1>16. ASSUME NEW t \in Threads, NEW u \in Uploads, Complete(t, u) PROVE Backed'
  <2> DEFINE j == [For(next, "assemble") EXCEPT !.content = ContentOf[u], !.upload = u]
  <2>1. j.step = "assemble" BY DEF For, Idle
  <2>2. Do(t, For(upload[u].id, "queued")) \/ UNCHANGED job \/ Do(t, j) BY <1>16 DEF Complete
  <2>3. NoNewClaim BY <2>1, <2>2, <1>n, <1>o, <1>q DEF Claims
  <2>4. QED BY <1>16, <2>3, <1>f, <1>k DEF Complete
<1>17. ASSUME NEW t \in Threads, AssemblyFails(t) PROVE Backed'
  <2>1. NoNewClaim /\ job'[t].step \notin Claims /\ UNCHANGED att
    BY <1>17, <1>i, <1>z DEF AssemblyFails, Claims
  <2>2. CASE UNCHANGED <<objects, raced>> BY <2>1, <2>2, <1>f, <1>k
  <2>3. CASE Unlink(t) /\ ~ReferredIn(att, job[t].content)
    BY <1>p, <2>1, <2>3, UnlinkBacked
  <2>4. QED BY <1>17, <2>2, <2>3 DEF AssemblyFails
<1>18. ASSUME NEW t \in Threads, FinishUpload(t) PROVE Backed'
  BY <1>18, <1>f, <1>q, <1>k DEF FinishUpload
<1>19. ASSUME NEW m \in Messages, Append(m) \/ Edit(m) PROVE Backed'
  <2>1. SameFiles BY <1>19, <1>b DEF Append, Edit, Refers, Plain
  <2>2. NoNewClaim BY <1>19, <1>n, <1>m DEF Append, Edit
  <2>3. QED BY <1>19, <2>1, <2>2, <1>k DEF Append, Edit
<1>20. ASSUME NEW t \in Threads, NEW m \in Messages, PrepareEdit(t, m) PROVE Backed'
  <2>1. PICK C \in SUBSET Ready : Do(t, [Idle EXCEPT !.step = "answering", !.message = m, !.evidence = C])
    BY <1>20 DEF PrepareEdit
  <2>2. [Idle EXCEPT !.step = "answering", !.message = m, !.evidence = C].step = "answering"
    BY DEF Idle
  <2>3. QED BY <1>20, <2>1, <2>2, <1>f, <1>o, <1>k DEF PrepareEdit, Claims
<1>21. ASSUME NEW t \in Threads, CommitEdit(t) PROVE Backed'
  <2>1. job[t].message \in Messages
    BY <1>21, <1>t DEF CommitEdit, JobsAgree, JobShape, JobTypes, Job
  <2>2. QED BY <1>21, <2>1, <1>b, <1>m, <1>k DEF CommitEdit, Plain
<1>22. ASSUME NEW t \in Threads, AbandonEdit(t) PROVE Backed'
  BY <1>22, <1>f, <1>i, <1>k DEF AbandonEdit
<1>23. CASE Prune BY <1>23, <1>f, <1>n, <1>k DEF Prune
<1>24. CASE Crash
  <2>1. NoNewClaim BY <1>24 DEF Crash, NoNewClaim, Idle, Claims
  <2>2. QED BY <1>24, <2>1, <1>f, <1>k DEF Crash
<1>25. ASSUME NEW i \in Stored, MigrateLegacy(i) PROVE Backed'
  <2>1. Stored' = Stored /\ objects' = objects \cup {att[i].content} /\ UNCHANGED <<raced, job, serving>>
        /\ ~serving
    BY <1>25 DEF MigrateLegacy, Stored
  <2>2. att'[i].content = att[i].content /\ \A j \in Stored \ {i} : att'[j] = att[j]
    BY <1>25, <1>t DEF MigrateLegacy, RowTypes, Attachment
  <2>3. ObjectsAgree' BY <1>t, <2>1 DEF JobsAgree, DownIsIdle, ObjectsAgree, Idle
  <2>4. RowsHaveObjects' BY <1>p, <2>1, <2>2 DEF Backed, RowsHaveObjects
  <2>5. QED BY <2>3, <2>4 DEF Backed
<1>26. ASSUME NEW i \in Stored, ResumeParsing(i) PROVE Backed'
  <2>1. Preserved(i) \in BOOLEAN BY <1>t DEF Preserved, RowTypes, Attachment
  <2>2. SameFiles BY <1>26, <1>t, <2>1, ParsedKeeps DEF ResumeParsing, SameFiles
  <2>3. QED BY <1>26, <2>2, <1>n, <1>k DEF ResumeParsing
<1>27. CASE Serve
  <2>1. /\ UNCHANGED <<att, raced, job>> /\ objects' = Swept /\ ~serving /\ Stored' = Stored
    BY <1>27 DEF Serve, Stored
  <2>2. ObjectsAgree' BY <1>t, <2>1 DEF JobsAgree, DownIsIdle, ObjectsAgree, Idle
  <2>3. RowsHaveObjects' BY <1>p, <2>1 DEF Backed, RowsHaveObjects, Swept, ReferredIn, Stored
  <2>4. QED BY <2>2, <2>3 DEF Backed
<1>28. CASE UNCHANGED vars BY <1>28, <1>f, <1>n, <1>k DEF vars
<1>29. QED
  BY <1>1, <1>3, <1>4, <1>5, <1>6, <1>7, <1>9, <1>10, <1>11, <1>12, <1>13, <1>14, <1>15, <1>16,
     <1>17, <1>18, <1>19, <1>20, <1>21, <1>22, <1>23, <1>24, <1>25, <1>26, <1>27, <1>28
     DEF Next, Requests, Continue, Client, Start
-----------------------------------------------------------------------------
(* Assemblies.                                                             *)

Assemblies == OneAssembly /\ NoAbandonedAssembly
Assembling(t) == job[t].step \in Assembly
LEMMA AssembliesKept ==
  ASSUME Assemblies, serving' = serving,
         \A t \in Threads : Assembling(t)' => Assembling(t),
         \A t \in Threads : Assembling(t) => Assembling(t)' /\ job'[t].upload = job[t].upload,
         \A u \in Uploads : upload'[u].status = "assembling" => upload[u].status = "assembling"
  PROVE  Assemblies'
<1>1. OneAssembly' BY DEF Assemblies, OneAssembly, Assembling
<1>2. NoAbandonedAssembly' BY DEF Assemblies, NoAbandonedAssembly, Assembling
<1>3. QED BY <1>1, <1>2 DEF Assemblies

LEMMA AssembliesStep == IInv /\ [Next]_vars => Assemblies'
<1> SUFFICES ASSUME IInv, [Next]_vars PROVE Assemblies'
  OBVIOUS
<1> USE DEF At, marks, process
<1>p. Assemblies BY DEF IInv, Assemblies
<1>t. JobTypes /\ UploadTypes /\ JobsAgree BY DEF IInv, TypeOK, JobTypes, UploadTypes
<1>s. \A t \in Threads : JobShape(job[t]) BY <1>t DEF JobsAgree
<1> DEFINE SameJobs == /\ \A t \in Threads : Assembling(t)' => Assembling(t)
                       /\ \A t \in Threads : Assembling(t) =>
                            Assembling(t)' /\ job'[t].upload = job[t].upload
           SameUploads == \A u \in Uploads : upload'[u].status = "assembling" =>
                            upload[u].status = "assembling"
<1>k. ASSUME serving' = serving, SameJobs, SameUploads PROVE Assemblies'
  BY <1>k, <1>p, AssembliesKept
<1>n. UNCHANGED job => SameJobs BY DEF Assembling
<1>u. UNCHANGED upload => SameUploads OBVIOUS
<1>o. ASSUME NEW t \in Threads, NEW j, Do(t, j), j.step \notin Assembly, job[t].step \notin Assembly
      PROVE  SameJobs
  BY <1>o, <1>t DEF Do, JobTypes, Assembling
<1>i. ASSUME NEW t \in Threads, Do(t, Idle), job[t].step \notin Assembly PROVE SameJobs
  BY <1>i, <1>o DEF Idle, Assembly
<1>q. ASSUME NEW t \in Threads, NEW i, Do(t, For(i, "queued")) \/ Do(t, For(i, "parse")),
             job[t].step \notin Assembly
      PROVE  SameJobs
  BY <1>q, <1>o DEF For, Idle, Assembly
<1>h. \A t \in Threads : \A q : Goto(t, q) =>
        /\ job'[t].step = q /\ job'[t].upload = job[t].upload
        /\ \A v \in Threads \ {t} : job'[v] = job[v]
  BY <1>t DEF Goto, Do, JobTypes, Job
<1>g. ASSUME NEW t \in Threads, NEW q, Goto(t, q), q \in Assembly <=> job[t].step \in Assembly
      PROVE  SameJobs
  BY <1>g, <1>h DEF Assembling
<1>m. ASSUME NEW m \in Messages, job' = StaleFor(m) PROVE SameJobs
  <2>1. \A t \in Threads : job[t].message = m => job[t].step = "answering"
    BY <1>s, NoneIsNothing DEF JobShape
  <2>2. QED BY <1>m, <2>1 DEF StaleFor, Assembling, Idle, Assembly
<1>b. ASSUME NEW m \in Messages, NEW S, Bind(m, S) PROVE SameUploads
  BY <1>b, <1>t DEF Bind, UploadTypes, Session
<1>1. ASSUME NEW t \in Threads, NEW c \in Contents, BeginUpload(t, c) PROVE Assemblies'
  <2>1. [For(next, "persist") EXCEPT !.content = c].step = "persist" BY DEF For, Idle
  <2>2. SameJobs BY <1>1, <2>1, <1>o DEF BeginUpload, Assembly
  <2>3. QED BY <1>1, <2>2, <1>k DEF BeginUpload
<1>2. ASSUME NEW t \in Threads, PersistObject(t) PROVE Assemblies'
  <2>1. SameJobs BY <1>2, <1>g DEF PersistObject, Assembly
  <2>2. QED BY <1>2, <2>1, <1>k DEF PersistObject
<1>3. ASSUME NEW t \in Threads, Register(t) \/ RegisterFails(t) PROVE Assemblies'
  <2>1. SameJobs BY <1>3, <1>q, <1>g DEF Register, RegisterFails, Assembly
  <2>2. QED BY <1>3, <2>1, <1>k DEF Register, RegisterFails
<1>4. ASSUME NEW t \in Threads, CountReferences(t) PROVE Assemblies'
  <2>1. SameJobs BY <1>4, <1>i, <1>g DEF CountReferences, Assembly
  <2>2. QED BY <1>4, <2>1, <1>k DEF CountReferences
<1>5. ASSUME NEW t \in Threads, DropObject(t) PROVE Assemblies'
  <2>1. SameJobs BY <1>5, <1>i DEF DropObject, Assembly
  <2>2. QED BY <1>5, <2>1, <1>k DEF DropObject
<1>6. ASSUME NEW t \in Threads, NEW i, Reparse(t, i) PROVE Assemblies'
  <2>1. SameJobs BY <1>6, <1>q DEF Reparse, StartParsing, Assembly
  <2>2. QED BY <1>6, <2>1, <1>k DEF Reparse
<1>7. ASSUME NEW t \in Threads, BackgroundParse(t) PROVE Assemblies'
  <2>1. SameJobs BY <1>7, <1>q, <1>i DEF BackgroundParse, StartParsing, Assembly
  <2>2. QED BY <1>7, <2>1, <1>k DEF BackgroundParse
<1>8. ASSUME NEW t \in Threads, Parse(t) PROVE Assemblies'
  <2>1. SameJobs BY <1>8, <1>g DEF Parse, Assembly
  <2>2. QED BY <1>8, <2>1, <1>k DEF Parse
<1>9. ASSUME NEW t \in Threads, Index(t) PROVE Assemblies'
  <2>1. SameJobs BY <1>9, <1>i DEF Index, Assembly
  <2>2. QED BY <1>9, <2>1, <1>k DEF Index
<1>10. ASSUME NEW t \in Threads, NEW i, Delete(t, i) PROVE Assemblies'
  <2>1. [Idle EXCEPT !.step = "drop", !.content = att[i].content].step = "drop" BY DEF Idle
  <2>2. SameJobs BY <1>10, <2>1, <1>o, <1>n DEF Delete, Assembly
  <2>3. SameUploads BY <1>10, <1>t DEF Delete, Unopened
  <2>4. QED BY <1>10, <2>2, <2>3, <1>k DEF Delete
<1>11. ASSUME NEW u \in Uploads, OpenUpload(u) \/ CancelUpload(u) PROVE Assemblies'
  <2>1. SameUploads
    BY <1>11, <1>t DEF OpenUpload, CancelUpload, UploadTypes, Session, Unopened
  <2>2. QED BY <1>11, <2>1, <1>n, <1>k DEF OpenUpload, CancelUpload
<1>12. ASSUME NEW u \in Uploads, NEW p \in Parts, WriteChunk(u, p) \/ Damage(u, p) PROVE Assemblies'
  <2>1. SameUploads BY <1>12, <1>t DEF WriteChunk, Damage, UploadTypes, Session
  <2>2. QED BY <1>12, <2>1, <1>n, <1>k DEF WriteChunk, Damage
<1>13. ASSUME NEW t \in Threads, NEW u \in Uploads, Complete(t, u) PROVE Assemblies'
  <2> DEFINE j == [For(next, "assemble") EXCEPT !.content = ContentOf[u], !.upload = u]
  <2>1. j.step = "assemble" /\ j.upload = u BY DEF For, Idle
  <2>2. \A v \in Threads : ~Assembling(v) BY <1>13 DEF Complete, Unlocked, Assembling
  <2>3. \A v \in Uploads : upload[v].status # "assembling"
    BY <1>13, <1>p, <2>2 DEF Complete, Assemblies, NoAbandonedAssembly, Assembling
  <2>4. CASE upload[u].status = "completed" /\ upload[u].id # 0
    <3>1. SameJobs BY <1>13, <2>4, <1>q DEF Complete, Assembly
    <3>2. QED BY <1>13, <2>4, <3>1, <1>k DEF Complete
  <2>5. CASE ~(upload[u].status = "completed" /\ upload[u].id # 0)
    <3>1. CASE Bad(u) # {}
      <4>1. SameUploads BY <1>13, <2>3, <2>5, <3>1, <1>t DEF Complete, UploadTypes, Session
      <4>2. QED BY <1>13, <2>5, <3>1, <4>1, <1>n, <1>k DEF Complete
    <3>2. CASE Bad(u) = {}
      <4>1. Do(t, j) /\ upload' = [upload EXCEPT ![u].status = "assembling"]
        BY <1>13, <2>5, <3>2 DEF Complete
      <4>2. job'[t] = j /\ \A v \in Threads \ {t} : job'[v] = job[v]
        BY <4>1, <1>t DEF Do, JobTypes
      <4>3. \A v \in Uploads : v # u => upload'[v] = upload[v] BY <4>1, <1>t DEF UploadTypes
      <4>4. OneAssembly' BY <2>2, <4>2 DEF OneAssembly, Assembling
      <4>5. ASSUME NEW v \in Uploads, upload'[v].status = "assembling"
            PROVE  job'[t].upload = v /\ job'[t].step \in Assembly
        BY <2>1, <2>3, <4>2, <4>3, <4>5 DEF Assembly
      <4>6. NoAbandonedAssembly' BY <4>5 DEF NoAbandonedAssembly
      <4>7. QED BY <4>4, <4>6 DEF Assemblies
    <3>3. QED BY <3>1, <3>2
  <2>6. QED BY <2>4, <2>5
<1>14. ASSUME NEW t \in Threads, Assemble(t) PROVE Assemblies'
  <2>1. SameJobs BY <1>14, <1>g DEF Assemble, Assembly
  <2>2. QED BY <1>14, <2>1, <1>k DEF Assemble
<1>15. ASSUME NEW t \in Threads, Enroll(t) PROVE Assemblies'
  <2>1. SameJobs BY <1>15, <1>g DEF Enroll, Assembly
  <2>2. QED BY <1>15, <2>1, <1>k DEF Enroll
<1>e. ASSUME NEW t \in Threads, serving, Assembling(t), NEW j, Do(t, j), j.step \notin Assembly,
             \A u \in Uploads : upload'[u].status = "assembling" =>
                                upload[u].status = "assembling" /\ u # job[t].upload
      PROVE  Assemblies'
  <2>1. job'[t] = j /\ \A v \in Threads \ {t} : job'[v] = job[v] BY <1>e, <1>t DEF Do, JobTypes
  <2>2. \A v \in Threads \ {t} : ~Assembling(v) BY <1>e, <1>p DEF Assemblies, OneAssembly, Assembling
  <2>3. \A v \in Threads : ~Assembling(v)' BY <1>e, <2>1, <2>2 DEF Assembling
  <2>4. \A u \in Uploads : upload'[u].status # "assembling"
    BY <1>e, <1>p, <2>2 DEF Assemblies, NoAbandonedAssembly, Assembling
  <2>5. QED BY <2>3, <2>4 DEF Assemblies, OneAssembly, NoAbandonedAssembly, Assembling
<1>16. ASSUME NEW t \in Threads, AssemblyFails(t) PROVE Assemblies'
  <2>1. \A u \in Uploads : upload'[u].status = "assembling" =>
                           upload[u].status = "assembling" /\ u # job[t].upload
    BY <1>16, <1>t DEF AssemblyFails, UploadTypes, Session
  <2>2. Idle.step \notin Assembly BY DEF Idle, Assembly
  <2>3. QED BY <1>16, <1>e, <2>1, <2>2 DEF AssemblyFails, Assembling, Assembly
<1>17. ASSUME NEW t \in Threads, FinishUpload(t) PROVE Assemblies'
  <2>1. \A u \in Uploads : upload'[u].status = "assembling" =>
                           upload[u].status = "assembling" /\ u # job[t].upload
    BY <1>17, <1>t DEF FinishUpload, UploadTypes, Session, Unopened
  <2>2. For(job[t].id, "queued").step \notin Assembly BY DEF For, Idle, Assembly
  <2>3. QED BY <1>17, <1>e, <2>1, <2>2 DEF FinishUpload, Assembling, Assembly
<1>18. ASSUME NEW m \in Messages, Append(m) PROVE Assemblies'
  <2>1. SameUploads BY <1>18, <1>b DEF Append, Refers, Plain
  <2>2. QED BY <1>18, <2>1, <1>n, <1>k DEF Append
<1>19. ASSUME NEW m \in Messages, Edit(m) PROVE Assemblies'
  <2>1. SameUploads BY <1>19, <1>b DEF Edit, Refers, Plain
  <2>2. QED BY <1>19, <2>1, <1>m, <1>k DEF Edit
<1>20. ASSUME NEW t \in Threads, NEW m \in Messages, PrepareEdit(t, m) PROVE Assemblies'
  <2>1. PICK C \in SUBSET Ready : Do(t, [Idle EXCEPT !.step = "answering", !.message = m, !.evidence = C])
    BY <1>20 DEF PrepareEdit
  <2>2. [Idle EXCEPT !.step = "answering", !.message = m, !.evidence = C].step = "answering"
    BY DEF Idle
  <2>3. SameJobs BY <1>20, <2>1, <2>2, <1>o DEF PrepareEdit, Assembly
  <2>4. QED BY <1>20, <2>3, <1>k DEF PrepareEdit
<1>21. ASSUME NEW t \in Threads, CommitEdit(t) PROVE Assemblies'
  <2>1. job[t].message \in Messages BY <1>21, <1>s, <1>t DEF CommitEdit, JobShape, JobTypes, Job
  <2>2. SameUploads BY <1>21, <2>1, <1>b DEF CommitEdit, Plain
  <2>3. SameJobs BY <1>21, <2>1, <1>m DEF CommitEdit
  <2>4. QED BY <1>21, <2>2, <2>3, <1>k DEF CommitEdit
<1>22. ASSUME NEW t \in Threads, AbandonEdit(t) PROVE Assemblies'
  <2>1. SameJobs BY <1>22, <1>i DEF AbandonEdit, Assembly
  <2>2. QED BY <1>22, <2>1, <1>k DEF AbandonEdit
<1>23. CASE Prune BY <1>23, <1>n, <1>k DEF Prune
<1>24. CASE Crash
  BY <1>24 DEF Crash, Assemblies, OneAssembly, NoAbandonedAssembly, Idle, Assembly
<1>25. ASSUME NEW i \in Stored, MigrateLegacy(i) \/ ResumeParsing(i) PROVE Assemblies'
  BY <1>25, <1>n, <1>k DEF MigrateLegacy, ResumeParsing
<1>26. CASE Serve
  <2>1. \A u \in Uploads : upload'[u].status # "assembling"
    <3>1. \A u \in Uploads : upload[u] \in Session BY <1>t DEF UploadTypes
    <3>2. QED BY <1>26, <3>1 DEF Serve, Resumed, Session
  <2>2. \A t \in Threads : job'[t] = Idle BY <1>26, <1>t DEF Serve, JobsAgree, DownIsIdle
  <2>3. QED BY <2>1, <2>2 DEF Assemblies, OneAssembly, NoAbandonedAssembly, Idle, Assembly
<1>27. CASE UNCHANGED vars BY <1>27, <1>n, <1>k DEF vars
<1>28. QED
  BY <1>1, <1>2, <1>3, <1>4, <1>5, <1>6, <1>7, <1>8, <1>9, <1>10, <1>11, <1>12, <1>13, <1>14,
     <1>15, <1>16, <1>17, <1>18, <1>19, <1>20, <1>21, <1>22, <1>23, <1>24, <1>25, <1>26, <1>27
     DEF Next, Requests, Continue, Client, Start
-----------------------------------------------------------------------------
(* The inductive invariant, and what it shows.                             *)

LEMMA InitInvariant == Init => IInv
<1> SUFFICES ASSUME Init PROVE IInv
  OBVIOUS
<1>1. TypeOK /\ JobsAgree BY InitTypes
<1>2. /\ serving = FALSE /\ overlapped = {} /\ raced = {} /\ \A m \in Messages : cites[m] = {}
      /\ \A t \in Threads : job[t].step = "idle"
  BY DEF Init, Idle
<1>3. \A i \in Stored : /\ ~att[i].filed /\ ~att[i].chunks
                        /\ att[i].message # None => att[i].context
  <2>1. CASE att = <<>>
    <3>1. Stored = {} BY <2>1 DEF Stored
    <3>2. QED BY <3>1
  <2>2. CASE att # <<>>
    <3>1. PICK c \in Legacy, m \in Owners \cup {None} : att = [i \in {1} |-> Inline(c, m)]
      BY <2>2 DEF Init
    <3>2. /\ ~Inline(c, m).filed /\ ~Inline(c, m).chunks
          /\ Inline(c, m).message # None => Inline(c, m).context
      BY DEF Inline, Uploaded
    <3>3. QED BY <3>1, <3>2 DEF Stored
  <2>3. QED BY <2>1, <2>2
<1>4. InlineIsOld BY <1>2, <1>3 DEF InlineIsOld
<1>5. EvidenceStays BY <1>2 DEF EvidenceStays
<1>6. ParsersAgree BY <1>2 DEF ParsersAgree, ParserOf
<1>7. EvidenceIsFixed BY <1>2, <1>3 DEF EvidenceIsFixed, Settled, Cited
<1>8. ObjectsAgree /\ RowsHaveObjects BY <1>2, <1>3 DEF ObjectsAgree, RowsHaveObjects
<1>9. OneAssembly /\ NoAbandonedAssembly BY <1>2 DEF OneAssembly, NoAbandonedAssembly, Assembly
<1>10. MarksAgree /\ ParsingIsOwed BY <1>2 DEF MarksAgree, ParsingIsOwed
<1>11. QED BY <1>1, <1>4, <1>5, <1>6, <1>7, <1>8, <1>9, <1>10 DEF IInv

LEMMA StepInvariant == IInv /\ [Next]_vars => IInv'
<1> SUFFICES ASSUME IInv, [Next]_vars PROVE IInv'
  OBVIOUS
<1>1. TypeOK /\ JobsAgree /\ InlineIsOld /\ EvidenceStays /\ ParsersAgree BY DEF IInv
<1>2. TypeOK' /\ JobsAgree' BY <1>1, TypeStep, JobsStep
<1>3. InlineIsOld' /\ EvidenceStays' BY <1>1, InlineStep, EvidenceStep
<1>4. ParsersAgree' /\ EvidenceIsFixed' BY <1>1, ParsersStep, FixedStep
<1>5. ObjectsAgree' /\ RowsHaveObjects' BY BackedStep DEF Backed
<1>6. OneAssembly' /\ NoAbandonedAssembly' BY AssembliesStep DEF Assemblies
<1>7. MarksAgree' /\ ParsingIsOwed' BY ProgressStep DEF Progress
<1>8. QED BY <1>2, <1>3, <1>4, <1>5, <1>6, <1>7 DEF IInv

(* Rows, objects, uploads and the requests in progress always agree.       *)
THEOREM StoreInvariant == Spec => []IInv
  BY InitInvariant, StepInvariant, PTL DEF Spec

(* However attachments are deleted, parsed again and dropped by edits, no  *)
(* message cites one that is gone or has no chunks.                        *)
THEOREM StoreEvidenceStays == Spec => []EvidenceStays
<1>1. IInv => EvidenceStays BY DEF IInv
<1>2. QED BY StoreInvariant, <1>1, PTL

(* The frozen context of a bound attachment, and the readiness of a cited  *)
(* one, outlive every parse and every restart, save for those that were    *)
(* used while they were parsed anew.                                       *)
THEOREM StoreEvidenceIsFixed == Spec => []EvidenceIsFixed
<1>1. IInv => EvidenceIsFixed BY DEF IInv
<1>2. QED BY StoreInvariant, <1>1, PTL

(* A registered attachment has its object, save where the object was       *)
(* stored again while it was about to be unlinked.                         *)
THEOREM StoreRowsHaveObjects == Spec => []RowsHaveObjects
<1>1. IInv => RowsHaveObjects BY DEF IInv
<1>2. QED BY StoreInvariant, <1>1, PTL

(* A store that serves has no upload that is assembling with nobody at it. *)
THEOREM StoreNoAbandonedAssembly == Spec => []NoAbandonedAssembly
<1>1. IInv => NoAbandonedAssembly BY DEF IInv
<1>2. QED BY StoreInvariant, <1>1, PTL

(* A store that serves forgets no parse of an open conversation.           *)
THEOREM StoreParsingIsOwed == Spec => []ParsingIsOwed
<1>1. IInv => ParsingIsOwed BY DEF IInv
<1>2. QED BY StoreInvariant, <1>1, PTL
=============================================================================
