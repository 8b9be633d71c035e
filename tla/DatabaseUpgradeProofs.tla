------------------------ MODULE DatabaseUpgradeProofs ------------------------
(***************************************************************************)
(* No start, wherever it fails or dies, serves half a migration or loses   *)
(* data, and there is always a way back: proved for any builds, backups,   *)
(* faults and writes.  Whoever is past the lock is alone there, so that    *)
(* what it has found, copied, migrated or restored still holds at its next *)
(* step.                                                                   *)
(***************************************************************************)
EXTENDS DatabaseUpgrade, FiniteSetTheorems, SequenceTheorems, TLAPS

Steps == {"idle", "locked", "copied", "migrating", "verifying", "serving", "closed",
          "replacing", "replaced", "recovered"}
Backup == [content: Content, file: BOOLEAN, manifest: Statuses]

Types == /\ main \in Content /\ (wal = {} \/ \E d \in Content : wal = {d})
         /\ backups \in Seq(Backup)
         /\ pc \in [Builds -> Steps] /\ upgrade \in [Builds -> Nat]
         /\ pending \in [Builds -> Nat] /\ before \in [Builds -> Content]
         /\ removing \in [Builds -> SUBSET Nat]
         /\ offline \in [step: {"idle", "chosen", "staging", "replacing", "receipt"}, choice: Nat]
         /\ writes \in Nat

(* Whoever is past the lock holds it.                                      *)
Locked == /\ \A p \in Builds : pc[p] # "idle" => lock = p
          /\ offline.step \in {"staging", "replacing", "receipt"} => lock = Offline

(* A marker is only written after the effects, and data by Write.          *)
Whole(c, n) == c.done >= c.marks /\ c.data <= n
ContentsAgree == /\ Whole(main, writes) /\ Whole(Db, writes)
                 /\ \A b \in DOMAIN backups : Whole(backups[b].content, writes)

(* A start knows the database that it found, and its backup is the newest. *)
HasBackup(p) == /\ upgrade[p] = Len(backups) /\ upgrade[p] # 0
                /\ backups[upgrade[p]].file /\ backups[upgrade[p]].content = before[p]
BuildAgrees(p) ==
  /\ pc[p] = "locked" => upgrade[p] = 0 /\ Db = before[p]
  /\ pc[p] = "copied" => HasBackup(p) /\ Db = before[p] /\ Db.marks < Supports[p]
  /\ pc[p] \in {"migrating", "verifying", "serving"} => upgrade[p] = 0 \/ HasBackup(p)
  /\ pc[p] \in {"migrating", "verifying"} => Db.data = before[p].data
  /\ pc[p] = "migrating" => /\ Db.marks <= pending[p] /\ pending[p] <= Supports[p]
                            /\ pending[p] <= Db.done
  /\ pc[p] = "serving" => /\ Db.marks = Supports[p]
                          /\ upgrade[p] # 0 => Restorable(upgrade[p]) /\ upgrade[p] \notin removing[p]
  /\ pc[p] \in {"closed", "replacing", "replaced", "recovered"} => HasBackup(p) /\ wal = {}
  /\ pc[p] \in {"closed", "replacing"} => main.data = before[p].data
  /\ pc[p] \in {"replaced", "recovered"} => main = before[p]
  /\ pc[p] # "serving" => removing[p] = {}
  /\ removing[p] \subseteq DOMAIN backups
OfflineAgrees ==
  /\ offline.step # "idle" => offline.choice \in DOMAIN backups
  /\ offline.step \in {"replacing", "receipt"} => wal = {}
  /\ offline.step = "receipt" => main = backups[offline.choice].content

IInv == /\ Types /\ Locked /\ ContentsAgree /\ OfflineAgrees
        /\ \A p \in Builds : BuildAgrees(p)
-----------------------------------------------------------------------------
(* What the database is, after a commit and when it is closed.             *)

LEMMA DbValue ==
  /\ wal = {} => Db = main
  /\ \A d : wal = {d} => Db = d
  BY DEF Db

LEMMA DbNext ==
  /\ wal' = {} => Db' = main'
  /\ \A d : wal' = {d} => Db' = d
  /\ UNCHANGED <<main, wal>> => Db' = Db
<1>1. wal' = {} => Db' = main' BY DEF Db
<1>2. \A d : wal' = {d} => Db' = d BY DEF Db
<1>3. UNCHANGED <<main, wal>> => Db' = Db BY DEF Db
<1>4. QED BY <1>1, <1>2, <1>3

LEMMA DbType == Types => Db \in Content
  BY DbValue DEF Types

LEMMA NamesDiffer == /\ None \notin Builds /\ Offline \notin Builds /\ None # Offline
  BY BuildsAssumption

LEMMA BackupType ==
  ASSUME backups \in Seq(Backup), NEW b \in DOMAIN backups
  PROVE  backups[b].content \in Content
<1>1. backups[b] \in Backup OBVIOUS
<1>2. QED BY <1>1 DEF Backup

(* A manifest is written: nothing else of the backups changes.             *)
LEMMA Marked ==
  ASSUME backups \in Seq(Backup), NEW b \in DOMAIN backups, NEW m \in Statuses,
         backups' = [backups EXCEPT ![b].manifest = m]
  PROVE  /\ backups' \in Seq(Backup) /\ Len(backups') = Len(backups)
         /\ DOMAIN backups' = DOMAIN backups /\ backups'[b].manifest = m
         /\ \A c \in DOMAIN backups : /\ backups'[c].content = backups[c].content
                                      /\ backups'[c].file = backups[c].file
         /\ \A c \in DOMAIN backups \ {b} : backups'[c] = backups[c]
<1>1. DOMAIN backups = 1 .. Len(backups) /\ \A c \in DOMAIN backups : backups[c] \in Backup
  OBVIOUS
<1>2. [backups[b] EXCEPT !.manifest = m] \in Backup BY <1>1 DEF Backup
<1>3. backups' = [backups EXCEPT ![b] = [backups[b] EXCEPT !.manifest = m]] OBVIOUS
<1>4. backups' \in Seq(Backup) /\ Len(backups') = Len(backups) /\ DOMAIN backups' = DOMAIN backups
  BY <1>1, <1>2, <1>3
<1>5. \A c \in DOMAIN backups \ {b} : backups'[c] = backups[c] BY <1>3
<1>6. backups'[b] = [backups[b] EXCEPT !.manifest = m] BY <1>3
<1>7. QED BY <1>1, <1>4, <1>5, <1>6 DEF Backup

(* The file of a backup is removed.                                        *)
LEMMA Removed ==
  ASSUME backups \in Seq(Backup), NEW b \in DOMAIN backups,
         backups' = [backups EXCEPT ![b].file = FALSE]
  PROVE  /\ backups' \in Seq(Backup) /\ Len(backups') = Len(backups)
         /\ DOMAIN backups' = DOMAIN backups
         /\ \A c \in DOMAIN backups : backups'[c].content = backups[c].content
         /\ \A c \in DOMAIN backups \ {b} : backups'[c] = backups[c]
<1>1. DOMAIN backups = 1 .. Len(backups) /\ \A c \in DOMAIN backups : backups[c] \in Backup
  OBVIOUS
<1>2. [backups[b] EXCEPT !.file = FALSE] \in Backup BY <1>1 DEF Backup
<1>3. backups' = [backups EXCEPT ![b] = [backups[b] EXCEPT !.file = FALSE]] OBVIOUS
<1>4. backups' \in Seq(Backup) /\ Len(backups') = Len(backups) /\ DOMAIN backups' = DOMAIN backups
  BY <1>1, <1>2, <1>3
<1>5. \A c \in DOMAIN backups \ {b} : backups'[c] = backups[c] BY <1>3
<1>6. backups'[b] = [backups[b] EXCEPT !.file = FALSE] BY <1>3
<1>7. QED BY <1>1, <1>4, <1>5, <1>6 DEF Backup

LEMMA InitInvariant == Init => IInv
<1> SUFFICES ASSUME Init PROVE IInv
  OBVIOUS
<1> USE BuildsAssumption
<1>1. First \in Content /\ First.done = Oldest /\ First.marks = Oldest /\ First.data = 0
  BY DEF First, Content
<1>2. Db = First BY DbValue DEF Init
<1>3. Types BY <1>1 DEF Init, Types, Steps, AtRest
<1>4. Locked BY DEF Init, Locked, AtRest
<1>5. ContentsAgree BY <1>1, <1>2 DEF Init, ContentsAgree, Whole
<1>6. OfflineAgrees BY DEF Init, OfflineAgrees, AtRest
<1>7. \A p \in Builds : BuildAgrees(p) BY DEF Init, BuildAgrees
<1>8. QED BY <1>3, <1>4, <1>5, <1>6, <1>7 DEF IInv

(* Past the lock a build is alone.                                         *)
LEMMA Alone ==
  ASSUME IInv, NEW p \in Builds, lock = p \/ lock = None
  PROVE  /\ \A q \in Builds : q # p => pc[q] = "idle" /\ removing[q] = {}
         /\ offline.step \in {"idle", "chosen"}
  BY NamesDiffer DEF IInv, Locked, BuildAgrees, Types

LEMMA OthersRest ==
  ASSUME NEW p \in Builds, BuildAgrees(p)',
         \A q \in Builds : q # p => pc'[q] = "idle" /\ removing'[q] = {}
  PROVE  \A q \in Builds : BuildAgrees(q)'
  BY DEF BuildAgrees

(* The restore command rests while a build is at work.                     *)
LEMMA OfflineRests ==
  ASSUME Types, OfflineAgrees, offline.step \in {"idle", "chosen"}, UNCHANGED offline,
         DOMAIN backups \subseteq DOMAIN backups'
  PROVE  OfflineAgrees'
  BY DEF OfflineAgrees

(* So a step of a build is about that build, the database and the backups. *)
LEMMA OneBuild ==
  ASSUME IInv, NEW p \in Builds, lock = p \/ lock = None, UNCHANGED offline,
         \A q \in Builds : q # p => pc'[q] = pc[q] /\ removing'[q] = removing[q],
         lock' = p \/ pc'[p] = "idle", DOMAIN backups \subseteq DOMAIN backups',
         Types', ContentsAgree', BuildAgrees(p)'
  PROVE  IInv'
<1>1. /\ \A q \in Builds : q # p => pc'[q] = "idle" /\ removing'[q] = {}
      /\ offline.step \in {"idle", "chosen"}
  BY Alone
<1>2. \A q \in Builds : BuildAgrees(q)' BY <1>1, OthersRest
<1>3. Types /\ OfflineAgrees BY DEF IInv
<1>4. OfflineAgrees' BY <1>1, <1>3, OfflineRests
<1>5. Locked' BY <1>1 DEF Locked
<1>6. QED BY <1>2, <1>4, <1>5 DEF IInv
-----------------------------------------------------------------------------
(* A managed start.                                                        *)

LEMMA StartStep ==
  ASSUME IInv, NEW p \in Builds, ManagedStart(p)
  PROVE  IInv'
<1> USE BuildsAssumption, NamesDiffer DEF startVars, fileVars
<1>t. Types /\ ContentsAgree /\ BuildAgrees(p) /\ Db \in Content BY DbType DEF IInv
<1>g. \A l \in Steps : Goto(p, l) =>
        /\ pc' \in [Builds -> Steps] /\ pc'[p] = l
        /\ \A q \in Builds : q # p => pc'[q] = pc[q]
  BY <1>t DEF Goto, Types
<1>l. pc[p] # "idle" => lock = p BY DEF IInv, Locked
<1>n. Supports[p] \in Nat /\ pending[p] \in Nat /\ upgrade[p] \in Nat /\ before[p] \in Content
  BY <1>t DEF Types
<1>1. CASE Start(p)
  <2>1. /\ pc[p] = "idle" /\ lock = None /\ lock' = p /\ pc'[p] = "locked"
        /\ pc' \in [Builds -> Steps] /\ \A q \in Builds : q # p => pc'[q] = pc[q]
        /\ before'[p] = Db /\ upgrade'[p] = 0 /\ Db' = Db
        /\ UNCHANGED <<main, wal, backups, pending, removing, offline, writes>>
    BY <1>1, <1>t, <1>g, DbNext DEF Start, Free, Types, Steps
  <2>2. Types' BY <1>1, <2>1, <1>t DEF Start, Types
  <2>3. ContentsAgree' BY <2>1, <1>t DEF ContentsAgree
  <2>4. BuildAgrees(p)' BY <2>1, <1>t DEF BuildAgrees
  <2>5. QED BY <2>1, <2>2, <2>3, <2>4, OneBuild
<1>2. CASE Prepare(p)
  <2>1. /\ pc[p] = "locked" /\ lock = p /\ upgrade[p] = 0 /\ Db = before[p] /\ Db' = Db
        /\ UNCHANGED <<main, wal, removing, before, offline, writes>>
    BY <1>2, <1>t, <1>l, DbNext DEF Prepare, BuildAgrees
  <2>2. ContentsAgree' <=> \A b \in DOMAIN backups' : Whole(backups'[b].content, writes)
    BY <2>1, <1>t DEF ContentsAgree
  <2>3. CASE Goto(p, "idle") /\ lock' = None /\ UNCHANGED <<backups, upgrade, pending>>
    <3>1. Types' /\ pc'[p] = "idle" /\ \A q \in Builds : q # p => pc'[q] = pc[q]
      BY <2>1, <2>3, <1>t, <1>g DEF Types, Steps
    <3>2. ContentsAgree' BY <2>2, <2>3, <1>t DEF ContentsAgree
    <3>3. BuildAgrees(p)' BY <2>1, <2>3, <3>1, <1>t DEF BuildAgrees
    <3>4. QED BY <2>1, <2>3, <3>1, <3>2, <3>3, OneBuild
  <2>4. CASE Db.marks = Supports[p] /\ Open(p) /\ UNCHANGED <<lock, backups, upgrade>>
    <3>1. /\ pc'[p] = "migrating" /\ pc' \in [Builds -> Steps]
          /\ \A q \in Builds : q # p => pc'[q] = pc[q]
      BY <2>4, <1>g DEF Open, Steps
    <3>2. pending' = [pending EXCEPT ![p] = Db.marks] /\ Db.marks \in Nat
      BY <2>4, <1>n DEF Open
    <3>3. Types' BY <2>1, <2>4, <3>1, <3>2, <1>t DEF Types
    <3>4. ContentsAgree' BY <2>2, <2>4, <1>t DEF ContentsAgree
    <3>5. pending'[p] = Db.marks BY <3>2, <1>t DEF Types
    <3>6. Db.marks <= Db.done /\ Db.done \in Nat BY <1>t DEF ContentsAgree, Whole, Content
    <3>7. BuildAgrees(p)' BY <2>1, <2>4, <3>1, <3>2, <3>5, <3>6, <1>n, <1>t DEF BuildAgrees
    <3>8. QED BY <2>1, <2>4, <3>1, <3>3, <3>4, <3>7, OneBuild
  <2>5. CASE /\ Db.marks < Supports[p] /\ Len(backups) < MaxBackups
             /\ backups' = Append(backups, [content |-> Snapshot, file |-> TRUE, manifest |-> "none"])
             /\ upgrade' = [upgrade EXCEPT ![p] = Len(backups) + 1]
             /\ Goto(p, "copied") /\ UNCHANGED <<lock, pending>>
    <3> DEFINE b == [content |-> Db, file |-> TRUE, manifest |-> "none"]
    <3>1. b \in Backup BY <1>t DEF Backup, Statuses
    <3>2. backups' = Append(backups, b) BY <2>5 DEF Snapshot
    <3>3. /\ backups' \in Seq(Backup) /\ Len(backups') = Len(backups) + 1
          /\ backups'[Len(backups) + 1] = b /\ \A c \in 1 .. Len(backups) : backups'[c] = backups[c]
      <4> HIDE DEF b
      <4>1. backups \in Seq(Backup) BY <1>t DEF Types
      <4>2. QED BY <3>1, <3>2, <4>1, AppendProperties
    <3>4. /\ pc'[p] = "copied" /\ pc' \in [Builds -> Steps]
          /\ \A q \in Builds : q # p => pc'[q] = pc[q]
      BY <2>5, <1>g DEF Steps
    <3>5. DOMAIN backups = 1 .. Len(backups) /\ DOMAIN backups' = 1 .. Len(backups) + 1
          /\ Len(backups) \in Nat
      BY <3>3, <1>t DEF Types
    <3>6. upgrade' \in [Builds -> Nat] /\ upgrade'[p] = Len(backups) + 1
      BY <2>5, <3>5, <1>t DEF Types
    <3>7. Types' BY <2>1, <2>5, <3>3, <3>4, <3>6, <1>t DEF Types
    <3>8. ContentsAgree'
      <4>1. \A c \in 1 .. Len(backups) : Whole(backups'[c].content, writes)
        BY <3>3, <3>5, <1>t DEF ContentsAgree
      <4>2. Whole(backups'[Len(backups) + 1].content, writes)
        BY <3>3, <1>t DEF ContentsAgree
      <4>3. QED BY <2>2, <3>5, <4>1, <4>2
    <3>9. BuildAgrees(p)'
      <4>1. HasBackup(p)' BY <2>1, <3>3, <3>5, <3>6 DEF HasBackup
      <4>2. removing'[p] = {} BY <2>1, <1>t DEF BuildAgrees
      <4>3. QED BY <2>1, <2>5, <3>4, <4>1, <4>2 DEF BuildAgrees
    <3>10. QED BY <2>1, <2>5, <3>4, <3>5, <3>7, <3>8, <3>9, OneBuild
  <2>6. QED BY <1>2, <2>3, <2>4, <2>5 DEF Prepare
<1>i. ASSUME pc[p] \notin {"idle", "serving"}, Goto(p, "idle"), lock' = None, offline' = offline,
             UNCHANGED <<fileVars, backups, startVars, removing, writes>>
      PROVE  IInv'
  <2>1. /\ pc' \in [Builds -> Steps] /\ pc'[p] = "idle" /\ \A q \in Builds : q # p => pc'[q] = pc[q]
    BY <1>i, <1>g DEF Steps
  <2>2. Types' BY <1>i, <2>1, <1>t DEF Types
  <2>3. ContentsAgree' BY <1>i, <1>t, DbNext DEF ContentsAgree
  <2>4. BuildAgrees(p)' BY <1>i, <2>1, <1>t DEF BuildAgrees
  <2>5. QED BY <1>i, <2>1, <2>2, <2>3, <2>4, <1>l, OneBuild
<1>3. CASE PrepareManifest(p)
  <2>1. /\ pc[p] = "copied" /\ lock = p /\ HasBackup(p) /\ Db = before[p] /\ Db' = Db
        /\ Db.marks < Supports[p] /\ pending' = [pending EXCEPT ![p] = Db.marks]
        /\ UNCHANGED <<main, wal, lock, upgrade, removing, before, offline, writes>>
    BY <1>3, <1>t, <1>l, DbNext DEF PrepareManifest, BuildAgrees, Open
  <2>2. /\ pc'[p] = "migrating" /\ pc' \in [Builds -> Steps]
        /\ \A q \in Builds : q # p => pc'[q] = pc[q]
    BY <1>3, <1>g DEF PrepareManifest, Open, Steps
  <2>3. upgrade[p] \in DOMAIN backups BY <2>1, <1>n, <1>t DEF HasBackup, Types
  <2>4. /\ backups' \in Seq(Backup) /\ Len(backups') = Len(backups)
        /\ DOMAIN backups' = DOMAIN backups
        /\ \A c \in DOMAIN backups : /\ backups'[c].content = backups[c].content
                                     /\ backups'[c].file = backups[c].file
    BY <1>3, <2>3, <1>t, Marked DEF PrepareManifest, Types, Statuses
  <2>5. Db.marks \in Nat /\ Db.done \in Nat /\ Db.marks <= Db.done
    BY <1>t DEF ContentsAgree, Whole, Content
  <2>6. pending'[p] = Db.marks BY <2>1, <1>t DEF Types
  <2>7. Types' BY <2>1, <2>2, <2>4, <2>5, <1>t DEF Types
  <2>8. ContentsAgree' BY <2>1, <2>4, <1>t DEF ContentsAgree
  <2>9. HasBackup(p)' BY <2>1, <2>3, <2>4 DEF HasBackup
  <2>10. BuildAgrees(p)'
    BY <2>1, <2>2, <2>4, <2>5, <2>6, <2>9, <1>n, <1>t DEF BuildAgrees
  <2>11. QED BY <2>1, <2>2, <2>4, <2>7, <2>8, <2>10, OneBuild
<1>4. CASE PrepareFails(p) BY <1>4, <1>i DEF PrepareFails
<1>c. ASSUME NEW d \in Content, Commit(d), Whole(d, writes), UNCHANGED <<backups, writes>>
      PROVE  /\ Db' = d /\ ContentsAgree'
             /\ main' \in Content /\ (wal' = {} \/ \E e \in Content : wal' = {e})
  <2>1. wal' = {d} /\ main' = main /\ Db' = d BY <1>c, DbNext DEF Commit
  <2>2. QED BY <1>c, <2>1, <1>t DEF ContentsAgree, Types
<1>k. \A d \in Content : d.data \in Nat /\ d.done \in Nat /\ d.marks \in Nat BY DEF Content
<1>5. CASE Apply(p)
  <2> DEFINE k == pending[p] + 1
             d == [Db EXCEPT !.marks = pending[p], !.done = Larger(@, k)]
  <2>1. /\ pc[p] = "migrating" /\ lock = p /\ k <= Supports[p] /\ Commit(d)
        /\ pending' = [pending EXCEPT ![p] = k]
        /\ UNCHANGED <<lock, backups, pc, upgrade, removing, before, offline, writes>>
    BY <1>5, <1>l DEF Apply
  <2>2. Db.data \in Nat /\ Db.done \in Nat /\ Db.marks \in Nat BY <1>t, <1>k
  <2>3. /\ Larger(Db.done, k) \in Nat /\ Larger(Db.done, k) >= k
    BY <2>2, <1>n DEF Larger
  <2>4. d \in Content /\ d.data = Db.data /\ d.marks = pending[p] /\ d.done = Larger(Db.done, k)
    BY <2>3, <1>t, <1>n DEF Content
  <2>5. Whole(d, writes) BY <2>3, <2>4, <1>n, <1>t DEF Whole, ContentsAgree
  <2> HIDE DEF d
  <2>6. /\ Db' = d /\ ContentsAgree' /\ main' \in Content
        /\ (wal' = {} \/ \E e \in Content : wal' = {e})
    BY <1>c, <2>1, <2>4, <2>5
  <2>7. k \in Nat /\ pending'[p] = k BY <2>1, <1>n, <1>t DEF Types
  <2>8. Types' BY <2>1, <2>6, <2>7, <1>t DEF Types
  <2>9. BuildAgrees(p)'
    <3>1. (upgrade[p] = 0 \/ HasBackup(p))' BY <2>1, <1>t DEF BuildAgrees, HasBackup
    <3>2. Db'.data = before'[p].data BY <2>1, <2>4, <2>6, <1>t DEF BuildAgrees
    <3>3. Db'.marks <= pending'[p] /\ pending'[p] <= Supports[p] /\ pending'[p] <= Db'.done
      BY <2>1, <2>3, <2>4, <2>6, <2>7, <1>n
    <3>4. removing'[p] = {} BY <2>1, <1>t DEF BuildAgrees
    <3>5. QED BY <2>1, <3>1, <3>2, <3>3, <3>4 DEF BuildAgrees
  <2>10. QED BY <2>1, <2>6, <2>8, <2>9, OneBuild
<1>6. CASE FinishMigrations(p)
  <2> DEFINE d == [Db EXCEPT !.marks = pending[p]]
  <2>1. /\ pc[p] = "migrating" /\ lock = p /\ Commit(d) /\ Goto(p, "verifying")
        /\ UNCHANGED <<lock, backups, upgrade, pending, before, removing, offline, writes>>
    BY <1>6, <1>l DEF FinishMigrations
  <2>2. /\ pc'[p] = "verifying" /\ pc' \in [Builds -> Steps]
        /\ \A q \in Builds : q # p => pc'[q] = pc[q]
    BY <2>1, <1>g DEF Steps
  <2>3. pending[p] <= Db.done BY <2>1, <1>t DEF BuildAgrees
  <2>4. d \in Content /\ d.data = Db.data /\ d.marks = pending[p] /\ d.done = Db.done
    BY <1>t, <1>n DEF Content
  <2>5. Whole(d, writes) BY <2>3, <2>4, <1>n, <1>k, <1>t DEF Whole, ContentsAgree
  <2> HIDE DEF d
  <2>6. /\ Db' = d /\ ContentsAgree' /\ main' \in Content
        /\ (wal' = {} \/ \E e \in Content : wal' = {e})
    BY <1>c, <2>1, <2>4, <2>5
  <2>7. Types' BY <2>1, <2>2, <2>6, <1>t DEF Types
  <2>8. BuildAgrees(p)'
    <3>1. (upgrade[p] = 0 \/ HasBackup(p))' BY <2>1, <1>t DEF BuildAgrees, HasBackup
    <3>2. Db'.data = before'[p].data BY <2>1, <2>4, <2>6, <1>t DEF BuildAgrees
    <3>3. removing'[p] = {} BY <2>1, <1>t DEF BuildAgrees
    <3>4. QED BY <2>2, <3>1, <3>2, <3>3 DEF BuildAgrees
  <2>9. QED BY <2>1, <2>2, <2>6, <2>7, <2>8, OneBuild
<1>7. CASE CompleteUpgrade(p)
  <2>1. /\ pc[p] = "verifying" /\ lock = p /\ Db.marks = Supports[p] /\ Db' = Db
        /\ Goto(p, "serving") /\ removing[p] = {} /\ (upgrade[p] = 0 \/ HasBackup(p))
        /\ UNCHANGED <<main, wal, lock, upgrade, pending, before, removing, offline, writes>>
    BY <1>7, <1>t, <1>l, DbNext DEF CompleteUpgrade, BuildAgrees
  <2>2. /\ pc'[p] = "serving" /\ pc' \in [Builds -> Steps]
        /\ \A q \in Builds : q # p => pc'[q] = pc[q]
    BY <2>1, <1>g DEF Steps
  <2>3. CASE upgrade[p] = 0
    <3>1. UNCHANGED backups BY <1>7, <2>3 DEF CompleteUpgrade
    <3>2. Types' /\ ContentsAgree' BY <2>1, <2>2, <3>1, <1>t DEF Types, ContentsAgree
    <3>3. BuildAgrees(p)' BY <2>1, <2>2, <2>3, <3>1 DEF BuildAgrees
    <3>4. QED BY <2>1, <2>2, <3>1, <3>2, <3>3, OneBuild
  <2>4. CASE upgrade[p] # 0
    <3>1. backups' = [backups EXCEPT ![upgrade[p]].manifest = "completed"]
      BY <1>7, <2>4 DEF CompleteUpgrade
    <3>2. upgrade[p] \in DOMAIN backups BY <2>1, <2>4, <1>n, <1>t DEF HasBackup, Types
    <3>3. /\ backups' \in Seq(Backup) /\ Len(backups') = Len(backups)
          /\ DOMAIN backups' = DOMAIN backups /\ backups'[upgrade[p]].manifest = "completed"
          /\ \A c \in DOMAIN backups : /\ backups'[c].content = backups[c].content
                                       /\ backups'[c].file = backups[c].file
      BY <3>1, <3>2, <1>t, Marked DEF Types, Statuses
    <3>4. Types' /\ ContentsAgree' BY <2>1, <2>2, <3>3, <1>t DEF Types, ContentsAgree
    <3>5. HasBackup(p)' /\ Restorable(upgrade[p])'
      BY <2>1, <2>4, <3>2, <3>3 DEF HasBackup, Restorable
    <3>6. BuildAgrees(p)' BY <2>1, <2>2, <3>5 DEF BuildAgrees, Restorable
    <3>7. QED BY <2>1, <2>2, <3>3, <3>4, <3>6, OneBuild
  <2>5. QED BY <2>3, <2>4
<1>8. CASE StartFails(p)
  <2>1. /\ pc[p] \in {"migrating", "verifying"} /\ lock = p /\ main' = Db /\ wal' = {}
        /\ (upgrade[p] = 0 \/ HasBackup(p)) /\ Db.data = before[p].data /\ removing[p] = {}
        /\ UNCHANGED <<backups, upgrade, pending, before, removing, offline, writes>>
    BY <1>8, <1>t, <1>l DEF StartFails, Close, BuildAgrees
  <2>2. Db' = Db BY <2>1, DbNext
  <2>3. ContentsAgree' BY <2>1, <2>2, <1>t DEF ContentsAgree
  <2>4. CASE upgrade[p] = 0
    <3>1. Goto(p, "idle") /\ lock' = None BY <1>8, <2>4 DEF StartFails
    <3>2. /\ pc'[p] = "idle" /\ pc' \in [Builds -> Steps]
          /\ \A q \in Builds : q # p => pc'[q] = pc[q]
      BY <3>1, <1>g DEF Steps
    <3>3. Types' BY <2>1, <3>2, <1>t DEF Types
    <3>4. BuildAgrees(p)' BY <2>1, <3>2 DEF BuildAgrees
    <3>5. QED BY <2>1, <2>3, <3>2, <3>3, <3>4, OneBuild
  <2>5. CASE upgrade[p] # 0
    <3>1. Goto(p, "closed") /\ lock' = lock BY <1>8, <2>5 DEF StartFails
    <3>2. /\ pc'[p] = "closed" /\ pc' \in [Builds -> Steps]
          /\ \A q \in Builds : q # p => pc'[q] = pc[q]
      BY <3>1, <1>g DEF Steps
    <3>3. Types' BY <2>1, <3>2, <1>t DEF Types
    <3>4. HasBackup(p)' BY <2>1, <2>5 DEF HasBackup
    <3>5. BuildAgrees(p)' BY <2>1, <3>2, <3>4 DEF BuildAgrees
    <3>6. QED BY <2>1, <2>3, <3>1, <3>2, <3>3, <3>5, OneBuild
  <2>6. QED BY <2>4, <2>5
<1>r. pc[p] \in {"closed", "replacing", "replaced", "recovered"} =>
        /\ lock = p /\ HasBackup(p) /\ wal = {} /\ removing[p] = {} /\ Db = main
        /\ upgrade[p] \in DOMAIN backups
  BY <1>t, <1>l, <1>n, DbValue DEF BuildAgrees, HasBackup, Types
<1>9. CASE RemoveSidecars(p)
  <2>1. /\ pc[p] = "closed" /\ wal' = {} /\ main.data = before[p].data
        /\ UNCHANGED <<main, lock, backups, upgrade, pending, before, removing, offline, writes>>
    BY <1>9, <1>t DEF RemoveSidecars, ClearLog, BuildAgrees
  <2>2. /\ pc'[p] = "replacing" /\ pc' \in [Builds -> Steps]
        /\ \A q \in Builds : q # p => pc'[q] = pc[q]
    BY <1>9, <1>g DEF RemoveSidecars, Steps
  <2>3. Types' BY <2>1, <2>2, <1>t DEF Types
  <2>4. ContentsAgree' BY <2>1, <1>r, <1>t, DbNext DEF ContentsAgree
  <2>5. BuildAgrees(p)' BY <2>1, <2>2, <1>r DEF BuildAgrees, HasBackup
  <2>6. QED BY <2>1, <2>2, <2>3, <2>4, <2>5, <1>r, OneBuild
<1>10. CASE Restore(p)
  <2>1. /\ pc[p] = "replacing" /\ main' = backups[upgrade[p]].content
        /\ UNCHANGED <<wal, lock, backups, upgrade, pending, before, removing, offline, writes>>
    BY <1>10 DEF Restore
  <2>2. /\ pc'[p] = "replaced" /\ pc' \in [Builds -> Steps]
        /\ \A q \in Builds : q # p => pc'[q] = pc[q]
    BY <1>10, <1>g DEF Restore, Steps
  <2>3. wal' = {} /\ Db' = main' /\ main' = before[p] BY <2>1, <1>r, DbNext DEF HasBackup
  <2>4. Types' BY <2>1, <2>2, <2>3, <1>n, <1>t DEF Types
  <2>5. ContentsAgree' BY <2>1, <2>3, <1>r, <1>t DEF ContentsAgree
  <2>6. BuildAgrees(p)' BY <2>1, <2>2, <2>3, <1>r DEF BuildAgrees, HasBackup
  <2>7. QED BY <2>1, <2>2, <2>4, <2>5, <2>6, <1>r, OneBuild
<1>11. CASE RestoreManifest(p)
  <2>1. /\ pc[p] = "replaced" /\ main = before[p]
        /\ backups' = [backups EXCEPT ![upgrade[p]].manifest = "restored"]
        /\ UNCHANGED <<main, wal, lock, upgrade, pending, before, removing, offline, writes>>
    BY <1>11, <1>t DEF RestoreManifest, BuildAgrees
  <2>2. /\ pc'[p] = "recovered" /\ pc' \in [Builds -> Steps]
        /\ \A q \in Builds : q # p => pc'[q] = pc[q]
    BY <1>11, <1>g DEF RestoreManifest, Steps
  <2>3. /\ backups' \in Seq(Backup) /\ Len(backups') = Len(backups)
        /\ DOMAIN backups' = DOMAIN backups
        /\ \A c \in DOMAIN backups : /\ backups'[c].content = backups[c].content
                                     /\ backups'[c].file = backups[c].file
    BY <2>1, <1>r, <1>t, Marked DEF Types, Statuses
  <2>4. Types' BY <2>1, <2>2, <2>3, <1>t DEF Types
  <2>5. ContentsAgree' BY <2>1, <2>3, <1>t, DbNext DEF ContentsAgree
  <2>6. HasBackup(p)' BY <2>1, <2>3, <1>r DEF HasBackup
  <2>7. BuildAgrees(p)' BY <2>1, <2>2, <2>6, <1>r DEF BuildAgrees
  <2>8. QED BY <2>1, <2>2, <2>3, <2>4, <2>5, <2>7, <1>r, OneBuild
<1>12. CASE RestoreFails(p) BY <1>12, <1>i DEF RestoreFails
<1>13. CASE ReportRecovered(p) BY <1>13, <1>i DEF ReportRecovered
<1>14. QED
  BY <1>1, <1>2, <1>3, <1>4, <1>5, <1>6, <1>7, <1>8, <1>9, <1>10, <1>11, <1>12, <1>13
     DEF ManagedStart
-----------------------------------------------------------------------------
(* A build that serves, and its death.                                     *)

(* The newest backup is never removed: no newer one stands for it.         *)
LEMMA NewestStays ==
  ASSUME backups \in Seq(Backup)
  PROVE  Len(backups) \notin Removable
<1>1. {c \in DOMAIN backups : Restorable(c) /\ c > Len(backups)} = {} OBVIOUS
<1>2. Cardinality({c \in DOMAIN backups : Restorable(c) /\ c > Len(backups)}) = 0
  BY <1>1, FS_EmptySet
<1>3. QED BY <1>2, BuildsAssumption DEF Removable

LEMMA ServeStep ==
  ASSUME IInv, NEW p \in Builds, Serve(p) \/ CrashBuild(p)
  PROVE  IInv'
<1> USE BuildsAssumption, NamesDiffer DEF startVars, fileVars
<1>t. Types /\ ContentsAgree /\ BuildAgrees(p) /\ Db \in Content BY DbType DEF IInv
<1>g. Goto(p, "idle") =>
        /\ pc' \in [Builds -> Steps] /\ pc'[p] = "idle"
        /\ \A q \in Builds : q # p => pc'[q] = pc[q]
  BY <1>t DEF Goto, Types, Steps
<1>l. pc[p] # "idle" => lock = p BY DEF IInv, Locked
<1>s. pc[p] = "serving" =>
        /\ Db.marks = Supports[p] /\ (upgrade[p] = 0 \/ HasBackup(p))
        /\ upgrade[p] # 0 => Restorable(upgrade[p]) /\ upgrade[p] \notin removing[p]
        /\ removing[p] \subseteq DOMAIN backups
  BY <1>t DEF BuildAgrees
<1>n. /\ upgrade[p] \in Nat /\ backups \in Seq(Backup) /\ writes \in Nat
      /\ removing \in [Builds -> SUBSET Nat]
  BY <1>t DEF Types
<1>1. CASE Write(p)
  <2> DEFINE d == [Db EXCEPT !.data = writes + 1]
  <2>1. /\ pc[p] = "serving" /\ writes' = writes + 1 /\ wal' = {d}
        /\ UNCHANGED <<main, lock, backups, pc, upgrade, pending, before, removing, offline>>
    BY <1>1 DEF Write, Commit
  <2>2. d \in Content /\ d.data = writes + 1 /\ d.marks = Db.marks /\ d.done = Db.done
    <3>1. \A c \in Content, n \in Nat :
            /\ [c EXCEPT !.data = n] \in Content /\ [c EXCEPT !.data = n].data = n
            /\ [c EXCEPT !.data = n].marks = c.marks /\ [c EXCEPT !.data = n].done = c.done
      BY DEF Content
    <3>2. writes + 1 \in Nat BY <1>n
    <3>3. QED BY <3>1, <3>2, <1>t
  <2> HIDE DEF d
  <2>3. Db' = d BY <2>1, DbNext
  <2>4. Types' BY <2>1, <2>2, <1>t DEF Types
  <2>5. \A c \in Content : Whole(c, writes) => Whole(c, writes + 1)
    BY <1>n DEF Whole, Content
  <2>6. Whole(d, writes + 1)
    <3>1. Db.done >= Db.marks BY <1>t DEF ContentsAgree, Whole
    <3>2. QED BY <2>2, <3>1, <1>n DEF Whole
  <2>7. main \in Content /\ \A b \in DOMAIN backups : backups[b].content \in Content
    BY <1>t, BackupType DEF Types
  <2>8. ContentsAgree' BY <2>1, <2>3, <2>5, <2>6, <2>7, <1>t DEF ContentsAgree
  <2>9. BuildAgrees(p)'
    BY <2>1, <2>2, <2>3, <1>s DEF BuildAgrees, HasBackup, Restorable
  <2>10. QED BY <2>1, <2>4, <2>8, <2>9, <1>l, OneBuild
<1>2. CASE Stop(p)
  <2>1. /\ pc[p] = "serving" /\ main' = Db /\ wal' = {} /\ Goto(p, "idle")
        /\ removing' = [removing EXCEPT ![p] = {}]
        /\ UNCHANGED <<backups, upgrade, pending, before, offline, writes>>
    BY <1>2 DEF Stop, Close
  <2>2. Db' = Db BY <2>1, DbNext
  <2>3. /\ removing' \in [Builds -> SUBSET Nat] /\ removing'[p] = {}
        /\ \A q \in Builds : q # p => removing'[q] = removing[q]
    BY <2>1, <1>n
  <2>4. Types' BY <2>1, <2>3, <1>g, <1>t DEF Types
  <2>5. ContentsAgree' BY <2>1, <2>2, <1>t DEF ContentsAgree
  <2>6. BuildAgrees(p)' BY <2>1, <2>3, <1>g DEF BuildAgrees
  <2>7. QED BY <2>1, <2>3, <2>4, <2>5, <2>6, <1>g, <1>l, OneBuild
<1>3. CASE Cleanup(p)
  <2>1. /\ pc[p] = "serving" /\ removing' = [removing EXCEPT ![p] = Removable] /\ Db' = Db
        /\ UNCHANGED <<main, wal, lock, backups, pc, upgrade, pending, before, offline, writes>>
    BY <1>3, DbNext DEF Cleanup
  <2>2. Removable \subseteq DOMAIN backups /\ DOMAIN backups \subseteq Nat
    BY <1>n DEF Removable
  <2>3. /\ removing' \in [Builds -> SUBSET Nat] /\ removing'[p] = Removable
        /\ \A q \in Builds : q # p => removing'[q] = removing[q]
    BY <2>1, <2>2, <1>n
  <2>4. Types' BY <2>1, <2>3, <1>t DEF Types
  <2>5. ContentsAgree' BY <2>1, <1>t DEF ContentsAgree
  <2>6. upgrade[p] # 0 => upgrade[p] \notin Removable
    BY <2>1, <1>s, <1>n, NewestStays DEF HasBackup
  <2>7. BuildAgrees(p)'
    BY <2>1, <2>2, <2>3, <2>6, <1>s DEF BuildAgrees, HasBackup, Restorable
  <2>8. QED BY <2>1, <2>3, <2>4, <2>5, <2>7, <1>l, OneBuild
<1>4. CASE RemoveBackup(p)
  <2>1. PICK b \in removing[p] :
          IF backups[b].file
          THEN backups' = [backups EXCEPT ![b].file = FALSE] /\ UNCHANGED removing
          ELSE /\ backups' = [backups EXCEPT ![b].manifest = "none"]
               /\ removing' = [removing EXCEPT ![p] = @ \ {b}]
    BY <1>4 DEF RemoveBackup
  <2>2. /\ pc[p] = "serving" /\ Db' = Db
        /\ UNCHANGED <<main, wal, lock, pc, upgrade, pending, before, offline, writes>>
    BY <1>4, DbNext DEF RemoveBackup
  <2>3. b \in DOMAIN backups BY <2>2, <1>s
  <2>4. /\ backups' \in Seq(Backup) /\ Len(backups') = Len(backups)
        /\ DOMAIN backups' = DOMAIN backups
        /\ \A c \in DOMAIN backups : backups'[c].content = backups[c].content
        /\ \A c \in DOMAIN backups \ {b} : backups'[c] = backups[c]
    <3>1. CASE backups[b].file BY <3>1, <2>1, <2>3, <1>n, Removed
    <3>2. CASE ~backups[b].file BY <3>2, <2>1, <2>3, <1>n, Marked DEF Statuses
    <3>3. QED BY <3>1, <3>2
  <2>5. /\ removing' \in [Builds -> SUBSET Nat] /\ removing'[p] \subseteq removing[p]
        /\ \A q \in Builds : q # p => removing'[q] = removing[q]
    BY <2>1, <1>n
  <2>6. Types' BY <2>2, <2>4, <2>5, <1>t DEF Types
  <2>7. ContentsAgree' BY <2>2, <2>4, <1>t DEF ContentsAgree
  <2>8. upgrade[p] # 0 =>
          HasBackup(p)' /\ Restorable(upgrade[p])' /\ upgrade'[p] \notin removing'[p]
    <3> SUFFICES ASSUME upgrade[p] # 0
                 PROVE  HasBackup(p)' /\ Restorable(upgrade[p])' /\ upgrade'[p] \notin removing'[p]
      BY <2>2
    <3>1. HasBackup(p) /\ Restorable(upgrade[p]) /\ upgrade[p] \notin removing[p] BY <2>2, <1>s
    <3>2. upgrade[p] \in DOMAIN backups \ {b} BY <3>1, <1>n DEF HasBackup
    <3>3. backups'[upgrade[p]] = backups[upgrade[p]] BY <2>4, <3>2
    <3>4. QED BY <2>2, <2>4, <2>5, <3>1, <3>3 DEF HasBackup, Restorable
  <2>9. BuildAgrees(p)' BY <2>2, <2>4, <2>5, <2>8, <1>s DEF BuildAgrees, Restorable
  <2>10. QED BY <2>2, <2>4, <2>5, <2>6, <2>7, <2>9, <1>l, OneBuild
<1>5. CASE CrashBuild(p)
  <2>1. /\ pc[p] # "idle" /\ lock = p /\ Goto(p, "idle") /\ Db' = Db
        /\ removing' = [removing EXCEPT ![p] = {}]
        /\ UNCHANGED <<main, wal, backups, upgrade, pending, before, offline, writes>>
    BY <1>5, <1>l, DbNext DEF CrashBuild
  <2>2. /\ removing' \in [Builds -> SUBSET Nat] /\ removing'[p] = {}
        /\ \A q \in Builds : q # p => removing'[q] = removing[q]
    BY <2>1, <1>n
  <2>3. Types' BY <2>1, <2>2, <1>g, <1>t DEF Types
  <2>4. ContentsAgree' BY <2>1, <1>t DEF ContentsAgree
  <2>5. BuildAgrees(p)' BY <2>1, <2>2, <1>g DEF BuildAgrees
  <2>6. QED BY <2>1, <2>2, <2>3, <2>4, <2>5, <1>g, OneBuild
<1>6. QED BY <1>1, <1>2, <1>3, <1>4, <1>5 DEF Serve
-----------------------------------------------------------------------------
(* The restore command, and its death.                                     *)

LEMMA OfflineOnly ==
  ASSUME IInv, UNCHANGED <<pc, removing>>, Types', ContentsAgree', OfflineAgrees',
         \/ lock \in {None, Offline} /\ lock' \in {None, Offline}
         \/ UNCHANGED <<lock, backups, main, wal, upgrade, pending, before>>,
         offline'.step \in {"staging", "replacing", "receipt"} => lock' = Offline
  PROVE  IInv'
<1>1. CASE lock \in {None, Offline} /\ lock' \in {None, Offline}
  <2>1. \A p \in Builds : pc[p] = "idle" /\ removing[p] = {}
    BY <1>1, NamesDiffer DEF IInv, Locked, BuildAgrees
  <2>2. \A p \in Builds : BuildAgrees(p)' BY <2>1 DEF BuildAgrees
  <2>3. Locked' BY <2>1 DEF Locked
  <2>4. QED BY <2>2, <2>3 DEF IInv
<1>2. CASE UNCHANGED <<lock, backups, main, wal, upgrade, pending, before>>
  <2>1. Db' = Db BY <1>2, DbNext
  <2>2. \A p \in Builds : BuildAgrees(p)'
    BY <1>2, <2>1 DEF IInv, BuildAgrees, HasBackup, Restorable
  <2>3. Locked' BY <1>2 DEF IInv, Locked
  <2>4. QED BY <2>2, <2>3 DEF IInv
<1>3. QED BY <1>1, <1>2

LEMMA RestoreStep ==
  ASSUME IInv, RestoreCommand \/ CrashOffline
  PROVE  IInv'
<1> USE NamesDiffer DEF startVars, fileVars, At, AtRest
<1>t. Types /\ ContentsAgree /\ OfflineAgrees /\ Db \in Content BY DbType DEF IInv
<1>l. offline.step \in {"staging", "replacing", "receipt"} => lock = Offline
  BY DEF IInv, Locked
<1>1. ASSUME NEW b \in DOMAIN backups, Choose(b) PROVE IInv'
  <2>1. /\ offline' = [step |-> "chosen", choice |-> b]
        /\ UNCHANGED <<main, wal, lock, backups, pc, upgrade, pending, before, removing, writes>>
    BY <1>1 DEF Choose
  <2>2. b \in Nat BY <1>t DEF Types
  <2>3. Types' BY <2>1, <2>2, <1>t DEF Types
  <2>4. ContentsAgree' BY <2>1, <1>t, DbNext DEF ContentsAgree
  <2>5. OfflineAgrees' BY <2>1 DEF OfflineAgrees
  <2>6. QED BY <2>1, <2>3, <2>4, <2>5, OfflineOnly
<1>2. CASE LockOffline
  <2>1. /\ lock = None /\ lock' = Offline /\ offline.step = "chosen"
        /\ offline' = [offline EXCEPT !.step = "staging"]
        /\ UNCHANGED <<main, wal, backups, pc, upgrade, pending, before, removing, writes>>
    BY <1>2 DEF LockOffline, Free
  <2>2. Types' BY <2>1, <1>t DEF Types
  <2>3. ContentsAgree' BY <2>1, <1>t, DbNext DEF ContentsAgree
  <2>4. offline'.step = "staging" /\ offline'.choice = offline.choice BY <2>1, <1>t DEF Types
  <2>5. OfflineAgrees' BY <2>1, <2>4, <1>t DEF OfflineAgrees
  <2>6. QED BY <2>1, <2>2, <2>3, <2>5, OfflineOnly
<1>3. CASE StageOffline
  <2>1. /\ lock = Offline /\ offline.step = "staging"
        /\ UNCHANGED <<main, backups, pc, upgrade, pending, before, removing, writes>>
    BY <1>3, <1>l DEF StageOffline
  <2>2. CASE backups[offline.choice].file
    <3>1. wal' = {} /\ lock' = lock /\ offline' = [offline EXCEPT !.step = "replacing"]
      BY <1>3, <2>2 DEF StageOffline, ClearLog
    <3>2. Types' BY <2>1, <3>1, <1>t DEF Types
    <3>3. ContentsAgree' BY <2>1, <3>1, <1>t, DbNext DEF ContentsAgree
    <3>4. offline'.step = "replacing" /\ offline'.choice = offline.choice
      BY <3>1, <1>t DEF Types
    <3>5. OfflineAgrees' BY <2>1, <3>1, <3>4, <1>t DEF OfflineAgrees
    <3>6. QED BY <2>1, <3>1, <3>2, <3>3, <3>5, OfflineOnly
  <2>3. CASE ~backups[offline.choice].file
    <3>1. UNCHANGED wal /\ lock' = None /\ offline' = AtRest
      BY <1>3, <2>3 DEF StageOffline
    <3>2. Types' BY <2>1, <3>1, <1>t DEF Types
    <3>3. ContentsAgree' BY <2>1, <3>1, <1>t, DbNext DEF ContentsAgree
    <3>4. OfflineAgrees' BY <3>1 DEF OfflineAgrees
    <3>5. QED BY <2>1, <3>1, <3>2, <3>3, <3>4, OfflineOnly
  <2>4. QED BY <2>2, <2>3
<1>4. CASE ReplaceOffline
  <2>1. /\ lock = Offline /\ offline.step = "replacing"
        /\ main' = backups[offline.choice].content
        /\ offline' = [offline EXCEPT !.step = "receipt"]
        /\ UNCHANGED <<wal, lock, backups, pc, upgrade, pending, before, removing, writes>>
    BY <1>4, <1>l DEF ReplaceOffline
  <2>2. offline.choice \in DOMAIN backups /\ wal = {} BY <2>1, <1>t DEF OfflineAgrees
  <2>3. backups[offline.choice].content \in Content BY <2>2, <1>t, BackupType DEF Types
  <2>4. Types' BY <2>1, <2>3, <1>t DEF Types
  <2>5. Db' = main' BY <2>1, <2>2, DbNext
  <2>6. ContentsAgree' BY <2>1, <2>2, <2>5, <1>t DEF ContentsAgree
  <2>7. offline'.step = "receipt" /\ offline'.choice = offline.choice BY <2>1, <1>t DEF Types
  <2>8. OfflineAgrees' BY <2>1, <2>2, <2>7 DEF OfflineAgrees
  <2>9. QED BY <2>1, <2>4, <2>6, <2>8, OfflineOnly
<1>5. CASE ReceiptOffline
  <2>1. /\ lock = Offline /\ lock' = None /\ offline.step = "receipt" /\ offline' = AtRest
        /\ backups' = [backups EXCEPT ![offline.choice].manifest = "restored"]
        /\ UNCHANGED <<main, wal, pc, upgrade, pending, before, removing, writes>>
    BY <1>5, <1>l DEF ReceiptOffline
  <2>2. offline.choice \in DOMAIN backups BY <2>1, <1>t DEF OfflineAgrees
  <2>3. /\ backups' \in Seq(Backup) /\ DOMAIN backups' = DOMAIN backups
        /\ \A c \in DOMAIN backups : backups'[c].content = backups[c].content
    BY <2>1, <2>2, <1>t, Marked DEF Types, Statuses
  <2>4. Types' BY <2>1, <2>3, <1>t DEF Types
  <2>5. ContentsAgree' BY <2>1, <2>3, <1>t, DbNext DEF ContentsAgree
  <2>6. OfflineAgrees' BY <2>1 DEF OfflineAgrees
  <2>7. QED BY <2>1, <2>4, <2>5, <2>6, OfflineOnly
<1>6. CASE CrashOffline
  <2>1. /\ offline' = AtRest /\ lock' = IF lock = Offline THEN None ELSE lock
        /\ UNCHANGED <<main, wal, backups, pc, upgrade, pending, before, removing, writes>>
    BY <1>6 DEF CrashOffline, Release
  <2>2. Types' BY <2>1, <1>t DEF Types
  <2>3. ContentsAgree' BY <2>1, <1>t, DbNext DEF ContentsAgree
  <2>4. OfflineAgrees' BY <2>1 DEF OfflineAgrees
  <2>5. QED BY <2>1, <2>2, <2>3, <2>4, OfflineOnly
<1>7. QED BY <1>1, <1>2, <1>3, <1>4, <1>5, <1>6 DEF RestoreCommand
-----------------------------------------------------------------------------
(* The theorems.                                                           *)

LEMMA StepInvariant == IInv /\ [Next]_vars => IInv'
<1> SUFFICES ASSUME IInv, [Next]_vars PROVE IInv'
  OBVIOUS
<1>1. ASSUME NEW p \in Builds, ManagedStart(p) \/ Serve(p) \/ CrashBuild(p) PROVE IInv'
  BY <1>1, StartStep, ServeStep
<1>2. CASE RestoreCommand \/ CrashOffline BY <1>2, RestoreStep
<1>3. CASE UNCHANGED vars
  <2>1. Db' = Db BY <1>3, DbNext DEF vars
  <2>2. Types' /\ Locked' BY <1>3 DEF IInv, vars, Types, Locked
  <2>3. ContentsAgree' /\ OfflineAgrees'
    BY <1>3, <2>1 DEF IInv, vars, ContentsAgree, OfflineAgrees
  <2>4. \A p \in Builds : BuildAgrees(p)'
    BY <1>3, <2>1 DEF IInv, vars, BuildAgrees, HasBackup, Restorable
  <2>5. QED BY <2>2, <2>3, <2>4 DEF IInv
<1>4. QED BY <1>1, <1>2, <1>3 DEF Next

(* Who is past the lock is alone, has a backup that is the newest and that *)
(* holds what the start found, and a marker is never ahead of its effects. *)
THEOREM UpgradeInvariant == Spec => []IInv
<1>1. QED BY InitInvariant, StepInvariant, PTL DEF Spec

(* No build serves half a migration, wherever earlier starts died.         *)
THEOREM UpgradeServedIsWhole == Spec => []ServedIsWhole
<1>1. IInv => ServedIsWhole
  BY DEF IInv, BuildAgrees, ContentsAgree, Whole, ServedIsWhole
<1>2. QED BY <1>1, UpgradeInvariant, PTL

(* What is reported as recovered, or as restored, is exactly that.         *)
THEOREM UpgradeRecoveredIsExact == Spec => []RecoveredIsExact
<1>1. IInv => RecoveredIsExact
  BY DbValue DEF IInv, BuildAgrees, OfflineAgrees, RecoveredIsExact, At
<1>2. QED BY <1>1, UpgradeInvariant, PTL

(* A build that migrated can be rolled back to what it found.              *)
THEOREM UpgradeRollbackIsThere == Spec => []RollbackIsThere
<1>1. IInv => RollbackIsThere
  BY DEF IInv, BuildAgrees, HasBackup, RollbackIsThere
<1>2. QED BY <1>1, UpgradeInvariant, PTL

(* No start, refused, failed, crashed or recovered, takes data away.       *)
THEOREM UpgradeDataOutlivesStarts == Spec => DataOutlivesStarts
<1>1. IInv /\ [Next]_vars => [lock # Offline => Db'.data >= Db.data]_vars
  <2> SUFFICES ASSUME IInv, Next, lock # Offline PROVE Db'.data >= Db.data
    OBVIOUS
  <2> USE DEF fileVars
  <2>1. Types /\ ContentsAgree /\ Db \in Content BY DbType DEF IInv
  <2>2. Db.data \in Nat /\ main.data \in Nat /\ writes \in Nat /\ Db.data <= writes
    BY <2>1 DEF Types, Content, ContentsAgree, Whole
  <2>3. ASSUME Db'.data = Db.data PROVE Db'.data >= Db.data BY <2>2, <2>3
  <2>4. ASSUME NEW p \in Builds, ManagedStart(p) PROVE Db'.data >= Db.data
    <3>1. BuildAgrees(p) BY DEF IInv
    <3>2. CASE UNCHANGED <<main, wal>> BY <3>2, <2>3, DbNext
    <3>3. CASE Apply(p) \/ FinishMigrations(p)
      <4>1. PICK d \in {[Db EXCEPT !.marks = pending[p], !.done = Larger(@, pending[p] + 1)],
                        [Db EXCEPT !.marks = pending[p]]} : wal' = {d}
        BY <3>3 DEF Apply, FinishMigrations, Commit
      <4>2. d.data = Db.data BY <2>1, <4>1 DEF Content
      <4>3. QED BY <4>1, <4>2, <2>3, DbNext
    <3>4. CASE StartFails(p) BY <3>4, <2>3, DbNext DEF StartFails, Close
    <3>5. CASE RemoveSidecars(p)
      <4>1. wal = {} /\ wal' = {} /\ main' = main
        BY <3>1, <3>5 DEF BuildAgrees, RemoveSidecars, ClearLog
      <4>2. QED BY <4>1, <2>3, DbNext, DbValue
    <3>6. CASE Restore(p)
      <4>1. /\ wal = {} /\ wal' = {} /\ main' = before[p] /\ main.data = before[p].data
        BY <3>1, <3>6 DEF BuildAgrees, HasBackup, Restore
      <4>2. QED BY <4>1, <2>3, DbNext, DbValue
    <3>7. QED BY <2>4, <3>2, <3>3, <3>4, <3>5, <3>6
         DEF ManagedStart, Start, Prepare, PrepareManifest, PrepareFails, CompleteUpgrade,
             RestoreManifest, RestoreFails, ReportRecovered
  <2>5. ASSUME NEW p \in Builds, Serve(p) \/ CrashBuild(p) PROVE Db'.data >= Db.data
    <3>1. CASE Write(p)
      <4> DEFINE d == [Db EXCEPT !.data = writes + 1]
      <4>1. wal' = {d} BY <3>1 DEF Write, Commit
      <4>2. d.data = writes + 1 BY <2>1 DEF Content
      <4> HIDE DEF d
      <4>3. Db' = d BY <4>1, DbNext
      <4>4. QED BY <4>2, <4>3, <2>2
    <3>2. CASE Stop(p) BY <3>2, <2>3, DbNext DEF Stop, Close
    <3>3. CASE UNCHANGED <<main, wal>> BY <3>3, <2>3, DbNext
    <3>4. QED BY <2>5, <3>1, <3>2, <3>3 DEF Serve, Cleanup, RemoveBackup, CrashBuild
  <2>6. CASE RestoreCommand \/ CrashOffline
    <3>1. lock # Offline => offline.step \notin {"staging", "replacing", "receipt"}
      BY DEF IInv, Locked
    <3>2. UNCHANGED <<main, wal>>
      BY <2>6, <3>1 DEF RestoreCommand, Choose, LockOffline, StageOffline, ReplaceOffline,
                        ReceiptOffline, CrashOffline, At
    <3>3. QED BY <3>2, <2>3, DbNext
  <2>7. QED BY <2>4, <2>5, <2>6 DEF Next
<1>2. QED BY <1>1, UpgradeInvariant, PTL DEF Spec, DataOutlivesStarts
=============================================================================
