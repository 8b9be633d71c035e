--------------------------- MODULE DatabaseUpgrade ---------------------------
(***************************************************************************)
(* Starts of builds that share one database file: the lock and the managed *)
(* start of api/app.py, the backups of graph_core/database_lifecycle.py,   *)
(* the forward migrations of graph_core/migrations.py, the cleanup of      *)
(* backups and the offline restore.                                        *)
(*                                                                         *)
(* A build knows a number of migrations.  A database has the effects of    *)
(* those that were applied and, committed later, the markers that say so.  *)
(* What is committed is in the write-ahead log until SQLite closes, so a   *)
(* process that dies leaves a log beside the file.  A crash may come       *)
(* between any two steps; errors are exceptions on the way to serving.     *)
(***************************************************************************)
EXTENDS Integers, Sequences, FiniteSets

CONSTANTS Builds,      \* processes that serve
          Supports,    \* Supports[p]: the migrations that p knows
          Oldest,      \* those that the first database has
          KeepLast,    \* backups kept by a cleanup
          MaxWrites, MaxBackups, MaxFaults,  \* bounds: see Write, Prepare, Fault
          None, Offline                      \* nobody, the restore command

ASSUME BuildsAssumption ==
  /\ Oldest \in Nat /\ Supports \in [Builds -> Nat] /\ \A p \in Builds : Supports[p] >= Oldest
  /\ KeepLast \in Nat \ {0} /\ MaxWrites \in Nat /\ MaxBackups \in Nat /\ MaxFaults \in Nat
  /\ None \notin Builds \cup {Offline} /\ Offline \notin Builds

VARIABLES
  main, wal,  \* the file; the log, with what was committed last, or nothing
  lock,       \* who holds the lock of the database
  backups,    \* each backup: its content, its file, the status of its manifest
  pc,         \* each build: where its start is
  upgrade,    \* each build: the backup that it made, or 0
  pending,    \* each build: the last marker, maybe not committed
  removing,   \* each build: backups that its cleanup removes
  before,     \* history, each build: the database when it took the lock
  offline,    \* the restore command: its step and the backup chosen
  writes, faults

vars == <<main, wal, lock, backups, pc, upgrade, pending, removing, before, offline,
          writes, faults>>

Content == [data: Nat, done: Nat, marks: Nat]
Statuses == {"none", "prepared", "completed", "restored"}
Db == IF wal = {} THEN main ELSE CHOOSE d \in wal : TRUE
First == [data |-> 0, done |-> Oldest, marks |-> Oldest]
AtRest == [step |-> "idle", choice |-> 0]

Init == /\ main = First /\ wal = {} /\ lock = None /\ backups = <<>>
        /\ pc = [p \in Builds |-> "idle"] /\ upgrade = [p \in Builds |-> 0]
        /\ pending = [p \in Builds |-> 0] /\ removing = [p \in Builds |-> {}]
        /\ before = [p \in Builds |-> First]
        /\ offline = AtRest /\ writes = 0 /\ faults = 0

fileVars == <<main, wal>>
startVars == <<upgrade, pending, before>>
Goto(p, l) == pc' = [pc EXCEPT ![p] = l]
Commit(d) == wal' = {d} /\ UNCHANGED main
Close == main' = Db /\ wal' = {}
Larger(a, b) == IF a > b THEN a ELSE b

Fault == faults < MaxFaults /\ faults' = faults + 1
-----------------------------------------------------------------------------
(* A managed start.                                                        *)

(* _ProcessFileLock.acquire.  Mutant: a lock that does not exclude.        *)
Free_Always == TRUE
Free == lock = None

Start(p) == /\ pc[p] = "idle" /\ Free /\ lock' = p /\ Goto(p, "locked")
            /\ before' = [before EXCEPT ![p] = Db]
            /\ upgrade' = [upgrade EXCEPT ![p] = 0]
            /\ UNCHANGED <<fileVars, backups, pending, removing, offline, writes, faults>>

(* prepare_database_upgrade: a database from a newer build is refused, one *)
(* that is up to date is opened, an older one is copied first, by SQLite.  *)
(* Mutant: the file is copied.                                             *)
Snapshot_File == main
Snapshot == Db

Open(p) == Goto(p, "migrating") /\ pending' = [pending EXCEPT ![p] = Db.marks]
Prepare(p) ==
  /\ pc[p] = "locked"
  /\ \/ /\ Db.marks > Supports[p] /\ Goto(p, "idle") /\ lock' = None
        /\ UNCHANGED <<backups, upgrade, pending>>
     \/ /\ Db.marks = Supports[p] /\ Open(p) /\ UNCHANGED <<lock, backups, upgrade>>
     \/ /\ Db.marks < Supports[p] /\ Len(backups) < MaxBackups
        /\ backups' = Append(backups, [content |-> Snapshot, file |-> TRUE, manifest |-> "none"])
        /\ upgrade' = [upgrade EXCEPT ![p] = Len(backups) + 1]
        /\ Goto(p, "copied") /\ UNCHANGED <<lock, pending>>
  /\ UNCHANGED <<fileVars, removing, before, offline, writes, faults>>

PrepareManifest(p) == /\ pc[p] = "copied" /\ Open(p)
                      /\ backups' = [backups EXCEPT ![upgrade[p]].manifest = "prepared"]
                      /\ UNCHANGED <<fileVars, lock, upgrade, removing, before, offline,
                                     writes, faults>>

(* DatabaseBackupError: the build does not migrate without a backup.       *)
PrepareFails(p) == /\ pc[p] \in {"locked", "copied"} /\ Fault
                   /\ Goto(p, "idle") /\ lock' = None
                   /\ UNCHANGED <<fileVars, backups, startVars, removing, offline, writes>>

(* run_migrations: a script commits what is pending and applies the next   *)
(* migration, whose marker is then pending; the last commit ends it.       *)
(* Mutant: the marker is committed first.                                  *)
Apply_MarkerFirst(p) ==
  LET k == pending[p] + 1 IN
    /\ pc[p] = "migrating" /\ k <= Supports[p]
    /\ IF Db.marks < k
       THEN Commit([Db EXCEPT !.marks = k]) /\ UNCHANGED pending
       ELSE /\ Commit([Db EXCEPT !.done = Larger(@, k)])
            /\ pending' = [pending EXCEPT ![p] = k]
    /\ UNCHANGED <<lock, backups, pc, upgrade, removing, before, offline, writes, faults>>
Apply(p) ==
  LET k == pending[p] + 1 IN
    /\ pc[p] = "migrating" /\ k <= Supports[p]
    /\ Commit([Db EXCEPT !.marks = pending[p], !.done = Larger(@, k)])
    /\ pending' = [pending EXCEPT ![p] = k]
    /\ UNCHANGED <<lock, backups, pc, upgrade, removing, before, offline, writes, faults>>

FinishMigrations(p) == /\ pc[p] = "migrating" /\ pending[p] = Supports[p]
                       /\ Commit([Db EXCEPT !.marks = pending[p]]) /\ Goto(p, "verifying")
                       /\ UNCHANGED <<lock, backups, startVars, removing, offline, writes, faults>>

(* complete_database_upgrade: the manifest is completed, the build serves. *)
CompleteUpgrade(p) ==
  /\ pc[p] = "verifying" /\ Db.marks = Supports[p] /\ Goto(p, "serving")
  /\ backups' = IF upgrade[p] = 0 THEN backups
                ELSE [backups EXCEPT ![upgrade[p]].manifest = "completed"]
  /\ UNCHANGED <<fileVars, lock, startVars, removing, offline, writes, faults>>

(* Any error of the constructor, of the verification or of the manifest:   *)
(* SQLite is closed, and without a backup the start just fails.            *)
StartFails(p) == /\ pc[p] \in {"migrating", "verifying"} /\ Fault /\ Close
                 /\ IF upgrade[p] = 0 THEN Goto(p, "idle") /\ lock' = None
                    ELSE Goto(p, "closed") /\ UNCHANGED lock
                 /\ UNCHANGED <<backups, startVars, removing, offline, writes>>

(* restore_database_upgrade: the log goes, then the copy replaces the      *)
(* file, then the manifest tells.                                          *)
ClearLog == wal' = {}

RemoveSidecars(p) == /\ pc[p] = "closed" /\ ClearLog /\ Goto(p, "replacing")
                     /\ UNCHANGED <<main, lock, backups, startVars, removing, offline,
                                    writes, faults>>

Restore(p) == /\ pc[p] = "replacing" /\ main' = backups[upgrade[p]].content
              /\ Goto(p, "replaced")
              /\ UNCHANGED <<wal, lock, backups, startVars, removing, offline, writes, faults>>

RestoreManifest(p) == /\ pc[p] = "replaced" /\ Goto(p, "recovered")
                      /\ backups' = [backups EXCEPT ![upgrade[p]].manifest = "restored"]
                      /\ UNCHANGED <<fileVars, lock, startVars, removing, offline, writes, faults>>

(* An error while restoring: the start reports that nothing was restored,  *)
(* also when the file has been replaced already.                           *)
RestoreFails(p) == /\ pc[p] \in {"closed", "replacing", "replaced"} /\ Fault
                   /\ Goto(p, "idle") /\ lock' = None
                   /\ UNCHANGED <<fileVars, backups, startVars, removing, offline, writes>>

(* DatabaseMigrationError with recovered=True.                             *)
ReportRecovered(p) == /\ pc[p] = "recovered" /\ Goto(p, "idle") /\ lock' = None
                      /\ UNCHANGED <<fileVars, backups, startVars, removing, offline, writes, faults>>
-----------------------------------------------------------------------------
(* A build that serves.                                                    *)

Write(p) == /\ pc[p] = "serving" /\ writes < MaxWrites /\ writes' = writes + 1
            /\ Commit([Db EXCEPT !.data = writes + 1])
            /\ UNCHANGED <<lock, backups, pc, startVars, removing, offline, faults>>

Stop(p) == /\ pc[p] = "serving" /\ Close /\ Goto(p, "idle") /\ lock' = None
           /\ removing' = [removing EXCEPT ![p] = {}]
           /\ UNCHANGED <<backups, startVars, offline, writes, faults>>

(* commit_database_backup_retention removes all but the newest of the      *)
(* backups that can be restored, each before its manifest.  Mutant: the    *)
(* oldest are kept.                                                        *)
Restorable(b) == backups[b].file /\ backups[b].manifest \in {"completed", "restored"}
Removable_OldestKept == {b \in DOMAIN backups : /\ Restorable(b)
  /\ Cardinality({c \in DOMAIN backups : Restorable(c) /\ c < b}) >= KeepLast}
Removable == {b \in DOMAIN backups : /\ Restorable(b)
  /\ Cardinality({c \in DOMAIN backups : Restorable(c) /\ c > b}) >= KeepLast}

Cleanup(p) == /\ pc[p] = "serving" /\ removing[p] = {} /\ Removable # {}
              /\ removing' = [removing EXCEPT ![p] = Removable]
              /\ UNCHANGED <<fileVars, lock, backups, pc, startVars, offline, writes, faults>>

RemoveBackup(p) == \E b \in removing[p] :
  /\ pc[p] = "serving"
  /\ IF backups[b].file
     THEN backups' = [backups EXCEPT ![b].file = FALSE] /\ UNCHANGED removing
     ELSE /\ backups' = [backups EXCEPT ![b].manifest = "none"]
          /\ removing' = [removing EXCEPT ![p] = @ \ {b}]
  /\ UNCHANGED <<fileVars, lock, pc, startVars, offline, writes, faults>>
-----------------------------------------------------------------------------
(* restore_database_from_manifest: the backup is chosen before the lock is *)
(* taken.                                                                  *)

At(l) == offline.step = l
Choose(b) == /\ At("idle") /\ Restorable(b)
             /\ offline' = [step |-> "chosen", choice |-> b]
             /\ UNCHANGED <<fileVars, lock, backups, pc, startVars, removing, writes, faults>>

LockOffline == /\ At("chosen") /\ Free /\ lock' = Offline
               /\ offline' = [offline EXCEPT !.step = "staging"]
               /\ UNCHANGED <<fileVars, backups, pc, startVars, removing, writes, faults>>

(* The staged copy is verified; a backup that was removed cannot be.       *)
StageOffline == /\ At("staging")
                /\ IF backups[offline.choice].file
                   THEN ClearLog /\ offline' = [offline EXCEPT !.step = "replacing"] /\ UNCHANGED lock
                   ELSE offline' = AtRest /\ lock' = None /\ UNCHANGED wal
                /\ UNCHANGED <<main, backups, pc, startVars, removing, writes, faults>>

ReplaceOffline == /\ At("replacing") /\ main' = backups[offline.choice].content
                  /\ offline' = [offline EXCEPT !.step = "receipt"]
                  /\ UNCHANGED <<wal, lock, backups, pc, startVars, removing, writes, faults>>

ReceiptOffline == /\ At("receipt") /\ offline' = AtRest /\ lock' = None
                  /\ backups' = [backups EXCEPT ![offline.choice].manifest = "restored"]
                  /\ UNCHANGED <<fileVars, pc, startVars, removing, writes, faults>>

(* Death of a process: the system releases its lock, the log stays.        *)
Release(q) == lock' = IF lock = q THEN None ELSE lock
CrashBuild(p) == /\ pc[p] # "idle" /\ Fault /\ Goto(p, "idle") /\ Release(p)
                 /\ removing' = [removing EXCEPT ![p] = {}]
                 /\ UNCHANGED <<fileVars, backups, startVars, offline, writes>>
CrashOffline == /\ ~At("idle") /\ Fault /\ offline' = AtRest /\ Release(Offline)
                /\ UNCHANGED <<fileVars, backups, pc, startVars, removing, writes>>
-----------------------------------------------------------------------------
ManagedStart(p) == \/ Start(p) \/ Prepare(p) \/ PrepareManifest(p) \/ PrepareFails(p)
                   \/ Apply(p) \/ FinishMigrations(p) \/ CompleteUpgrade(p) \/ StartFails(p)
                   \/ RemoveSidecars(p) \/ Restore(p) \/ RestoreManifest(p)
                   \/ RestoreFails(p) \/ ReportRecovered(p)
Serve(p) == Write(p) \/ Stop(p) \/ Cleanup(p) \/ RemoveBackup(p)
RestoreCommand == \/ \E b \in DOMAIN backups : Choose(b)
                  \/ LockOffline \/ StageOffline \/ ReplaceOffline \/ ReceiptOffline

Next == \/ \E p \in Builds : ManagedStart(p) \/ Serve(p) \/ CrashBuild(p)
        \/ RestoreCommand \/ CrashOffline

Spec == Init /\ [][Next]_vars
-----------------------------------------------------------------------------
(* Properties.                                                             *)

(* A build serves only a database that has the effects of exactly its      *)
(* migrations or more, and their markers, wherever earlier starts died.    *)
ServedIsWhole == \A p \in Builds : pc[p] = "serving" =>
                   Db.marks = Supports[p] /\ Db.done >= Db.marks

(* A start that reports recovery leaves the database as it found it, data, *)
(* effects and markers, and the restore command leaves the backup that was *)
(* chosen: no log of what went before is read over it.                     *)
RecoveredIsExact == /\ \A p \in Builds : pc[p] = "recovered" => Db = before[p]
                    /\ At("receipt") => Db = backups[offline.choice].content

(* Data that a build has written outlives all starts, refused, failed and  *)
(* crashed ones: only the restore command takes it away.                   *)
DataOutlivesStarts == [][lock # Offline => Db'.data >= Db.data]_vars

(* A build that has migrated the database can be rolled back: the backup   *)
(* of what it found can be restored, whatever a cleanup removed.           *)
RollbackIsThere == \A p \in Builds : pc[p] = "serving" /\ upgrade[p] # 0 =>
                     Restorable(upgrade[p]) /\ backups[upgrade[p]].content = before[p]
=============================================================================
