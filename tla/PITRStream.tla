----------------------------- MODULE PITRStream -----------------------------
(* The point-in-time recovery windows of one Instance, as they are published  *)
(* while the Percona operator completes, marks and removes backups, and while *)
(* the Backup resources follow those backups with a delay.                    *)
(*                                                                            *)
(* The operator's side (external) is what backup_status.go:88-102 relies on:  *)
(* the end of the stream is stamped on the newest backup, only the newest     *)
(* backup is ever marked, and no mark is ever taken back.                     *)
EXTENDS PITRWindow

CONSTANTS
    Names,          \* names of operator backups; a Backup resource has the same name
    Storages,       \* backup storages of the Instance
    PITRStorages,   \* those with PITR enabled
    Instance,       \* the Instance, and the cluster of the same name
    MaxTime,        \* bound on the clock
    SameSecond,     \* TRUE: two backups may complete within one second
    MarkedMayGo     \* TRUE: a marked backup may be removed before an older one

ASSUME StreamAssumption ==
    PITRStorages \subseteq Storages /\ IsFiniteSet(Names) /\ MaxTime \in Nat
ASSUME StreamSwitches == {SameSecond, MarkedMayGo} \subseteq BOOLEAN

VARIABLES
    clock,      \* wall clock, in seconds
    op,         \* [Names -> operator backup]
    cr,         \* [Names -> Backup resource]
    window,     \* [PITRStorages -> instance.status.backup.storages[s].pitr]
    gaps        \* history: [Storages -> completion times of the backups ever marked]

vars == <<clock, op, cr, window, gaps>>

Time == 0..MaxTime

OpBackup ==
    [cluster : {Instance}, storage : Storages,
     state : {"Absent", "Running", "Succeeded", "Failed"},
     completedAt : Time \cup {NoTime}, pitrReady : PITRReadyStatus,
     latest : Time \cup {NoTime}]

BackupCR ==
    [instance : {Instance}, storage : Storages,
     state : {"Absent", "Pending", "Running", "Succeeded", "Failed"},
     completedAt : Time \cup {NoTime}]

(* An available window has both ends.                                         *)
Window ==
    [state : {"Available"}, reason : {"WindowAvailable"}, earliest : Time, latest : Time]
    \cup [state : {"Unavailable"}, reason : {"NoRestorableBackup", "BinlogGapDetected"},
          earliest : {NoTime}, latest : {NoTime}]

NoBackup(s) ==
    [cluster |-> Instance, storage |-> s, state |-> "Absent",
     completedAt |-> NoTime, pitrReady |-> "Missing", latest |-> NoTime]

NoCR(s) ==
    [instance |-> Instance, storage |-> s, state |-> "Absent", completedAt |-> NoTime]

Init ==
    /\ clock = 0
    /\ \E s \in [Names -> Storages] :
          /\ op = [n \in Names |-> NoBackup(s[n])]
          /\ cr = [n \in Names |-> NoCR(s[n])]
    /\ window = [s \in PITRStorages |-> Unavailable("NoRestorableBackup")]
    /\ gaps = [s \in Storages |-> {}]

-----------------------------------------------------------------------------
(* The operator (external).                                                   *)

Stream(s) == {n \in Names : InStream(op[n], Instance, s)}

Newest(s) ==
    {n \in Stream(s) : \A m \in Stream(s) : op[m].completedAt <= op[n].completedAt}

Tick ==
    /\ clock < MaxTime
    /\ clock' = clock + 1
    /\ UNCHANGED <<op, cr, window, gaps>>

BackupStarts(n) ==
    /\ op[n].state = "Absent"
    /\ cr[n].state = "Absent"
    /\ op' = [op EXCEPT ![n] = [NoBackup(op[n].storage) EXCEPT !.state = "Running"]]
    /\ UNCHANGED <<clock, cr, window, gaps>>

CompletionTimes == {op[m].completedAt : m \in Names} \cup UNION {gaps[s] : s \in Storages}

BackupEnds(n) ==
    /\ op[n].state = "Running"
    /\ \/ op' = [op EXCEPT ![n].state = "Failed"]
       \/ /\ ~SameSecond => clock \notin CompletionTimes
          /\ op' = [op EXCEPT ![n].state = "Succeeded", ![n].completedAt = clock]
    /\ UNCHANGED <<clock, cr, window, gaps>>

(* The collector works on storages with PITR only.                            *)
CollectorReports(n) ==
    /\ op[n].storage \in PITRStorages /\ n \in Newest(op[n].storage)
    /\ op' = [op EXCEPT ![n].latest = clock]
    /\ UNCHANGED <<clock, cr, window, gaps>>

GapDetected(n) ==
    /\ op[n].storage \in PITRStorages /\ n \in Newest(op[n].storage)
    /\ op' = [op EXCEPT ![n].pitrReady = "False"]
    /\ gaps' = [gaps EXCEPT ![op[n].storage] = @ \cup {op[n].completedAt}]
    /\ UNCHANGED <<clock, cr, window>>

(* Retention, or the deletion of one Backup by its user, removes a backup.    *)
BackupRemoved(n) ==
    /\ op[n].state # "Absent"
    /\ gapCondition(op[n]) /\ ~MarkedMayGo =>
          \A m \in Stream(op[n].storage) : op[m].completedAt >= op[n].completedAt
    /\ op' = [op EXCEPT ![n] = NoBackup(op[n].storage)]
    /\ UNCHANGED <<clock, cr, window, gaps>>

-----------------------------------------------------------------------------
(* The provider.                                                              *)

(* What SyncBackup reports for an operator backup, and the removal of the     *)
(* Backup resource once its operator backup is gone.                          *)
Reported(b) ==
    [instance |-> b.cluster, storage |-> b.storage, state |-> b.state,
     completedAt |-> IF b.state = "Succeeded" THEN b.completedAt ELSE NoTime]

SyncBackupStatus(n) ==
    /\ cr[n] # Reported(op[n])
    /\ cr' = [cr EXCEPT ![n] = Reported(op[n])]
    /\ UNCHANGED <<clock, op, window, gaps>>

(* One reconcile of the Instance publishes the window of each PITR storage,   *)
(* computed from the operator backups it lists.                               *)
Windows(s) == {pitrWindow(l) : l \in collectStorageBackups(op, Instance, s)}

BackupStorageStatuses ==
    /\ window' \in {w \in [PITRStorages -> UNION {Windows(s) : s \in PITRStorages}] :
                       \A s \in PITRStorages : w[s] \in Windows(s)}
    /\ UNCHANGED <<clock, op, cr, gaps>>

Next ==
    \/ Tick
    \/ BackupStorageStatuses
    \/ \E n \in Names :
          \/ BackupStarts(n) \/ BackupEnds(n) \/ BackupRemoved(n)
          \/ CollectorReports(n) \/ GapDetected(n)
          \/ SyncBackupStatus(n)

Spec == Init /\ [][Next]_vars

-----------------------------------------------------------------------------
(* Every variable has its type.                                               *)
TypeOK ==
    /\ clock \in Time
    /\ op \in [Names -> OpBackup]
    /\ cr \in [Names -> BackupCR]
    /\ window \in [PITRStorages -> Window]
    /\ gaps \in [Storages -> SUBSET Time]

(* A window that pitrWindow publishes begins after every backup of the stream *)
(* that was ever marked with a gap, also one that retention has removed since *)
(* (backup_status.go:110-112). For ~SameSecond and ~MarkedMayGo: completion   *)
(* times differ by a second, and a marked backup goes after the older ones.   *)
PublishedWindowSpansNoGap ==
    [][\A s \in PITRStorages :
          window'[s] # window[s] /\ window'[s].state = "Available"
             => \A g \in gaps[s] : g < window'[s].earliest]_vars

(* A recovery to date gets a base, not the Pending status, and the binlogs    *)
(* replayed from any base that selectPITRBaseBackup may choose cross no gap.  *)
Restorable(s, date) ==
    /\ selectPITRBaseBackup(cr, Instance, s, date) # {}
    /\ \A n \in selectPITRBaseBackup(cr, Instance, s, date) :
          \A g \in gaps[s] : g < cr[n].completedAt

Points(w) == IF w.state = "Available" THEN w.earliest..w.latest ELSE {}

(* "a client reading only the window must never be offered a point it cannot  *)
(* restore" (backup_status.go:110-112). The window is read from the           *)
(* operator's backups and the base from the Backup resources, two views that  *)
(* move separately.                                                           *)
OfferedPointIsRestorable ==
    [][BackupStorageStatuses =>
          \A s \in PITRStorages : \A d \in Points(window'[s]) : Restorable(s, d)]_vars

(* One Backup is enough to keep that promise: as soon as the Backup that a    *)
(* window begins with has been reported, every point of the window can be     *)
(* restored, however far all other Backup statuses lag behind.                *)
StartReported(s) ==
    \E n \in Stream(s) : /\ op[n].completedAt = window'[s].earliest
                         /\ cr[n] = Reported(op[n])

ReportedStartIsRestorable ==
    [][BackupStorageStatuses =>
          \A s \in PITRStorages : StartReported(s) =>
             \A d \in Points(window'[s]) : Restorable(s, d)]_vars
=============================================================================
