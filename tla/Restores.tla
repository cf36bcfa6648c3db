------------------------------ MODULE Restores ------------------------------
(* The life of a Restore resource: SyncRestore with the resolution of its     *)
(* source, CleanupRestore and hasActiveRestoreForInstance                     *)
(* (internal/provider/backup.go), beside the runtime that calls them, the     *)
(* Percona operator, the garbage collector and the users. The Backups that a  *)
(* Restore may start from are an environment here; Backups.tla is about them. *)
(*                                                                            *)
(* Handlers run in steps, one per request, as in Backups.tla.                 *)
EXTENDS PITRWindow

CONSTANTS
    Names,          \* names; a Restore and its operator restore share theirs
    Sources,        \* names of the Backups to restore from
    NoSource,
    Instances,
    Storage,        \* the storage all sources live on
    MaxUID,         \* bound on how often one name is used again
    MaxRestarts,    \* bound on restarts of the provider and failed requests
    StaleReads,     \* TRUE: Get may return an old version of an operator restore
    SourcesMayCome, \* TRUE: a Restore may refer to a Backup that is created later
    SourcesMayGo,   \* TRUE: a Backup may be deleted while a Restore refers to it
    MayDelete       \* TRUE: users may delete Restores

ASSUME SourcesAssumption == IsFiniteSet(Sources)
ASSUME RestoreBounds == {MaxUID, MaxRestarts} \subseteq Nat
ASSUME RestoreSwitches == {StaleReads, SourcesMayCome, SourcesMayGo, MayDelete} \subseteq BOOLEAN

VARIABLES
    source,    \* [Sources -> Backup resource]
    sourceOp,  \* [Sources -> state of the operator backup of that name]
    restore,   \* [Names -> Restore resource], uid 0 when there is none
    op,        \* [Names -> PerconaXtraDBClusterRestore], uid 0 when there is none
    seen,      \* [Names -> the cached version of op, without its state]
    uids,      \* [Names -> the last uid given to a Restore and to an operator restore]
    work,      \* [Names -> the running handler and what it has read]
    restarts,  \* restarts and failed requests still allowed
    applied    \* history: the operator restores that ran to success

sourceVars == <<source, sourceOp>>
restoreVars == <<source, sourceOp, restore, op, seen, uids, work, restarts, applied>>

UID == 0..MaxUID
Time == 0..Cardinality(Sources)

(* The phases of an operator restore, in the order it goes through them.      *)
Phases == <<"New", "Starting", "StopCluster", "Restore", "PITR", "PrepareCluster",
            "StartCluster", "Succeeded">>
RunningPhases == {"Starting", "StopCluster", "Restore", "PITR", "PrepareCluster", "StartCluster"}
OpState == RunningPhases \cup {"New", "Succeeded", "Failed"}
RestoreState == {"New", "Pending", "Running", "Succeeded", "Failed"}
Terminal == {"Succeeded", "Failed"}

(* What a Restore starts from. "Invalid" stands for an unknown type and for   *)
(* every missing part: backupRef, pointInTime, or the date of a dated target. *)
(* A PointInTime source without a date recovers to the latest point.          *)
DataSource ==
    [type : {"Backup"}, backup : Sources, instance : {NoSource}, date : {NoTime}]
    \cup [type : {"PointInTime"}, backup : {NoSource}, instance : Instances,
          date : Time \cup {NoTime}]
    \cup [type : {"Invalid"}, backup : {NoSource}, instance : {NoSource}, date : {NoTime}]

NoDataSource ==
    [type |-> "Invalid", backup |-> NoSource, instance |-> NoSource, date |-> NoTime]

RestoreCR ==
    [uid : UID, instance : Instances \cup {NoSource}, dataSource : DataSource,
     deleting : BOOLEAN, state : RestoreState]

OpRestore ==
    [uid : UID, pxcCluster : Instances \cup {NoSource},
     backupName : Sources \cup {NoSource},
     pitr : BOOLEAN, date : Time \cup {NoTime},   \* PITR block: is there one, and its date
     controller : UID, deleting : BOOLEAN, state : OpState]

NoRestore ==
    [uid |-> 0, instance |-> NoSource, dataSource |-> NoDataSource,
     deleting |-> FALSE, state |-> "New"]

NoOp ==
    [uid |-> 0, pxcCluster |-> NoSource, backupName |-> NoSource, pitr |-> FALSE,
     date |-> NoTime, controller |-> 0, deleting |-> FALSE, state |-> "New"]

Exists(r) == r.uid # 0

Work ==
    [pc : {"idle", "resolve", "base", "get", "create", "patch", "report",
           "cleanupGet", "delete", "cleaned"},
     cr : RestoreCR, base : Sources \cup {NoSource}, ob : OpRestore, state : RestoreState]

NoWork ==
    [pc |-> "idle", cr |-> NoRestore, base |-> NoSource, ob |-> NoOp, state |-> "New"]

RestoreInit ==
    /\ source \in [Sources -> [instance : Instances, storage : {Storage},
                               state : IF SourcesMayCome THEN {"Absent", "Pending"} ELSE {"Pending"},
                               completedAt : {NoTime}]]
    /\ sourceOp = [b \in Sources |-> "Absent"]
    /\ restore = [r \in Names |-> NoRestore]
    /\ op = [r \in Names |-> NoOp]
    /\ seen = [r \in Names |-> NoOp]
    /\ uids = [r \in Names |-> [cr |-> 0, ob |-> 0]]
    /\ work = [r \in Names |-> NoWork]
    /\ restarts = MaxRestarts
    /\ applied = {}

-----------------------------------------------------------------------------
(* The Backups. An operator backup runs, and its Backup follows. Completion   *)
(* times are distinct and grow. An operator backup that is deleted under its  *)
(* Backup may be made again, and the Backup's status may then lag behind it.  *)

Completed == {b \in Sources : source[b].completedAt # NoTime}

SourceAppears(b) ==
    /\ SourcesMayCome
    /\ source[b].state = "Absent" /\ source[b].completedAt = NoTime
    /\ source' = [source EXCEPT ![b].state = "Pending"]
    /\ UNCHANGED <<sourceOp, restore, op, seen, uids, work, restarts, applied>>

SourceOpStep(b) ==
    /\ \/ sourceOp[b] = "Absent"  /\ sourceOp' = [sourceOp EXCEPT ![b] = "Running"]
       \/ sourceOp[b] = "Running" /\ sourceOp' = [sourceOp EXCEPT ![b] = "Succeeded"]
       \/ sourceOp[b] = "Running" /\ sourceOp' = [sourceOp EXCEPT ![b] = "Failed"]
    /\ source[b].state \notin {"Absent", "Failed"}
    /\ UNCHANGED <<source, restore, op, seen, uids, work, restarts, applied>>

SourceReport(b) ==
    /\ source[b].state = "Pending"
    /\ \/ /\ sourceOp[b] = "Failed"
          /\ source' = [source EXCEPT ![b].state = "Failed"]
       \/ /\ sourceOp[b] = "Succeeded"
          /\ source' = [source EXCEPT ![b].state = "Succeeded",
                                      ![b].completedAt = Cardinality(Completed) + 1]
    /\ UNCHANGED <<sourceOp, restore, op, seen, uids, work, restarts, applied>>

(* Deleted by a user, or by the retention of a schedule: first the operator   *)
(* backup goes, then its Backup.                                              *)
SourceOpGoes(b) ==
    /\ SourcesMayGo
    /\ source[b].state \in Terminal /\ sourceOp[b] # "Absent"
    /\ sourceOp' = [sourceOp EXCEPT ![b] = "Absent"]
    /\ UNCHANGED <<source, restore, op, seen, uids, work, restarts, applied>>

SourceGoes(b) ==
    /\ SourcesMayGo
    /\ source[b].state \in Terminal /\ sourceOp[b] = "Absent"
    /\ source' = [source EXCEPT ![b].state = "Absent"]
    /\ UNCHANGED <<sourceOp, restore, op, seen, uids, work, restarts, applied>>

-----------------------------------------------------------------------------
(* The API server and the garbage collector.                                  *)

Get(r) == IF StaleReads THEN seen[r] ELSE op[r]

(* What the cache holds, but for the state of the operator restore: SyncPatch *)
(* takes that from the answer to its patch, never from a read.                *)
Cached(b) == [b EXCEPT !.state = "New"]

CacheCatchesUp(r) ==
    /\ StaleReads
    /\ seen[r] # Cached(op[r])
    /\ seen' = [seen EXCEPT ![r] = Cached(op[r])]
    /\ UNCHANGED <<sourceVars, restore, op, uids, work, restarts, applied>>

CollectOp(r) ==
    /\ Exists(op[r]) /\ ~op[r].deleting
    /\ op[r].controller # 0 /\ op[r].controller # restore[r].uid
    /\ op' = [op EXCEPT ![r].deleting = TRUE]
    /\ UNCHANGED <<sourceVars, restore, seen, uids, work, restarts, applied>>

-----------------------------------------------------------------------------
(* Users, and the runtime when it seeds an Instance.                          *)

CreateRestore(r, i, ds) ==
    /\ ~Exists(restore[r])
    /\ uids[r].cr < MaxUID
    /\ uids' = [uids EXCEPT ![r].cr = @ + 1]
    /\ restore' = [restore EXCEPT ![r] =
          [NoRestore EXCEPT !.uid = uids[r].cr + 1, !.instance = i, !.dataSource = ds]]
    /\ UNCHANGED <<sourceVars, op, seen, work, restarts, applied>>

DeleteRestore(r) ==
    /\ MayDelete
    /\ Exists(restore[r]) /\ ~restore[r].deleting
    /\ restore' = [restore EXCEPT ![r].deleting = TRUE]
    /\ UNCHANGED <<sourceVars, op, seen, uids, work, restarts, applied>>

-----------------------------------------------------------------------------
(* The Percona operator (external). A restore whose backup has not succeeded  *)
(* fails its validation, for good; one without PITR block skips that phase.   *)

PhaseAfter(s) == Phases[(CHOOSE k \in DOMAIN Phases : Phases[k] = s) + 1]

Following(b) ==
    IF b.state = "Restore" /\ ~b.pitr THEN "PrepareCluster" ELSE PhaseAfter(b.state)

OperatorAdvances(r) ==
    /\ Exists(op[r]) /\ op[r].state \notin Terminal
    /\ op[r].state = "New" => sourceOp[op[r].backupName] = "Succeeded"
    /\ op' = [op EXCEPT ![r].state = Following(op[r])]
    /\ applied' = IF op'[r].state = "Succeeded"
                  THEN applied \cup {[name |-> r, uid |-> op[r].uid, cr |-> op[r].controller,
                                      backupName |-> op[r].backupName, pitr |-> op[r].pitr,
                                      date |-> op[r].date]}
                  ELSE applied
    /\ UNCHANGED <<sourceVars, restore, seen, uids, work, restarts>>

OperatorFails(r) ==
    /\ Exists(op[r]) /\ op[r].state \notin Terminal
    /\ op' = [op EXCEPT ![r].state = "Failed"]
    /\ UNCHANGED <<sourceVars, restore, seen, uids, work, restarts, applied>>

OperatorReleases(r) ==
    /\ op[r].deleting
    /\ op' = [op EXCEPT ![r] = NoOp]
    /\ UNCHANGED <<sourceVars, restore, seen, uids, work, restarts, applied>>

-----------------------------------------------------------------------------
(* SyncRestore.                                                               *)

Step(r, w) ==
    /\ work' = [work EXCEPT ![r] = w]
    /\ UNCHANGED <<sourceVars, seen, restarts, applied>>

Report(r, state) ==
    Step(r, [NoWork EXCEPT !.pc = "report", !.cr = work[r].cr, !.state = state])

(* Mutant of SyncRestore: called for a deleted Restore too.                   *)
SyncRestoreDeleted(r) ==
    /\ work[r].pc = "idle"
    /\ Exists(restore[r]) /\ restore[r].state \notin Terminal
    /\ Step(r, [NoWork EXCEPT !.pc = "resolve", !.cr = restore[r]])
    /\ UNCHANGED <<restore, op, uids>>

(* The runtime calls SyncRestore until the Restore is terminal.               *)
SyncRestore(r) ==
    /\ work[r].pc = "idle"
    /\ Exists(restore[r]) /\ ~restore[r].deleting /\ restore[r].state \notin Terminal
    /\ Step(r, [NoWork EXCEPT !.pc = "resolve", !.cr = restore[r]])
    /\ UNCHANGED <<restore, op, uids>>

(* The source is resolved on every call, before the operator restore is read. *)
(* A named Backup is used unless it is missing or has failed.                 *)
resolveBackupSource(r, b) ==
    CASE source[b].state = "Absent" -> Report(r, "Pending")
      [] source[b].state = "Failed" -> Report(r, "Failed")
      [] OTHER -> Step(r, [work[r] EXCEPT !.pc = "get", !.base = b])

(* A point in time: the base is selected from a list of the Backups. Then its *)
(* operator backup is read, which may have gone or be another one meanwhile.  *)
resolvePointInTimeSource(r, ds) ==
    LET bases == selectPITRBaseBackup(source, ds.instance, Storage, ds.date)
    IN  \/ bases = {} /\ Report(r, "Pending")
        \/ \E b \in bases : Step(r, [work[r] EXCEPT !.pc = "base", !.base = b])

resolveRestoreSource(r, ds) ==
    CASE ds.type = "Backup" -> resolveBackupSource(r, ds.backup)
      [] ds.type = "PointInTime" -> resolvePointInTimeSource(r, ds)
      [] OTHER -> Report(r, "Failed")

SyncResolve(r) ==
    /\ work[r].pc = "resolve"
    /\ resolveRestoreSource(r, work[r].cr.dataSource)
    /\ UNCHANGED <<restore, op, uids>>

SyncGetBase(r) ==
    /\ work[r].pc = "base"
    /\ CASE sourceOp[work[r].base] = "Succeeded" -> Step(r, [work[r] EXCEPT !.pc = "get"])
         [] sourceOp[work[r].base] = "Failed" -> Report(r, "Failed")
         [] OTHER -> Report(r, "Pending")
    /\ UNCHANGED <<restore, op, uids>>

SyncGet(r) ==
    /\ work[r].pc = "get"
    /\ Step(r, IF Exists(Get(r))
               THEN [work[r] EXCEPT !.pc = "patch", !.ob = Get(r)]
               ELSE [work[r] EXCEPT !.pc = "create"])
    /\ UNCHANGED <<restore, op, uids>>

(* Mutant of newOpRestore: the PITR block of a dated target only.             *)
newOpRestoreNoPITR(w, uid) ==
    [NoOp EXCEPT !.uid = uid, !.pxcCluster = w.cr.instance, !.backupName = w.base,
                 !.pitr = w.cr.dataSource.date # NoTime, !.date = w.cr.dataSource.date,
                 !.controller = w.cr.uid]

newOpRestore(w, uid) ==
    [NoOp EXCEPT !.uid = uid, !.pxcCluster = w.cr.instance, !.backupName = w.base,
                 !.pitr = w.cr.dataSource.type = "PointInTime",
                 !.date = w.cr.dataSource.date, !.controller = w.cr.uid]

(* AlreadyExists is followed by a Get, which may find nothing: an error.      *)
SyncCreate(r) ==
    /\ work[r].pc = "create"
    /\ \/ /\ ~Exists(op[r])
          /\ uids[r].ob < MaxUID
          /\ uids' = [uids EXCEPT ![r].ob = @ + 1]
          /\ op' = [op EXCEPT ![r] = newOpRestore(work[r], uids[r].ob + 1)]
          /\ Step(r, [work[r] EXCEPT !.pc = "patch", !.ob = op'[r]])
       \/ /\ Exists(op[r])
          /\ Step(r, IF Exists(Get(r))
                     THEN [work[r] EXCEPT !.pc = "patch", !.ob = Get(r)]
                     ELSE NoWork)
          /\ UNCHANGED <<op, uids>>
    /\ UNCHANGED restore

(* Mutants of restoreState: the PITR phase is passed through; the case of a   *)
(* restore that succeeded is missing.                                         *)
restoreStateRaw(state) ==
    CASE state \in {"Failed", "Succeeded", "PITR"} -> state
      [] state \in RunningPhases \ {"PITR"} -> "Running"
      [] OTHER -> "Pending"

restoreStateNoSuccess(state) ==
    CASE state = "Failed" -> "Failed"
      [] state \in RunningPhases -> "Running"
      [] OTHER -> "Pending"

(* Mutant of restoreState: a state it does not know is a failure.             *)
restoreStateUnknownFails(state) ==
    CASE state = "Succeeded" -> "Succeeded"
      [] state \in RunningPhases -> "Running"
      [] OTHER -> "Failed"

(* Operator states as Restore states.                                         *)
restoreState(state) ==
    CASE state = "Failed" -> "Failed"
      [] state = "Succeeded" -> "Succeeded"
      [] state \in RunningPhases -> "Running"
      [] OTHER -> "Pending"

(* Mutants: a patch that takes over an object which another controller owns,  *)
(* and one that writes the base it has just resolved.                         *)
PatchFailsNever(now, read, cr) == ~Exists(now)

PatchedBase(now, w) ==
    [now EXCEPT !.controller = IF w.ob.controller = 0 THEN w.cr.uid ELSE @,
                !.backupName = w.base]

(* SetControllerReference refuses an object that another controller owns. The *)
(* patch changes nothing but the owner, and returns the current object.       *)
PatchFails(now, read, cr) ==
    \/ read.controller \notin {0, cr.uid}
    \/ ~Exists(now)

Patched(now, w) == [now EXCEPT !.controller = IF w.ob.controller = 0 THEN w.cr.uid ELSE @]

SyncPatch(r) ==
    LET w == work[r]
    IN  /\ w.pc = "patch"
        /\ IF PatchFails(op[r], w.ob, w.cr)
           THEN Step(r, NoWork) /\ UNCHANGED op
           ELSE /\ op' = [op EXCEPT ![r] = Patched(op[r], w)]
                /\ Report(r, restoreState(op[r].state))
        /\ UNCHANGED <<restore, uids>>

(* The runtime stores the returned state.                                     *)
SyncReport(r) ==
    /\ work[r].pc = "report"
    /\ restore' = IF restore[r].uid = work[r].cr.uid
                  THEN [restore EXCEPT ![r].state = work[r].state]
                  ELSE restore
    /\ Step(r, NoWork)
    /\ UNCHANGED <<op, uids>>

-----------------------------------------------------------------------------
(* CleanupRestore, called for a deleted Restore until it returns true.        *)

CleanupRestore(r) ==
    /\ work[r].pc = "idle"
    /\ Exists(restore[r]) /\ restore[r].deleting
    /\ Step(r, [NoWork EXCEPT !.pc = "cleanupGet", !.cr = restore[r]])
    /\ UNCHANGED <<restore, op, uids>>

(* Mutant of CleanupGet: it does not delete.                                  *)
CleanupGetNoDelete(r) ==
    /\ work[r].pc = "cleanupGet"
    /\ Step(r, IF ~Exists(Get(r)) THEN [work[r] EXCEPT !.pc = "cleaned"] ELSE NoWork)
    /\ UNCHANGED <<restore, op, uids>>

CleanupGet(r) ==
    /\ work[r].pc = "cleanupGet"
    /\ Step(r, IF ~Exists(Get(r)) THEN [work[r] EXCEPT !.pc = "cleaned"]
               ELSE IF Get(r).deleting THEN NoWork
               ELSE [work[r] EXCEPT !.pc = "delete"])
    /\ UNCHANGED <<restore, op, uids>>

CleanupDelete(r) ==
    /\ work[r].pc = "delete"
    /\ op' = IF Exists(op[r]) THEN [op EXCEPT ![r].deleting = TRUE] ELSE op
    /\ Step(r, NoWork)
    /\ UNCHANGED <<restore, uids>>

CleanupDone(r) ==
    /\ work[r].pc = "cleaned"
    /\ restore' = [restore EXCEPT ![r] = NoRestore]
    /\ Step(r, NoWork)
    /\ UNCHANGED <<op, uids>>

(* The provider restarts and forgets every running handler (rs = Names), or a *)
(* request fails and the handler of one Restore returns an error.             *)
Interrupt(rs) ==
    /\ \E r \in rs : work[r].pc # "idle"
    /\ restarts > 0
    /\ restarts' = restarts - 1
    /\ work' = [r \in Names |-> IF r \in rs THEN NoWork ELSE work[r]]
    /\ UNCHANGED <<sourceVars, restore, op, seen, uids, applied>>

Handler(r) ==
    \/ SyncRestore(r) \/ SyncResolve(r) \/ SyncGetBase(r) \/ SyncGet(r) \/ SyncCreate(r)
    \/ SyncPatch(r) \/ SyncReport(r)
    \/ CleanupRestore(r) \/ CleanupGet(r) \/ CleanupDelete(r) \/ CleanupDone(r)

(* The steps that no other component takes part in: not the creation of       *)
(* Restores, the progress of the operator, and interruptions.                 *)
RestoreStep ==
    \/ \E b \in Sources :
          \/ SourceAppears(b) \/ SourceOpStep(b) \/ SourceReport(b)
          \/ SourceOpGoes(b) \/ SourceGoes(b)
    \/ \E r \in Names :
          \/ DeleteRestore(r) \/ Handler(r) \/ OperatorFails(r) \/ OperatorReleases(r)
          \/ CollectOp(r) \/ CacheCatchesUp(r)

RestoreNext ==
    \/ RestoreStep
    \/ \E r \in Names :
          \/ OperatorAdvances(r)
          \/ \E i \in Instances, ds \in DataSource : CreateRestore(r, i, ds)
    \/ \E rs \in {Names} \cup {{r} : r \in Names} : Interrupt(rs)

RestoreSpec == RestoreInit /\ [][RestoreNext]_restoreVars

(* The runtime requeues a Restore until it is terminal, RestoreWatches wakes  *)
(* it on every change of the operator's restore, the operator lets go of what *)
(* is deleted and the cache keeps up.                                         *)
HandlerFairness ==
    \A r \in Names :
       /\ WF_restoreVars(Handler(r)) /\ WF_restoreVars(OperatorReleases(r))
       /\ WF_restoreVars(CacheCatchesUp(r))

(* Backups end, and so do the operator's restores.                            *)
RestoreFairness ==
    /\ HandlerFairness
    /\ \A b \in Sources : WF_restoreVars(SourceOpStep(b)) /\ WF_restoreVars(SourceReport(b))
    /\ \A r \in Names :
          WF_restoreVars(OperatorAdvances(r) \/ OperatorFails(r)) /\ WF_restoreVars(CollectOp(r))

RestoreHandlerSpec == RestoreSpec /\ HandlerFairness
RestoreFairSpec == RestoreSpec /\ RestoreFairness

-----------------------------------------------------------------------------
(* Mutant of hasActiveRestoreForInstance: a Restore that is still Pending     *)
(* does not count.                                                            *)
hasRunningRestoreForInstance(i) ==
    \E r \in Names :
       /\ Exists(restore[r])
       /\ restore[r].instance = i
       /\ ~restore[r].deleting
       /\ restore[r].state = "Running"

(* A non-terminal Restore for the Instance that is not being deleted.         *)
hasActiveRestoreForInstance(i) ==
    \E r \in Names :
       /\ Exists(restore[r])
       /\ restore[r].instance = i
       /\ ~restore[r].deleting
       /\ restore[r].state \notin Terminal

(* Every variable has its type.                                               *)
RestoreTypeOK ==
    /\ source \in [Sources -> [instance : Instances, storage : {Storage},
                               state : {"Absent", "Pending", "Succeeded", "Failed"},
                               completedAt : Time \cup {NoTime}]]
    /\ sourceOp \in [Sources -> {"Absent", "Running", "Succeeded", "Failed"}]
    /\ restore \in [Names -> RestoreCR]
    /\ op \in [Names -> OpRestore]
    /\ seen \in [Names -> OpRestore]
    /\ uids \in [Names -> [cr : UID, ob : UID]]
    /\ work \in [Names -> Work]
    /\ restarts \in 0..MaxRestarts
    /\ applied \subseteq [name : Names, uid : UID, cr : UID,
                          backupName : Sources, pitr : BOOLEAN, date : Time \cup {NoTime}]

(* A Restore is reported Succeeded only when an operator restore created for  *)
(* this very Restore, not for a predecessor of the same name, has run to      *)
(* success from the source that the Restore names: for a Backup source from   *)
(* that backup, for a point in time with a PITR block to that point.          *)
SucceededRestoreWasApplied ==
    \A r \in Names : restore[r].state = "Succeeded" =>
       \E a \in applied :
          /\ a.name = r /\ a.cr = restore[r].uid
          /\ a.date = restore[r].dataSource.date
          /\ a.pitr <=> restore[r].dataSource.type = "PointInTime"
          /\ restore[r].dataSource.type = "Backup" => a.backupName = restore[r].dataSource.backup
          /\ restore[r].dataSource.type = "PointInTime" /\ a.date # NoTime
                => source[a.backupName].completedAt <= a.date

(* One Restore overwrites the cluster's data at most once, whatever is        *)
(* retried, restarted or read from a stale cache.                             *)
AppliedAtMostOnce ==
    \A a, b \in applied : a.name = b.name /\ a.cr = b.cr => a = b

(* SyncRestore resolves its source again on every call and may find a newer   *)
(* base; an operator restore never changes its base or its target under way.  *)
OpRestoreIsPinned ==
    [][\A r \in Names : Exists(op[r]) /\ op'[r].uid = op[r].uid =>
          /\ op'[r].backupName = op[r].backupName
          /\ op'[r].pitr = op[r].pitr /\ op'[r].date = op[r].date
          /\ op'[r].pxcCluster = op[r].pxcCluster]_restoreVars

(* While the operator rewrites the cluster's data, hasActiveRestoreForInstance *)
(* answers true for that Instance: "reports whether the namespace has at      *)
(* least one non-terminal Restore" (backup.go:581-582).                       *)
RunningRestoreIsActive ==
    \A r \in Names : Exists(op[r]) /\ op[r].state \in RunningPhases =>
       hasActiveRestoreForInstance(op[r].pxcCluster)

(* "maps operator status to OpenEverest states" (backup.go:198-199): the end  *)
(* of an operator restore is the end of its Restore.                          *)
OutcomeIsReported ==
    \A r \in Names :
       /\ Exists(op[r]) /\ op[r].state \in Terminal
       /\ op[r].controller = restore[r].uid
       ~> \/ restore[r].state \in Terminal
          \/ restore[r].deleting
          \/ ~Exists(restore[r])

(* CleanupRestore eventually returns true: a deleted Restore goes away, also  *)
(* when its operator restore was still running or its source is gone.         *)
RestoreDeletionEnds ==
    \A r \in Names : restore[r].deleting ~> ~restore[r].deleting

(* Restores keep the promise of OneShot.tla: an operator restore runs at most *)
(* once for each, and a verdict is final. A Restore whose source cannot be    *)
(* used fails without one, and then the cluster's data is not touched later.  *)
JobOf(r) ==
    IF ~Exists(restore[r]) THEN "None"
    ELSE IF restore[r].deleting THEN "Closing"
    ELSE IF restore[r].state \in Terminal THEN restore[r].state ELSE "Open"

RanOf(r) ==
    IF ~Exists(op[r]) THEN "No"
    ELSE IF op[r].state = "New" THEN "Queued"
    ELSE IF op[r].state \in RunningPhases THEN "Running" ELSE op[r].state

Job == INSTANCE OneShot WITH
    MayReject <- TRUE,
    job <- [r \in Names |-> JobOf(r)],
    ran <- [r \in Names |-> RanOf(r)]

RestoreIsOneShot == Job!Spec
=============================================================================
