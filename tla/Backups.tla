------------------------------- MODULE Backups -------------------------------
(* The life of a Backup resource: SyncBackup, CleanupBackup and Mirror        *)
(* (internal/provider/backup.go, backup_mirror.go) beside the runtime that    *)
(* calls them, the Percona operator, the garbage collector and the users.     *)
(*                                                                            *)
(* A handler runs in several steps, one per request to the API server, and    *)
(* keeps in work[n] what it has read; anything may happen in between. The     *)
(* runtime never runs two handlers of one Backup at the same time. Reads go   *)
(* through the informer cache, writes go to the API server; StaleReads says   *)
(* whether the cache may lag. Names that no resource shares are independent   *)
(* but for the cluster, so small sets of them are enough.                     *)
EXTENDS Integers, FiniteSets

CONSTANTS
    Names,            \* names; a Backup and its operator backup share theirs
    CronNames,        \* the names the operator gives to scheduled backups
    Storages,
    NoStorage,
    MaxUID,           \* bound on how often one name is used again
    MaxPolicyChanges, \* bound on changes of a Backup's deletion policy
    MaxDirectDeletes, \* bound on deletions of operator backups by users
    MaxRestarts,      \* bound on restarts of the provider and failed requests
    StaleReads        \* TRUE: Get may return an old version of an operator backup

ASSUME NamesAssumption == CronNames \subseteq Names
ASSUME BoundsAssumption ==
    MaxUID \in Nat /\ MaxPolicyChanges \in Nat /\ MaxDirectDeletes \in Nat /\ MaxRestarts \in Nat
ASSUME StaleAssumption == StaleReads \in BOOLEAN

VARIABLES
    pxc,         \* does the PerconaXtraDBCluster exist?
    registered,  \* storages the Instance reconciler has put on it
    class,       \* does the Instance name a backup class?
    backup,      \* [Names -> Backup resource], uid 0 when there is none
    op,          \* [Names -> PerconaXtraDBClusterBackup], uid 0 when there is none
    seen,        \* [Names -> the cached version of op]
    uids,        \* [Names -> the last uid given to a Backup and to an operator backup]
    work,        \* [Names -> the running handler and what it has read]
    mirror,      \* [Names -> the Backup that Mirror has returned and that is to be created]
    stored,      \* the data in the bucket: <<name, uid of the operator backup>>
    left,        \* changes of policy, direct deletions, interruptions still allowed
    retained,    \* history: data of Backups deleted with DeletionPolicy Retain
    doomed,      \* history: data of Backups deleted with DeletionPolicy Delete
    ended        \* history: the operator backups that ended, and for which Backup

outsideVars == <<pxc, registered, class, mirror>>   \* not touched by the handlers
historyVars == <<retained, doomed, ended>>
vars == <<pxc, registered, class, backup, op, seen, uids, work, mirror, stored, left,
          retained, doomed, ended>>

(* A name may have one operator backup per schedule, one per Backup, and one  *)
(* more for each that a user deletes.                                         *)
MaxOpUID == MaxUID + MaxUID + MaxDirectDeletes
UID == 0..MaxOpUID
Stamp == 1..MaxOpUID

OpState == {"New", "Starting", "Running", "Succeeded", "Failed"}
BackupState == {"New", "Pending", "Running", "Succeeded", "Failed"}
Terminal == {"Succeeded", "Failed"}

BackupCR ==
    [uid : UID, scheduled : BOOLEAN, storage : Storages \cup {NoStorage},
     retain : BOOLEAN, deleting : BOOLEAN, state : BackupState,
     owner : UID]            \* owner reference to the operator backup it mirrors

OpBackup ==
    [uid : UID, cron : BOOLEAN,
     named : BOOLEAN,        \* does it say which schedule it belongs to?
     storage : Storages \cup {NoStorage},
     controller : UID,       \* controller reference to a Backup
     deleteData : BOOLEAN,   \* finalizer pxcBackupDeleteDataFinalizer
     deleting : BOOLEAN, state : OpState]

NoBackup ==
    [uid |-> 0, scheduled |-> FALSE, storage |-> NoStorage, retain |-> FALSE,
     deleting |-> FALSE, state |-> "New", owner |-> 0]

NoOp ==
    [uid |-> 0, cron |-> FALSE, named |-> FALSE, storage |-> NoStorage, controller |-> 0,
     deleteData |-> FALSE, deleting |-> FALSE, state |-> "New"]

Exists(r) == r.uid # 0

(* pc: "idle", or the next request of the handler that is running.            *)
Work ==
    [pc : {"idle", "get", "create", "patch", "report",
           "cleanupGet", "removeFinalizer", "delete", "cleaned"},
     cr : BackupCR, ob : OpBackup, state : BackupState]

NoWork == [pc |-> "idle", cr |-> NoBackup, ob |-> NoOp, state |-> "New"]

Init ==
    /\ pxc = FALSE
    /\ registered = {}
    /\ class = TRUE
    /\ backup = [n \in Names |-> NoBackup]
    /\ op = [n \in Names |-> NoOp]
    /\ seen = [n \in Names |-> NoOp]
    /\ uids = [n \in Names |-> [cr |-> 0, ob |-> 0]]
    /\ work = [n \in Names |-> NoWork]
    /\ mirror = [n \in Names |-> NoBackup]
    /\ stored = {}
    /\ left = [policy |-> MaxPolicyChanges, deletes |-> MaxDirectDeletes, restarts |-> MaxRestarts]
    /\ retained = {}
    /\ doomed = {}
    /\ ended = {}

-----------------------------------------------------------------------------
(* The API server.                                                            *)

(* A Get of the operator backup, answered by the cache.                       *)
Get(n) == IF StaleReads THEN seen[n] ELSE op[n]

CacheCatchesUp(n) ==
    /\ StaleReads
    /\ seen[n] # op[n]
    /\ seen' = [seen EXCEPT ![n] = op[n]]
    /\ UNCHANGED <<outsideVars, backup, op, uids, work, stored, left, historyVars>>

(* A deleted operator backup goes at once unless a finalizer holds it.        *)
Deleted(b) == IF b.deleteData THEN [b EXCEPT !.deleting = TRUE] ELSE NoOp

(* The removal of the last finalizer of a deleted object removes it.          *)
WithFinalizer(b, keep) ==
    IF b.deleting /\ ~keep THEN NoOp ELSE [b EXCEPT !.deleteData = keep]

(* The garbage collector deletes what is owned by something that is gone.     *)
CollectOp(n) ==
    /\ Exists(op[n]) /\ ~op[n].deleting
    /\ op[n].controller # 0 /\ op[n].controller # backup[n].uid
    /\ op' = [op EXCEPT ![n] = Deleted(op[n])]
    /\ UNCHANGED <<outsideVars, backup, seen, uids, work, stored, left, historyVars>>

CollectBackup(n) ==
    /\ Exists(backup[n]) /\ ~backup[n].deleting
    /\ backup[n].owner # 0 /\ backup[n].owner # op[n].uid
    /\ backup' = [backup EXCEPT ![n].deleting = TRUE]
    /\ UNCHANGED <<outsideVars, op, seen, uids, work, stored, left, historyVars>>

-----------------------------------------------------------------------------
(* Users, and the Instance reconciler's writes to the cluster.                *)

CreateBackup(n, s, retain) ==
    /\ n \notin CronNames
    /\ ~Exists(backup[n])
    /\ uids[n].cr < MaxUID
    /\ uids' = [uids EXCEPT ![n].cr = @ + 1]
    /\ backup' = [backup EXCEPT ![n] =
          [NoBackup EXCEPT !.uid = uids[n].cr + 1, !.storage = s, !.retain = retain]]
    /\ UNCHANGED <<outsideVars, op, seen, work, stored, left, historyVars>>

ChangePolicy(n) ==
    /\ Exists(backup[n]) /\ ~backup[n].deleting
    /\ left.policy > 0
    /\ left' = [left EXCEPT !.policy = @ - 1]
    /\ backup' = [backup EXCEPT ![n].retain = ~@]
    /\ UNCHANGED <<outsideVars, op, seen, uids, work, stored, historyVars>>

(* The data the user decides about: that of this Backup's operator backup,    *)
(* unless the operator is deleting it already.                                *)
DataOf(n) ==
    IF \/ op[n].deleting
       \/ op[n].controller # backup[n].uid /\ backup[n].owner # op[n].uid
    THEN {} ELSE {<<n, op[n].uid>>} \cap stored

DeleteBackup(n) ==
    /\ Exists(backup[n]) /\ ~backup[n].deleting
    /\ backup' = [backup EXCEPT ![n].deleting = TRUE]
    /\ IF backup[n].retain
       THEN /\ retained' = retained \cup DataOf(n)
            /\ UNCHANGED doomed
       ELSE /\ doomed' = doomed \cup DataOf(n)
            /\ UNCHANGED retained
    /\ UNCHANGED <<outsideVars, op, seen, uids, work, stored, left, ended>>

(* A user deletes the operator backup behind the Backup's back. What becomes  *)
(* of its data is no longer the Backup's matter.                              *)
DeleteOpBackup(n) ==
    /\ Exists(op[n]) /\ ~op[n].deleting
    /\ left.deletes > 0
    /\ left' = [left EXCEPT !.deletes = @ - 1]
    /\ op' = [op EXCEPT ![n] = Deleted(op[n])]
    /\ retained' = retained \ {<<n, op[n].uid>>}
    /\ doomed' = doomed \ {<<n, op[n].uid>>}
    /\ UNCHANGED <<outsideVars, backup, seen, uids, work, stored, ended>>

ClusterAppears ==
    /\ ~pxc
    /\ pxc' = TRUE
    /\ UNCHANGED <<registered, class, mirror, backup, op, seen, uids, work, stored, left, historyVars>>

(* applyBackupSettings registers a storage with the next Apply.               *)
RegisterStorage(s) ==
    /\ pxc /\ s \notin registered
    /\ registered' = registered \cup {s}
    /\ UNCHANGED <<pxc, class, mirror, backup, op, seen, uids, work, stored, left, historyVars>>

(* The backup settings are taken off the Instance, or put back. Only Mirror   *)
(* looks: without scheduled backups nothing depends on it.                    *)
ChangeClass ==
    /\ CronNames # {}
    /\ class' = ~class
    /\ UNCHANGED <<pxc, registered, backup, op, seen, uids, work, mirror, stored, left, historyVars>>

-----------------------------------------------------------------------------
(* The Percona operator (external).                                           *)

(* The schedule's name is in a field of the backup, or its ancestor label has *)
(* it; a backup may also come without either.                                 *)
CronBackup(n, s, deleteData, named) ==
    /\ n \in CronNames
    /\ s \in registered
    /\ ~Exists(op[n])
    /\ uids[n].ob < MaxUID
    /\ uids' = [uids EXCEPT ![n].ob = @ + 1]
    /\ op' = [op EXCEPT ![n] =
          [NoOp EXCEPT !.uid = uids[n].ob + 1, !.cron = TRUE, !.named = named,
                       !.storage = s, !.deleteData = deleteData]]
    /\ UNCHANGED <<outsideVars, backup, seen, work, stored, left, historyVars>>

OperatorRuns(n) ==
    /\ Exists(op[n]) /\ ~op[n].deleting
    /\ \/ /\ op[n].state = "New"
          /\ op' = [op EXCEPT ![n].state = "Starting"]
          /\ UNCHANGED stored
       \/ /\ op[n].state = "Starting"
          /\ op' = [op EXCEPT ![n].state = "Running"]
          /\ UNCHANGED stored
       \/ /\ op[n].state = "Running"
          /\ op' = [op EXCEPT ![n].state = "Succeeded"]
          /\ stored' = stored \cup {<<n, op[n].uid>>}
       \/ /\ op[n].state \in {"Starting", "Running"}
          /\ op' = [op EXCEPT ![n].state = "Failed"]
          /\ UNCHANGED stored
    /\ ended' = IF op'[n].state \in Terminal
                THEN ended \cup {[name |-> n, uid |-> op[n].uid, cr |-> op[n].controller,
                                  state |-> op'[n].state]}
                ELSE ended
    /\ UNCHANGED <<outsideVars, backup, seen, uids, work, left, retained, doomed>>

(* The delete-backup finalizer: purge the data, then let the object go.       *)
OperatorPurges(n) ==
    /\ op[n].deleting
    /\ stored' = stored \ {<<n, op[n].uid>>}
    /\ op' = [op EXCEPT ![n] = NoOp]
    /\ UNCHANGED <<outsideVars, backup, seen, uids, work, left, historyVars>>

(* Retention of a schedule. The data is no longer the user's to decide about. *)
OperatorPrunes(n) ==
    /\ op[n].cron /\ ~op[n].deleting /\ op[n].state \in Terminal
    /\ op' = [op EXCEPT ![n] = Deleted(op[n])]
    /\ retained' = retained \ {<<n, op[n].uid>>}
    /\ doomed' = doomed \ {<<n, op[n].uid>>}
    /\ UNCHANGED <<outsideVars, backup, seen, uids, work, stored, left, ended>>

-----------------------------------------------------------------------------
(* SyncBackup.                                                                *)

managedByRuntime(b) == ~b.scheduled

Step(n, w) ==
    /\ work' = [work EXCEPT ![n] = w]
    /\ UNCHANGED <<outsideVars, seen, left, stored, historyVars>>

(* The runtime calls SyncBackup for a Backup that is not deleted and has not  *)
(* failed: BackupStateFailed is terminal (backup.go:98). Whether it calls it  *)
(* after a success too the code does not say: it may, and FairSpec does not   *)
(* count on it.                                                               *)
SyncBackup(n) ==
    /\ work[n].pc = "idle"
    /\ Exists(backup[n]) /\ ~backup[n].deleting /\ backup[n].state # "Failed"
    /\ Step(n, [NoWork EXCEPT !.pc = "get", !.cr = backup[n]])
    /\ UNCHANGED <<backup, op, uids>>

Report(n, state) ==
    Step(n, [work[n] EXCEPT !.pc = "report", !.state = state])

(* Mutants of backupState: the case of a starting backup is missing and its   *)
(* state is passed through; the case of a failed one is missing.              *)
backupStateRaw(state) ==
    CASE state \in {"Failed", "Succeeded", "Running", "Starting"} -> state
      [] OTHER -> "Pending"

backupStateNoFailed(state) ==
    CASE state = "Succeeded" -> "Succeeded"
      [] state \in {"Running", "Starting"} -> "Running"
      [] OTHER -> "Pending"

(* Operator states as Backup states.                                          *)
backupState(state) ==
    CASE state = "Failed" -> "Failed"
      [] state = "Succeeded" -> "Succeeded"
      [] state \in {"Running", "Starting"} -> "Running"
      [] OTHER -> "Pending"

(* Mutant of SyncGet: a storage that is not registered yet fails the Backup.  *)
SyncGetHasty(n) ==
    LET cr == work[n].cr
        ob == Get(n)
    IN  /\ work[n].pc = "get"
        /\ \/ /\ ~Exists(ob)
              /\ ~managedByRuntime(cr) \/ ~pxc
              /\ Report(n, "Pending")
           \/ /\ ~Exists(ob)
              /\ managedByRuntime(cr) /\ pxc /\ cr.storage \notin registered
              /\ Report(n, "Failed")
           \/ /\ ~Exists(ob)
              /\ managedByRuntime(cr) /\ pxc /\ cr.storage \in registered
              /\ Step(n, [work[n] EXCEPT !.pc = "create"])
           \/ /\ Exists(ob) /\ managedByRuntime(cr)
              /\ Step(n, [work[n] EXCEPT !.pc = "patch", !.ob = ob])
           \/ /\ Exists(ob) /\ ~managedByRuntime(cr)
              /\ Report(n, backupState(ob.state))
        /\ UNCHANGED <<backup, op, uids>>

SyncGet(n) ==
    LET cr == work[n].cr
        ob == Get(n)
    IN  /\ work[n].pc = "get"
        /\ \/ /\ ~Exists(ob)
              /\ ~managedByRuntime(cr) \/ ~pxc \/ cr.storage \notin registered
              /\ Report(n, "Pending")
           \/ /\ ~Exists(ob)
              /\ managedByRuntime(cr) /\ pxc /\ cr.storage \in registered
              /\ Step(n, [work[n] EXCEPT !.pc = "create"])
           \/ /\ Exists(ob) /\ managedByRuntime(cr)
              /\ Step(n, [work[n] EXCEPT !.pc = "patch", !.ob = ob])
           \/ /\ Exists(ob) /\ ~managedByRuntime(cr)
              /\ Report(n, backupState(ob.state))
        /\ UNCHANGED <<backup, op, uids>>

newOpBackup(cr, uid) ==
    [NoOp EXCEPT !.uid = uid, !.storage = cr.storage,
                 !.deleteData = ~cr.retain, !.controller = cr.uid]

(* AlreadyExists is followed by a Get, which may find nothing: an error.      *)
SyncCreate(n) ==
    /\ work[n].pc = "create"
    /\ \/ /\ ~Exists(op[n])
          /\ uids[n].ob < MaxOpUID
          /\ uids' = [uids EXCEPT ![n].ob = @ + 1]
          /\ op' = [op EXCEPT ![n] = newOpBackup(work[n].cr, uids[n].ob + 1)]
          /\ Step(n, [work[n] EXCEPT !.pc = "patch", !.ob = op'[n]])
       \/ /\ Exists(op[n])
          /\ Step(n, IF Exists(Get(n))
                     THEN [work[n] EXCEPT !.pc = "patch", !.ob = Get(n)]
                     ELSE NoWork)
          /\ UNCHANGED <<op, uids>>
    /\ UNCHANGED backup

(* A merge patch carries the difference between what was read and what is     *)
(* wanted, and nothing else.                                                  *)
Patched(now, read, cr) ==
    LET b == IF read.controller = cr.uid THEN now ELSE [now EXCEPT !.controller = cr.uid]
    IN  IF read.deleteData = ~cr.retain THEN b ELSE WithFinalizer(b, ~cr.retain)

(* Mutant of PatchFails: takes over an object that another controller owns.   *)
PatchFailsNever(now, read, cr) ==
    \/ ~Exists(now)
    \/ now.deleting /\ ~now.deleteData /\ ~cr.retain

(* SetControllerReference refuses an object that another controller owns;     *)
(* the server refuses a new finalizer on a deleted object.                    *)
PatchFails(now, read, cr) ==
    \/ read.controller \notin {0, cr.uid}
    \/ ~Exists(now)
    \/ now.deleting /\ ~now.deleteData /\ ~cr.retain

SyncPatch(n) ==
    LET w == work[n]
    IN  /\ w.pc = "patch"
        /\ IF PatchFails(op[n], w.ob, w.cr)
           THEN Step(n, NoWork) /\ UNCHANGED op
           ELSE /\ op' = [op EXCEPT ![n] = Patched(op[n], w.ob, w.cr)]
                /\ Report(n, backupState(op[n].state))
        /\ UNCHANGED <<backup, uids>>

(* The runtime stores the returned state.                                     *)
SyncReport(n) ==
    /\ work[n].pc = "report"
    /\ backup' = IF backup[n].uid = work[n].cr.uid
                 THEN [backup EXCEPT ![n].state = work[n].state]
                 ELSE backup
    /\ Step(n, NoWork)
    /\ UNCHANGED <<op, uids>>

-----------------------------------------------------------------------------
(* CleanupBackup, called for a deleted Backup until it returns true.          *)

CleanupBackup(n) ==
    /\ work[n].pc = "idle"
    /\ Exists(backup[n]) /\ backup[n].deleting
    /\ Step(n, [NoWork EXCEPT !.pc = "cleanupGet", !.cr = backup[n]])
    /\ UNCHANGED <<backup, op, uids>>

(* Mutants of CleanupGet. It takes a begun deletion for a finished one; it    *)
(* removes the finalizer whatever the policy; it never removes it; it does    *)
(* not delete.                                                                *)
CleanupGetEarly(n) ==
    /\ work[n].pc = "cleanupGet"
    /\ Step(n, IF ~Exists(Get(n)) \/ Get(n).deleting
               THEN [work[n] EXCEPT !.pc = "cleaned"]
               ELSE [work[n] EXCEPT !.pc = "delete"])
    /\ UNCHANGED <<backup, op, uids>>

CleanupGetAnyPolicy(n) ==
    LET ob == Get(n)
    IN  /\ work[n].pc = "cleanupGet"
        /\ \/ /\ ~Exists(ob)
              /\ Step(n, [work[n] EXCEPT !.pc = "cleaned"])
           \/ /\ Exists(ob) /\ ob.deleteData
              /\ Step(n, [work[n] EXCEPT !.pc = "removeFinalizer", !.ob = ob])
           \/ /\ Exists(ob) /\ ~ob.deleteData
              /\ Step(n, IF ob.deleting THEN NoWork ELSE [work[n] EXCEPT !.pc = "delete"])
        /\ UNCHANGED <<backup, op, uids>>

CleanupGetNoRemoval(n) ==
    /\ work[n].pc = "cleanupGet"
    /\ Step(n, IF ~Exists(Get(n)) THEN [work[n] EXCEPT !.pc = "cleaned"]
               ELSE IF Get(n).deleting THEN NoWork
               ELSE [work[n] EXCEPT !.pc = "delete"])
    /\ UNCHANGED <<backup, op, uids>>

CleanupGetNoDelete(n) ==
    /\ work[n].pc = "cleanupGet"
    /\ Step(n, IF ~Exists(Get(n)) THEN [work[n] EXCEPT !.pc = "cleaned"]
               ELSE IF work[n].cr.retain /\ Get(n).deleteData
               THEN [work[n] EXCEPT !.pc = "removeFinalizer", !.ob = Get(n)]
               ELSE NoWork)
    /\ UNCHANGED <<backup, op, uids>>

CleanupGet(n) ==
    LET ob == Get(n)
    IN  /\ work[n].pc = "cleanupGet"
        /\ \/ /\ ~Exists(ob)
              /\ Step(n, [work[n] EXCEPT !.pc = "cleaned"])
           \/ /\ Exists(ob) /\ work[n].cr.retain /\ ob.deleteData
              /\ Step(n, [work[n] EXCEPT !.pc = "removeFinalizer", !.ob = ob])
           \/ /\ Exists(ob) /\ ~(work[n].cr.retain /\ ob.deleteData)
              /\ Step(n, IF ob.deleting THEN NoWork ELSE [work[n] EXCEPT !.pc = "delete"])
        /\ UNCHANGED <<backup, op, uids>>

(* An Update fails on a conflict: when the object is not the one read.        *)
CleanupRemoveFinalizer(n) ==
    /\ work[n].pc = "removeFinalizer"
    /\ op' = IF op[n] = work[n].ob
             THEN [op EXCEPT ![n] = WithFinalizer(op[n], FALSE)]
             ELSE op
    /\ Step(n, NoWork)
    /\ UNCHANGED <<backup, uids>>

CleanupDelete(n) ==
    /\ work[n].pc = "delete"
    /\ op' = [op EXCEPT ![n] = Deleted(op[n])]
    /\ Step(n, NoWork)
    /\ UNCHANGED <<backup, uids>>

(* CleanupBackup returned true: the runtime lets the Backup go.               *)
CleanupDone(n) ==
    /\ work[n].pc = "cleaned"
    /\ backup' = [backup EXCEPT ![n] = NoBackup]
    /\ Step(n, NoWork)
    /\ UNCHANGED <<op, uids>>

-----------------------------------------------------------------------------
(* Mirror: an operator backup made by a schedule is to have a Backup, owned   *)
(* by it, while the Instance has a backup class. Without a schedule's name    *)
(* that Backup looks like an on-demand one to SyncBackup.                     *)
Mirror(n) ==
    LET ob == Get(n)
    IN  /\ mirror[n] = NoBackup
        /\ Exists(ob) /\ ~ob.deleting
        /\ ob.cron
        /\ ob.controller = 0
        /\ class
        /\ ob.storage # NoStorage
        /\ mirror' = [mirror EXCEPT ![n] =
              [NoBackup EXCEPT !.scheduled = ob.named, !.storage = ob.storage, !.owner = ob.uid]]
        /\ UNCHANGED <<pxc, registered, class, backup, op, seen, uids, work, stored, left,
                       historyVars>>

(* The runtime creates what Mirror has returned; AlreadyExists is no error.   *)
MirrorCreates(n) ==
    /\ mirror[n] # NoBackup
    /\ \/ /\ ~Exists(backup[n])
          /\ uids[n].cr < MaxUID
          /\ uids' = [uids EXCEPT ![n].cr = @ + 1]
          /\ backup' = [backup EXCEPT ![n] = [mirror[n] EXCEPT !.uid = uids[n].cr + 1]]
       \/ Exists(backup[n]) /\ UNCHANGED <<uids, backup>>
    /\ mirror' = [mirror EXCEPT ![n] = NoBackup]
    /\ UNCHANGED <<pxc, registered, class, op, seen, work, stored, left, historyVars>>

(* The provider restarts and forgets every running call (ns = Names), or a    *)
(* request fails and the calls for one Backup return an error.                *)
Interrupt(ns) ==
    /\ \E n \in ns : work[n].pc # "idle" \/ mirror[n] # NoBackup
    /\ left.restarts > 0
    /\ left' = [left EXCEPT !.restarts = @ - 1]
    /\ work' = [n \in Names |-> IF n \in ns THEN NoWork ELSE work[n]]
    /\ mirror' = [n \in Names |-> IF n \in ns THEN NoBackup ELSE mirror[n]]
    /\ UNCHANGED <<pxc, registered, class, backup, op, seen, uids, stored, historyVars>>

Handler(n) ==
    \/ SyncBackup(n) \/ SyncGet(n) \/ SyncCreate(n) \/ SyncPatch(n) \/ SyncReport(n)
    \/ CleanupBackup(n) \/ CleanupGet(n) \/ CleanupRemoveFinalizer(n)
    \/ CleanupDelete(n) \/ CleanupDone(n)

Users(n) ==
    \/ \E s \in Storages, retain \in BOOLEAN : CreateBackup(n, s, retain)
    \/ ChangePolicy(n)
    \/ DeleteBackup(n)
    \/ DeleteOpBackup(n)

Operator(n) ==
    \/ \E s \in Storages, deleteData, named \in BOOLEAN : CronBackup(n, s, deleteData, named)
    \/ OperatorRuns(n) \/ OperatorPurges(n) \/ OperatorPrunes(n)

Next ==
    \/ ClusterAppears
    \/ \E s \in Storages : RegisterStorage(s)
    \/ \E n \in Names :
          \/ Handler(n) \/ Mirror(n) \/ MirrorCreates(n) \/ Users(n) \/ Operator(n)
          \/ CollectOp(n) \/ CollectBackup(n) \/ CacheCatchesUp(n)
    \/ ChangeClass
    \/ \E ns \in {Names} \cup {{n} : n \in Names} : Interrupt(ns)

Spec == Init /\ [][Next]_vars

(* The runtime goes on with a call that it has begun, and calls again for a   *)
(* Backup without a verdict and for a deleted one.                            *)
Owed(n) ==
    \/ work[n].pc # "idle"
    \/ backup[n].deleting
    \/ backup[n].state \notin Terminal

(* The operator, the cache, the garbage collector and the Instance reconciler *)
(* keep working. Users, schedules and Mirror owe nothing.                     *)
FairSpec ==
    /\ Spec
    /\ WF_vars(ClusterAppears)
    /\ \A s \in Storages : WF_vars(RegisterStorage(s))
    /\ \A n \in Names :
          /\ WF_vars(Owed(n) /\ Handler(n))
          /\ WF_vars(OperatorRuns(n)) /\ WF_vars(OperatorPurges(n))
          /\ WF_vars(CollectOp(n)) /\ WF_vars(CollectBackup(n))
          /\ WF_vars(CacheCatchesUp(n))

-----------------------------------------------------------------------------
(* Every variable has its type.                                               *)
TypeOK ==
    /\ pxc \in BOOLEAN
    /\ registered \subseteq Storages
    /\ class \in BOOLEAN
    /\ backup \in [Names -> BackupCR]
    /\ op \in [Names -> OpBackup]
    /\ seen \in [Names -> OpBackup]
    /\ uids \in [Names -> [cr : UID, ob : UID]]
    /\ work \in [Names -> Work]
    /\ mirror \in [Names -> BackupCR]
    /\ stored \subseteq Names \X Stamp
    /\ left \in [policy : 0..MaxPolicyChanges, deletes : 0..MaxDirectDeletes, restarts : 0..MaxRestarts]
    /\ retained \subseteq Names \X Stamp
    /\ doomed \subseteq Names \X Stamp
    /\ ended \subseteq [name : Names, uid : UID, cr : UID, state : Terminal]

(* "For DeletionPolicy: Retain, remove storage-protection finalizers before   *)
(* deletion to preserve backup data" (backup.go:503-504): the data of a       *)
(* Backup that was deleted with Retain stays in the bucket.                   *)
RetainedDataIsKept == retained \subseteq stored

(* Otherwise no data is left behind: once a Backup deleted with policy Delete *)
(* is gone, so is its data.                                                   *)
DeletedDataIsPurged ==
    \A n \in Names : ~Exists(backup[n]) =>
       \A u \in Stamp : <<n, u>> \in doomed => <<n, u>> \notin stored

(* "Return true only when fully deleted" (backup.go:505): an operator backup  *)
(* that SyncBackup created never outlives its Backup.                         *)
NoOrphan ==
    \A n \in Names : Exists(op[n]) /\ op[n].controller # 0
       => op[n].controller = backup[n].uid

(* A Backup that is not deleted reaches a terminal state: neither a cluster   *)
(* or a storage that appears late, nor a restart of the provider between two  *)
(* requests, leaves it Pending for good.                                      *)
BackupEnds ==
    \A n \in Names : Exists(backup[n]) ~>
       backup[n].state \in Terminal \/ backup[n].deleting \/ ~Exists(backup[n])

(* CleanupBackup eventually returns true: a deleted Backup goes away.         *)
DeletionEnds ==
    \A n \in Names : backup[n].deleting ~> ~backup[n].deleting

(* An on-demand Backup is reported Succeeded or Failed only when an operator  *)
(* backup created for this very Backup, not for a predecessor of the same     *)
(* name, has ended so. In particular "a startup race" between Backup, cluster *)
(* and storage never ends in "a permanently failed backup" (backup.go:95-99). *)
VerdictIsReal ==
    \A n \in Names \ CronNames : backup[n].state \in Terminal =>
       \E e \in ended : /\ e.name = n /\ e.cr = backup[n].uid
                        /\ e.state = backup[n].state

(* On-demand Backups keep the promise of OneShot.tla: an operator backup runs *)
(* at most once for each, its end is what is reported, that report is final,  *)
(* and the Backup goes only when the operator's is gone; all this until       *)
(* somebody deletes an operator backup directly.                              *)
Tampered == left.deletes < MaxDirectDeletes

JobOf(n) ==
    IF Tampered THEN "Void"
    ELSE IF ~Exists(backup[n]) THEN "None"
    ELSE IF backup[n].deleting THEN "Closing"
    ELSE IF backup[n].state \in Terminal THEN backup[n].state ELSE "Open"

RanOf(n) ==
    IF Tampered \/ ~Exists(op[n]) THEN "No"
    ELSE IF op[n].state = "New" THEN "Queued"
    ELSE IF op[n].state = "Starting" THEN "Running" ELSE op[n].state

Job == INSTANCE OneShot WITH
    Names <- Names \ CronNames,
    MayReject <- FALSE,
    job <- [n \in Names \ CronNames |-> JobOf(n)],
    ran <- [n \in Names \ CronNames |-> RanOf(n)]

BackupIsOneShot == Job!Spec
=============================================================================
