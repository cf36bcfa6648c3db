---------------------------- MODULE InstanceSync ----------------------------
(* The reconciler of one Instance: SyncPXC and StatusPXC                      *)
(* (internal/provider/provider.go), with the copy of the source's credentials *)
(* and the gate on the engine when the Instance is seeded from a data source. *)
(* It runs beside the Restores of that Instance (Restores.tla), which it      *)
(* shares the Restore resources with.                                         *)
(*                                                                            *)
(* A reconcile runs when the Instance is in the work queue, and in steps, one *)
(* per request, as the handlers do.                                           *)
(*                                                                            *)
(* The content of the cluster's spec is left out: the properties here are     *)
(* about when it is applied, not what it says.                                *)
EXTENDS Restores

CONSTANTS
    Target,       \* the Instance that is reconciled
    Seed,         \* the name of the Restore that the runtime creates for its data source
    SourceSecretMayGo, \* TRUE: the source Instance may be deleted with its secret
    MaxFlaps      \* bound on spontaneous losses of readiness

ASSUME TargetAssumption == Target \in Instances /\ Seed \in Names
ASSUME FlapsAssumption == MaxFlaps \in Nat /\ SourceSecretMayGo \in BOOLEAN

VARIABLES
    dataSource,   \* .spec.dataSource of the Instance; NoSeed when it has none
    engine,       \* status of the PerconaXtraDBCluster
    secret,       \* users secret of the Instance: whose credentials it holds
    sourceSecret, \* does the users secret of the source Instance exist?
    datadir,      \* whose credentials the data directory knows
    flaps,        \* losses of readiness still allowed
    queued,       \* is the Instance in the work queue?
    sync,         \* the running reconcile and what it has read
    seeded,       \* the runtime has seen the seeding Restore end
    phase,        \* phase of the Instance
    strays        \* history: [Names -> Applies during the operator restore of that name]

clusterVars == <<engine, secret, sourceSecret, datadir, flaps>>
syncVars == <<sync, seeded, phase, strays>>
instanceVars == <<dataSource, clusterVars, syncVars>>
vars == <<source, sourceOp, restore, op, seen, uids, work, restarts, applied, queued,
          dataSource, engine, secret, sourceSecret, datadir, flaps, sync, seeded, phase, strays>>

NoSeed == [NoDataSource EXCEPT !.type = "None"]
Seeding == dataSource # NoSeed

(* DataSourceStatus of the reconcile's context: unset, not Done, or Done.     *)
DSStatus == {"Unset", "NotDone", "Done"}
Engines == {"Absent", "Initializing", "Ready", "Paused", "Error"}
Reported == {"None", "Provisioning", "Restoring", "Ready", "Failed"}

(* A reconcile: ds is the DataSourceStatus of its context, engine the status  *)
(* of the cluster that StatusPXC has read, phase what it has come to.         *)
Syncs ==
    [pc : {"idle", "target", "origin", "source", "copy", "apply", "gate",
           "status", "list", "details", "write"},
     ds : DSStatus, engine : Engines, phase : Reported]

NoSync == [pc |-> "idle", ds |-> "Unset", engine |-> "Absent", phase |-> "None"]

Init ==
    /\ RestoreInit
    /\ dataSource \in {NoSeed} \cup
          {ds \in DataSource : /\ ds.type # "Invalid" /\ ds.date = NoTime
                               /\ ds.type = "Backup" => source[ds.backup].instance # Target
                               /\ ds.type = "PointInTime" => ds.instance # Target}
    /\ engine = "Absent"
    /\ secret = "None"
    /\ sourceSecret = TRUE
    /\ datadir = "None"
    /\ flaps = MaxFlaps
    /\ queued = TRUE
    /\ sync = NoSync
    /\ seeded = FALSE
    /\ phase = "None"
    /\ strays = [r \in Names |-> 0]

-----------------------------------------------------------------------------
(* The Percona operator's side of the cluster (external).                     *)

RestoreRuns == {r \in Names : Exists(op[r]) /\ op[r].pxcCluster = Target
                              /\ op[r].state \in RunningPhases}

(* Without a users secret the operator makes one up.                          *)
OperatorMakesSecret ==
    /\ engine # "Absent" /\ secret = "None"
    /\ secret' = "Random"
    /\ UNCHANGED <<restoreVars, dataSource, engine, sourceSecret, datadir, flaps,
                   queued, syncVars>>

(* The first start writes the secret's credentials into the data directory.   *)
EngineInitializes ==
    /\ engine = "Initializing" /\ secret # "None" /\ datadir = "None"
    /\ datadir' = secret
    /\ UNCHANGED <<restoreVars, dataSource, engine, secret, sourceSecret, flaps,
                   queued, syncVars>>

(* Operator, proxy and monitoring log in with the secret.                     *)
EngineGetsReady ==
    /\ engine \in {"Initializing", "Error"} /\ datadir # "None"
    /\ datadir = secret
    /\ RestoreRuns = {}
    /\ engine' = "Ready"
    /\ UNCHANGED <<restoreVars, dataSource, secret, sourceSecret, datadir, flaps,
                   queued, syncVars>>

EngineFlaps ==
    /\ engine = "Ready" /\ flaps > 0
    /\ flaps' = flaps - 1
    /\ engine' \in {"Initializing", "Error"}
    /\ UNCHANGED <<restoreVars, dataSource, secret, sourceSecret, datadir,
                   queued, syncVars>>

SourceSecretGoes ==
    /\ SourceSecretMayGo /\ sourceSecret
    /\ sourceSecret' = FALSE
    /\ UNCHANGED <<restoreVars, dataSource, engine, secret, datadir, flaps,
                   queued, syncVars>>

(* A restore needs the data directory of a started cluster: without one its   *)
(* validation fails. It stops the cluster, rewrites the data directory, which *)
(* then knows the credentials of the source, and starts the cluster again.    *)
OperatorRestores(r) ==
    /\ OperatorAdvances(r)
    /\ op[r].state = "New" => datadir # "None"
    /\ engine' = CASE op'[r].state = "StopCluster" -> "Paused"
                   [] op'[r].state = "StartCluster" -> "Initializing"
                   [] OTHER -> engine
    /\ datadir' = IF op'[r].state = "PrepareCluster" /\ r = Seed /\ Seeding
                  THEN "Source" ELSE datadir
    /\ UNCHANGED <<dataSource, secret, sourceSecret, flaps, queued, syncVars>>

-----------------------------------------------------------------------------
(* The work queue. Changes of a Restore put the Instance it is for into it.   *)
(* Changes of the cluster's status do not: that watch is for its spec.        *)

(* Mutants of enqueueRestoreInstance: no Restore is watched; only new ones.   *)
enqueueNothing(r) == FALSE

enqueueCreated(r) == ~Exists(restore[r]) /\ restore'[r].instance = Target

enqueueRestoreInstance(r) == Target \in {restore[r].instance, restore'[r].instance}

RestoreEvents ==
    queued' = (queued \/ \E r \in Names : restore'[r] # restore[r] /\ enqueueRestoreInstance(r))

(* Whatever else makes the runtime look at an Instance; nothing relies on it. *)
OtherEvent ==
    /\ ~queued /\ queued' = TRUE
    /\ UNCHANGED <<restoreVars, instanceVars>>

-----------------------------------------------------------------------------
(* SyncPXC.                                                                   *)

Goto(pc) == sync' = [sync EXCEPT !.pc = pc]

(* Mutant of SyncPXC: does not look for active Restores.                      *)
SyncPXCAlways ==
    /\ sync.pc = "idle" /\ queued
    /\ queued' = FALSE
    /\ Goto(IF Seeding THEN "target" ELSE "apply")
    /\ UNCHANGED <<restoreVars, dataSource, clusterVars, seeded, phase, strays>>

(* While a Restore is active nothing is applied, and only the status is       *)
(* computed.                                                                  *)
SyncPXC ==
    /\ sync.pc = "idle" /\ queued
    /\ queued' = FALSE
    /\ Goto(IF hasActiveRestoreForInstance(Target) THEN "status"
            ELSE IF Seeding THEN "target" ELSE "apply")
    /\ UNCHANGED <<restoreVars, dataSource, clusterVars, seeded, phase, strays>>

(* A users secret that is there is left as it is.                             *)
ensureDataSourceCredentials ==
    /\ sync.pc = "target"
    /\ Goto(IF secret = "None" THEN "origin" ELSE "apply")
    /\ UNCHANGED <<restoreVars, dataSource, clusterVars, queued, seeded, phase, strays>>

(* Is the Instance known whose credentials are to be copied? A Backup source  *)
(* names it through the Backup, a PointInTime source directly.                *)
SourceKnown ==
    CASE dataSource.type = "Backup" -> source[dataSource.backup].state # "Absent"
      [] dataSource.type = "PointInTime" -> TRUE
      [] OTHER -> FALSE

dataSourceInstanceName ==
    /\ sync.pc = "origin"
    /\ Goto(IF SourceKnown THEN "source" ELSE "apply")
    /\ UNCHANGED <<restoreVars, dataSource, clusterVars, queued, seeded, phase, strays>>

(* Mutant of GetSourceSecret: a missing secret is left to the operator.       *)
GetSourceSecretIfPresent ==
    /\ sync.pc = "source"
    /\ Goto(IF sourceSecret THEN "copy" ELSE "apply")
    /\ UNCHANGED <<restoreVars, dataSource, clusterVars, queued, seeded, phase, strays>>

(* A source secret that is missing ends the reconcile with an error, which    *)
(* the runtime may take for final or try again after.                         *)
GetSourceSecret ==
    /\ sync.pc = "source"
    /\ \/ sourceSecret /\ Goto("copy") /\ UNCHANGED queued
       \/ ~sourceSecret /\ sync' = NoSync /\ queued' \in {queued, TRUE}
    /\ UNCHANGED <<restoreVars, dataSource, clusterVars, seeded, phase, strays>>

(* AlreadyExists counts as success.                                           *)
copyCredentials ==
    /\ sync.pc = "copy"
    /\ secret' = IF secret = "None" THEN "Source" ELSE secret
    /\ Goto("apply")
    /\ UNCHANGED <<restoreVars, dataSource, engine, sourceSecret, datadir, flaps,
                   queued, seeded, phase, strays>>

SyncApply ==
    /\ sync.pc = "apply"
    /\ engine' = IF engine = "Absent" THEN "Initializing" ELSE engine
    /\ strays' = [r \in Names |-> IF r \in RestoreRuns THEN strays[r] + 1 ELSE strays[r]]
    /\ Goto(IF Seeding THEN "gate" ELSE "status")
    /\ UNCHANGED <<restoreVars, dataSource, secret, sourceSecret, datadir, flaps,
                   queued, seeded, phase>>

(* The gate: the data source is only looked at while the engine is Ready.     *)
SyncGateWaits ==
    /\ sync.pc = "gate" /\ engine # "Ready"
    /\ sync' = [sync EXCEPT !.pc = "status", !.ds = "NotDone"]
    /\ UNCHANGED <<restoreVars, dataSource, clusterVars, queued, seeded, phase, strays>>

(* Right after its first Apply the cluster may be missing from the cache.     *)
SyncGateMisses ==
    /\ sync.pc = "gate" /\ engine = "Initializing" /\ datadir = "None"
    /\ Goto("status")
    /\ UNCHANGED <<restoreVars, dataSource, clusterVars, queued, seeded, phase, strays>>

(* What the runtime does for the data source of an Instance (external): it    *)
(* creates the seeding Restore once its source can be resolved, and is done   *)
(* when that Restore is terminal.                                             *)
SeedsOrWaits ==
    /\ IF ~seeded /\ ~Exists(restore[Seed]) /\ SourceKnown
       THEN CreateRestore(Seed, Target, dataSource)
       ELSE UNCHANGED restoreVars
    /\ RestoreEvents
    /\ seeded' = (seeded \/ restore[Seed].state \in Terminal)
    /\ sync' = [sync EXCEPT !.pc = "status", !.ds = IF seeded' THEN "Done" ELSE "NotDone"]
    /\ UNCHANGED <<dataSource, clusterVars, phase, strays>>

(* Mutant of ReconcileDataSource: the gate lets every cluster pass.           *)
ReconcileDataSourceUngated ==
    /\ sync.pc = "gate"
    /\ SeedsOrWaits

ReconcileDataSource ==
    /\ sync.pc = "gate" /\ engine = "Ready"
    /\ SeedsOrWaits

-----------------------------------------------------------------------------
(* StatusPXC: the cluster is read, then the Restores, then the users secret;  *)
(* later the runtime writes the phase.                                        *)

Answer(p) == sync' = [NoSync EXCEPT !.pc = "write", !.phase = p]

StatusPXC ==
    /\ sync.pc = "status"
    /\ IF engine = "Absent" THEN Answer("Provisioning")
       ELSE IF sync.ds = "NotDone" THEN Answer("Restoring")
       ELSE sync' = [NoSync EXCEPT !.pc = "list", !.engine = engine]
    /\ UNCHANGED <<restoreVars, dataSource, clusterVars, queued, seeded, phase, strays>>

(* Mutant of StatusList: the engine's state is passed through.                *)
StatusListRaw ==
    /\ sync.pc = "list"
    /\ IF hasActiveRestoreForInstance(Target) THEN Answer("Restoring")
       ELSE CASE sync.engine = "Ready" -> Goto("details")
              [] sync.engine = "Error" -> Answer("Failed")
              [] OTHER -> Answer(sync.engine)
    /\ UNCHANGED <<restoreVars, dataSource, clusterVars, queued, seeded, phase, strays>>

(* An active Restore owns the phase, otherwise the engine does.               *)
StatusList ==
    /\ sync.pc = "list"
    /\ IF hasActiveRestoreForInstance(Target) THEN Answer("Restoring")
       ELSE CASE sync.engine = "Ready" -> Goto("details")
              [] sync.engine = "Error" -> Answer("Failed")
              [] OTHER -> Answer("Provisioning")      \* paused, or being created
    /\ UNCHANGED <<restoreVars, dataSource, clusterVars, queued, seeded, phase, strays>>

(* Host and credentials are put together; the users secret is read for it.    *)
buildConnectionDetails ==
    /\ sync.pc = "details"
    /\ Answer(IF secret = "None" THEN "Failed" ELSE "Ready")
    /\ UNCHANGED <<restoreVars, dataSource, clusterVars, queued, seeded, phase, strays>>

WriteStatus ==
    /\ sync.pc = "write"
    /\ phase' = sync.phase
    /\ sync' = NoSync
    /\ UNCHANGED <<restoreVars, dataSource, clusterVars, queued, seeded, strays>>

(* The provider restarts and forgets the running handlers too; or a request   *)
(* fails, and the reconcile or the handler of one Restore returns an error.   *)
(* Either way the Instance is queued again.                                   *)
ProviderRestarts ==
    /\ Interrupt(Names)
    /\ sync' = NoSync /\ queued' = TRUE
    /\ UNCHANGED <<dataSource, clusterVars, seeded, phase, strays>>

SyncFails ==
    /\ sync.pc # "idle" /\ restarts > 0
    /\ restarts' = restarts - 1
    /\ sync' = NoSync /\ queued' = TRUE
    /\ UNCHANGED <<sourceVars, restore, op, seen, uids, work, applied,
                   dataSource, clusterVars, seeded, phase, strays>>

Reconcile ==
    \/ SyncPXC \/ ensureDataSourceCredentials \/ dataSourceInstanceName \/ GetSourceSecret
    \/ copyCredentials \/ SyncApply
    \/ SyncGateWaits \/ SyncGateMisses \/ ReconcileDataSource
    \/ StatusPXC \/ StatusList \/ buildConnectionDetails \/ WriteStatus

Engine == OperatorMakesSecret \/ EngineInitializes \/ EngineGetsReady

(* Users restore an Instance in place from its own backups. The name Seed is  *)
(* one like any other when the Instance has no data source.                   *)
UserRestores(r, b) ==
    /\ r = Seed => ~Seeding
    /\ source[b].instance = Target
    /\ CreateRestore(r, Target, [NoDataSource EXCEPT !.type = "Backup", !.backup = b])

Next ==
    \/ /\ RestoreStep \/ \E r \in Names, b \in Sources : UserRestores(r, b)
       /\ RestoreEvents
       /\ UNCHANGED instanceVars
    \/ \E r \in Names : OperatorRestores(r)
    \/ Engine \/ EngineFlaps \/ SourceSecretGoes
    \/ Reconcile
    \/ ProviderRestarts \/ SyncFails \/ OtherEvent
    \/ \E r \in Names : Interrupt({r}) /\ UNCHANGED <<queued, instanceVars>>

Spec == Init /\ [][Next]_vars

(* The runtime takes an Instance from its queue and sees the reconcile        *)
(* through. Nothing else is assumed: not that anybody is ever queued.         *)
FairSpec == Spec /\ WF_vars(Reconcile)

-----------------------------------------------------------------------------
(* Every variable has its type.                                               *)
TypeOK ==
    /\ RestoreTypeOK
    /\ dataSource \in DataSource \cup {NoSeed}
    /\ engine \in Engines
    /\ secret \in {"None", "Random", "Source"}
    /\ sourceSecret \in BOOLEAN
    /\ datadir \in {"None", "Random", "Source"}
    /\ flaps \in 0..MaxFlaps
    /\ queued \in BOOLEAN
    /\ sync \in Syncs
    /\ seeded \in BOOLEAN
    /\ phase \in Reported
    /\ strays \in [Names -> Nat]

(* "a freshly generated secret would leave the operator, proxy and monitoring *)
(* users unable to authenticate. Copy BEFORE applying the PXC CR so the       *)
(* operator never initializes the secret with random passwords"               *)
(* (provider.go:330-335): a data directory rewritten by the seeding restore   *)
(* meets a secret with the source's credentials.                              *)
SeededClusterAuthenticates ==
    datadir = "Source" => secret = "Source"

(* "issuing it before the StatefulSet exists fails the restore permanently"   *)
(* (provider.go:346-352): the seeding restore is not handed to the operator   *)
(* before the cluster has a data directory.                                   *)
SeedIsNotPremature ==
    Seeding /\ Exists(op[Seed]) => datadir # "None"

(* SyncPXC looks for an active Restore only once, at its start. A restore     *)
(* that begins later may meet one Apply that was already on its way, never a  *)
(* second one.                                                                *)
OneStrayApplyAtMost ==
    \A r \in Names : Exists(op[r]) => strays[r] <= 1

(* "let it own the phase for as long as it is running" (provider.go:500-504): *)
(* the answer of StatusPXC may be out of date when it is written, because a   *)
(* Restore has begun since its List. An Instance that shows Ready although a  *)
(* Restore of it is active does so only until a reconcile that is under way   *)
(* or queued has ended.                                                       *)
ReadyIsCorrected ==
    hasActiveRestoreForInstance(Target) /\ phase = "Ready" => queued \/ sync.pc # "idle"

(* "so the Instance leaves the Restoring phase as soon as one reaches a       *)
(* terminal state. The engine usually reports ready before the Restore CR     *)
(* does, so without this the Instance would sit in Restoring until an         *)
(* unrelated event arrived" (provider.go:577-580): when the engine is Ready   *)
(* for good while a Restore is still active, and in the end none is and the   *)
(* seeding, if any, is over, then the Instance becomes Ready and stays so,    *)
(* with no event but those of the Restores.                                   *)
ReadyInTheEnd ==
    /\ <>(hasActiveRestoreForInstance(Target) /\ [](engine = "Ready"))
    /\ <>[](/\ ~hasActiveRestoreForInstance(Target)
            /\ Seeding => restore[Seed].state \in Terminal)
    => <>[](phase = "Ready")
=============================================================================
