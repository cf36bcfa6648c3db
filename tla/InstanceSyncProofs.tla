------------------------- MODULE InstanceSyncProofs -------------------------
(* Theorems about InstanceSync: the reconciler of an Instance beside any      *)
(* number of Restores. What RestoresProofs shows of the Restores alone holds  *)
(* here too, since every step of InstanceSync is one of their moves.          *)
EXTENDS InstanceSync, RestoresProofs

-----------------------------------------------------------------------------
(* The composition.                                                           *)

(* The data sources that Restores of an Instance are created with.            *)
LEMMA SeedSources ==
  ASSUME dataSource \in DataSource \cup {NoSeed}
  PROVE  /\ SourceKnown => dataSource \in DataSource
         /\ dataSource.type = "Backup" => dataSource.backup \in Sources
         /\ \A b \in Sources : [NoDataSource EXCEPT !.type = "Backup", !.backup = b] \in DataSource
<1>1. NoSeed.type = "None"
  BY DEF NoSeed, NoDataSource
<1>2. dataSource.type = "None" \/ dataSource \in DataSource
  BY <1>1
<1>3. SourceKnown => dataSource.type \in {"Backup", "PointInTime"}
  BY DEF SourceKnown
<1>4. \A b \in Sources : [NoDataSource EXCEPT !.type = "Backup", !.backup = b] \in DataSource
  BY DEF NoDataSource, DataSource
<1>5. QED
  BY <1>2, <1>3, <1>4, DataSourceFields

(* Every step is a move of the Restores.                                      *)
LEMMA InstanceMoves ==
  ASSUME TypeOK, [Next]_vars
  PROVE  RestoreMoves
<1>0. /\ RestoreTypeOK /\ dataSource \in DataSource \cup {NoSeed}
      /\ restarts \in 0..MaxRestarts /\ MaxRestarts \in Nat
      /\ Target \in Instances /\ Seed \in Names
  BY TargetAssumption, RestoreBounds DEF TypeOK, RestoreTypeOK
<1>1. ASSUME UNCHANGED restoreVars PROVE RestoreMoves
  BY <1>0, <1>1 DEF RestoreMoves, restoreVars, sourceVars
<1>2. CASE RestoreStep
  BY <1>2 DEF RestoreMoves, RestoreNext
<1>3. ASSUME NEW r \in Names, NEW ds \in DataSource, CreateRestore(r, Target, ds)
      PROVE  RestoreMoves
  BY <1>0, <1>3 DEF RestoreMoves, RestoreNext
<1>4. ASSUME NEW r \in Names, NEW b \in Sources, UserRestores(r, b) PROVE RestoreMoves
  BY <1>0, <1>3, <1>4, SeedSources DEF UserRestores
<1>5. ASSUME NEW r \in Names, OperatorRestores(r) PROVE RestoreMoves
  BY <1>5 DEF OperatorRestores, RestoreMoves, RestoreNext
<1>6. CASE ReconcileDataSource
  BY <1>0, <1>1, <1>3, <1>6, SeedSources DEF ReconcileDataSource, SeedsOrWaits
<1>7. CASE \/ SyncPXC \/ ensureDataSourceCredentials \/ dataSourceInstanceName \/ GetSourceSecret
           \/ copyCredentials \/ SyncApply \/ SyncGateWaits \/ SyncGateMisses
           \/ StatusPXC \/ StatusList \/ buildConnectionDetails \/ WriteStatus \/ OtherEvent
           \/ Engine \/ EngineFlaps \/ SourceSecretGoes
  BY <1>1, <1>7 DEF SyncPXC, ensureDataSourceCredentials, dataSourceInstanceName,
     GetSourceSecret, copyCredentials, SyncApply,
     SyncGateWaits, SyncGateMisses, StatusPXC, StatusList, buildConnectionDetails, WriteStatus,
     OtherEvent, Engine, OperatorMakesSecret, EngineInitializes,
     EngineGetsReady, EngineFlaps, SourceSecretGoes
<1>8. CASE ProviderRestarts
  BY <1>8 DEF ProviderRestarts, RestoreMoves, RestoreNext
<1>9. CASE SyncFails
  <2>1. restarts - 1 \in 0..MaxRestarts
    BY <1>0, <1>9 DEF SyncFails
  <2>2. QED
    BY <1>9, <2>1 DEF SyncFails, RestoreMoves, sourceVars
<1>10. ASSUME NEW r \in Names, Interrupt({r}) PROVE RestoreMoves
  BY <1>10 DEF RestoreMoves, RestoreNext
<1>11. CASE UNCHANGED vars
  BY <1>1, <1>11 DEF vars, restoreVars
<1>12. QED
  BY <1>2, <1>4, <1>5, <1>6, <1>7, <1>8, <1>9, <1>10, <1>11 DEF Next, Reconcile

(* Which steps change the variables of the Instance.                          *)
InstanceStep ==
    \/ \E r \in Names : OperatorRestores(r)
    \/ Engine \/ EngineFlaps \/ SourceSecretGoes \/ Reconcile \/ ProviderRestarts \/ SyncFails

LEMMA InstanceFrame ==
  ASSUME [Next]_vars
  PROVE  InstanceStep \/ UNCHANGED instanceVars
<1>1. CASE Next
  BY <1>1 DEF Next, InstanceStep, OtherEvent
<1>2. CASE UNCHANGED vars
  BY <1>2 DEF vars, instanceVars, clusterVars, syncVars
<1>3. QED
  BY <1>1, <1>2

-----------------------------------------------------------------------------
(* Types.                                                                     *)

InstanceTypes ==
    /\ dataSource \in DataSource \cup {NoSeed}
    /\ engine \in Engines
    /\ secret \in {"None", "Random", "Source"}
    /\ sourceSecret \in BOOLEAN
    /\ datadir \in {"None", "Random", "Source"}
    /\ flaps \in 0..MaxFlaps
    /\ sync \in Syncs
    /\ seeded \in BOOLEAN
    /\ phase \in Reported
    /\ strays \in [Names -> Nat]

PCs == {"idle", "target", "origin", "source", "copy", "apply", "gate",
        "status", "list", "details", "write"}

(* What a reconcile remembers, field by field.                                *)
LEMMA SyncTyped ==
  NoSync \in Syncs /\ NoSync.pc = "idle"
  BY DEF NoSync, Syncs, DSStatus, Engines, Reported

(* A reconcile that goes on stays typed.                                      *)
LEMMA GotoTyped ==
  ASSUME sync \in Syncs, NEW pc \in PCs, Goto(pc)
  PROVE  sync' \in Syncs /\ sync'.pc = pc
  BY DEF Goto, Syncs, PCs

LEMMA GateTyped ==
  ASSUME sync \in Syncs, NEW ds \in DSStatus,
         sync' = [sync EXCEPT !.pc = "status", !.ds = ds]
  PROVE  sync' \in Syncs /\ sync'.pc = "status"
  BY DEF Syncs

LEMMA AnswerTyped ==
  ASSUME NEW p \in Reported, Answer(p)
  PROVE  sync' \in Syncs /\ sync'.pc = "write" /\ sync'.phase = p
  BY DEF Answer, NoSync, Syncs, DSStatus, Engines

LEMMA ListTyped ==
  ASSUME engine \in Engines, sync' = [NoSync EXCEPT !.pc = "list", !.engine = engine]
  PROVE  sync' \in Syncs /\ sync'.pc = "list"
  BY DEF NoSync, Syncs, DSStatus, Reported

(* What the cluster's status leads to.                                        *)
LEMMA StatusTyped ==
  ASSUME engine \in Engines, StatusPXC
  PROVE  sync' \in Syncs /\ sync'.pc \in {"write", "list"}
         /\ (sync'.pc = "write" => sync'.phase # "Ready")
<1>1. "Provisioning" \in Reported /\ "Restoring" \in Reported
  BY DEF Reported
<1>2. \/ Answer("Provisioning") \/ Answer("Restoring")
      \/ sync' = [NoSync EXCEPT !.pc = "list", !.engine = engine]
  BY DEF StatusPXC
<1>3. CASE Answer("Provisioning") \/ Answer("Restoring")
  BY <1>1, <1>3, AnswerTyped
<1>4. CASE sync' = [NoSync EXCEPT !.pc = "list", !.engine = engine]
  BY <1>4, ListTyped
<1>5. QED
  BY <1>2, <1>3, <1>4

(* The steps of a reconcile that only change what it remembers.               *)
Reads ==
    \/ SyncPXC \/ ensureDataSourceCredentials \/ dataSourceInstanceName \/ GetSourceSecret
    \/ SyncGateWaits \/ SyncGateMisses \/ StatusPXC \/ StatusList \/ buildConnectionDetails
    \/ ProviderRestarts \/ SyncFails

LEMMA ReadsEffect ==
  ASSUME sync \in Syncs, engine \in Engines, Reads
  PROVE  sync' \in Syncs /\ UNCHANGED <<dataSource, clusterVars, seeded, phase, strays>>
<1>1. UNCHANGED <<dataSource, clusterVars, seeded, phase, strays>>
  BY DEF Reads, SyncPXC, ensureDataSourceCredentials, dataSourceInstanceName, GetSourceSecret,
     SyncGateWaits, SyncGateMisses, StatusPXC, StatusList, buildConnectionDetails,
     ProviderRestarts, SyncFails
<1>2. CASE SyncPXC \/ ensureDataSourceCredentials \/ dataSourceInstanceName \/ SyncGateMisses
  <2>1. \E pc \in PCs : Goto(pc)
    BY <1>2 DEF SyncPXC, ensureDataSourceCredentials, dataSourceInstanceName, SyncGateMisses, PCs
  <2>2. QED
    BY <1>1, <2>1, GotoTyped
<1>3. CASE GetSourceSecret \/ ProviderRestarts \/ SyncFails
  <2>1. Goto("copy") \/ sync' = NoSync
    BY <1>3 DEF GetSourceSecret, ProviderRestarts, SyncFails
  <2>2. "copy" \in PCs
    BY DEF PCs
  <2>3. QED
    BY <1>1, <2>1, <2>2, GotoTyped, SyncTyped
<1>4. CASE SyncGateWaits
  <2>1. "NotDone" \in DSStatus
    BY DEF DSStatus
  <2>2. QED
    BY <1>1, <1>4, <2>1, GateTyped DEF SyncGateWaits
<1>5. CASE StatusPXC
  BY <1>1, <1>5, StatusTyped
<1>6. CASE StatusList
  BY <1>1, <1>6, AnswerTyped, GotoTyped DEF StatusList, Reported, PCs
<1>7. CASE buildConnectionDetails
  BY <1>1, <1>7, AnswerTyped DEF buildConnectionDetails, Reported
<1>8. QED
  BY <1>2, <1>3, <1>4, <1>5, <1>6, <1>7 DEF Reads

LEMMA InstanceTypesStep ==
  ASSUME InstanceTypes, [Next]_vars
  PROVE  InstanceTypes'
<1>0. sync \in Syncs /\ engine \in Engines /\ MaxFlaps \in Nat
  BY FlapsAssumption DEF InstanceTypes
<1>1. CASE Reads
  BY <1>0, <1>1, ReadsEffect DEF InstanceTypes, clusterVars
<1>2. CASE copyCredentials
  <2>1. sync' \in Syncs
    BY <1>0, <1>2, GotoTyped DEF copyCredentials, PCs
  <2>2. QED
    BY <1>2, <2>1 DEF copyCredentials, InstanceTypes
<1>3. CASE SyncApply
  <2>1. sync' \in Syncs
    BY <1>0, <1>3, GotoTyped DEF SyncApply, PCs
  <2>2. strays' \in [Names -> Nat]
    BY <1>3 DEF SyncApply, InstanceTypes
  <2>3. QED
    BY <1>3, <2>1, <2>2 DEF SyncApply, InstanceTypes, Engines
<1>4. CASE ReconcileDataSource
  <2>1. seeded' \in BOOLEAN
    BY <1>4 DEF ReconcileDataSource, SeedsOrWaits
  <2>2. sync' \in Syncs
    <3>1. "Done" \in DSStatus /\ "NotDone" \in DSStatus
      BY DEF DSStatus
    <3>2. QED
      BY <1>0, <1>4, <3>1, GateTyped DEF ReconcileDataSource, SeedsOrWaits
  <2>3. QED
    BY <1>4, <2>1, <2>2 DEF ReconcileDataSource, SeedsOrWaits, InstanceTypes, clusterVars
<1>5. CASE WriteStatus
  <2>1. sync.phase \in Reported
    BY <1>0 DEF Syncs
  <2>2. QED
    BY <1>5, <2>1, SyncTyped DEF WriteStatus, InstanceTypes, clusterVars
<1>6. CASE EngineFlaps
  <2>1. flaps - 1 \in 0..MaxFlaps
    BY <1>0, <1>6 DEF EngineFlaps, InstanceTypes
  <2>2. QED
    BY <1>6, <2>1 DEF EngineFlaps, InstanceTypes, Engines, syncVars
<1>7. CASE Engine \/ SourceSecretGoes
  BY <1>7 DEF Engine, OperatorMakesSecret, EngineInitializes, EngineGetsReady, SourceSecretGoes,
     InstanceTypes, Engines, syncVars
<1>8. ASSUME NEW r \in Names, OperatorRestores(r) PROVE InstanceTypes'
  BY <1>8 DEF OperatorRestores, InstanceTypes, Engines, syncVars
<1>9. CASE UNCHANGED instanceVars
  BY <1>9 DEF instanceVars, clusterVars, syncVars, InstanceTypes
<1>10. QED
  BY <1>1, <1>2, <1>3, <1>4, <1>5, <1>6, <1>7, <1>8, <1>9, InstanceFrame
     DEF InstanceStep, Reconcile, Reads

(* An Instance is in the queue or it is not.                                  *)
LEMMA QueuedTyped ==
  ASSUME queued \in BOOLEAN, [Next]_vars
  PROVE  queued' \in BOOLEAN
<1>1. CASE RestoreEvents
  BY <1>1 DEF RestoreEvents
<1>2. CASE queued' \in {queued, TRUE, FALSE}
  BY <1>2
<1>3. RestoreEvents \/ queued' \in {queued, TRUE, FALSE}
  BY DEF Next, OperatorRestores, Engine, OperatorMakesSecret,
     EngineInitializes, EngineGetsReady, EngineFlaps, SourceSecretGoes, Reconcile, SyncPXC,
     ensureDataSourceCredentials, dataSourceInstanceName, GetSourceSecret, copyCredentials,
     SyncApply, SyncGateWaits, SyncGateMisses, ReconcileDataSource, SeedsOrWaits, StatusPXC,
     StatusList, buildConnectionDetails, WriteStatus, ProviderRestarts, SyncFails, OtherEvent, vars
<1>4. QED
  BY <1>1, <1>2, <1>3

(* The data source of an Instance does not change.                            *)
LEMMA DataSourceStays ==
  ASSUME [Next]_vars
  PROVE  dataSource' = dataSource
  BY InstanceFrame DEF InstanceStep, OperatorRestores, Engine, OperatorMakesSecret,
     EngineInitializes, EngineGetsReady, EngineFlaps, SourceSecretGoes, Reconcile, SyncPXC,
     ensureDataSourceCredentials, dataSourceInstanceName,
     GetSourceSecret, copyCredentials, SyncApply, SyncGateWaits, SyncGateMisses,
     ReconcileDataSource, SeedsOrWaits, StatusPXC, StatusList, buildConnectionDetails, WriteStatus, ProviderRestarts, SyncFails, instanceVars, clusterVars, syncVars

-----------------------------------------------------------------------------
(* The inductive invariant.                                                   *)

(* The seeding Restore is only created for a cluster that has been Ready, and *)
(* the operator begins no restore without a data directory. The first is      *)
(* about uids[Seed], which outlives the Restore and its operator restore.     *)
UnderWay == {r \in Names : Exists(op[r]) /\ op[r].state \in RunningPhases}

Engaged ==
    /\ engine = "Ready" \/ (Seeding /\ uids[Seed].cr # 0) \/ UnderWay # {} => datadir # "None"
    /\ datadir # "None" => engine # "Absent"

(* Where the source of the data is known, its credentials are in place before *)
(* the first Apply, and nothing replaces them.                                *)
Credentials ==
    /\ Seeding /\ uids[Seed].cr # 0 => secret = "Source"
    /\ datadir = "Source" => secret = "Source"
    /\ SourceKnown =>
          /\ secret # "Random"
          /\ engine # "Absent" \/ sync.pc = "apply" => secret = "Source"

(* A restore that has met an Apply has begun, and while it runs no reconcile  *)
(* is on its way to another one.                                              *)
Applying == {"target", "origin", "source", "copy", "apply"}

Stray(r) ==
    /\ strays[r] \in {0, 1}
    /\ strays[r] = 1 => /\ Exists(op[r]) /\ op[r].state # "New"
                        /\ r \in RestoreRuns => sync.pc \notin Applying

Strays == \A r \in Names : Stray(r)

InstanceInv == RestoreInv /\ InstanceTypes /\ queued \in BOOLEAN /\ Engaged

LEMMA TypesOfInv ==
  ASSUME RestoreInv, InstanceTypes, queued \in BOOLEAN
  PROVE  TypeOK
  BY DEF RestoreInv, TypeInv, InstanceTypes, TypeOK

(* A Restore is created for the data source in one place only.                *)
LEMMA SeedUid ==
  ASSUME RestoreTypeOK, [Next]_vars
  PROVE  ~Seeding \/ uids'[Seed].cr = uids[Seed].cr \/ (ReconcileDataSource /\ SourceKnown)
<1>0. uids \in [Names -> [cr : UID, ob : UID]] /\ Seed \in Names
  BY TargetAssumption DEF RestoreTypeOK
<1>1. CASE RestoreStep
  <2>1. ASSUME NEW r \in Names, SyncCreate(r) PROVE uids'[Seed].cr = uids[Seed].cr
    <3>1. uids'[r].cr = uids[r].cr
      BY <2>1, SyncCreateEffect
    <3>2. r # Seed => uids'[Seed] = uids[Seed]
      BY <1>0, <2>1 DEF SyncCreate
    <3>3. QED
      BY <3>1, <3>2
  <2>2. ASSUME NEW r \in Names, Handler(r) PROVE UNCHANGED uids \/ SyncCreate(r)
    BY <2>2 DEF Handler, SyncRestore, SyncResolve, SyncGetBase, SyncGet, SyncPatch, SyncReport,
       CleanupRestore, CleanupGet, CleanupDelete, CleanupDone
  <2>3. QED
    BY <1>1, <2>1, <2>2 DEF RestoreStep, SourceAppears, SourceOpStep, SourceReport, SourceOpGoes, SourceGoes,
       DeleteRestore, OperatorFails, OperatorReleases, CollectOp, CacheCatchesUp
<1>2. ASSUME NEW r \in Names, NEW b \in Sources, UserRestores(r, b), Seeding
      PROVE  uids'[Seed].cr = uids[Seed].cr
  BY <1>0, <1>2 DEF UserRestores, CreateRestore
<1>3. CASE ReconcileDataSource
  BY <1>3 DEF ReconcileDataSource, SeedsOrWaits, restoreVars
<1>4. ASSUME NEW rs, Interrupt(rs) PROVE UNCHANGED uids
  BY <1>4 DEF Interrupt
<1>5. CASE \/ SyncPXC \/ ensureDataSourceCredentials \/ dataSourceInstanceName \/ GetSourceSecret
           \/ copyCredentials \/ SyncApply \/ SyncGateWaits \/ SyncGateMisses
           \/ StatusPXC \/ StatusList \/ buildConnectionDetails \/ WriteStatus \/ OtherEvent
           \/ Engine \/ EngineFlaps \/ SourceSecretGoes \/ SyncFails
  BY <1>5 DEF SyncPXC, ensureDataSourceCredentials, dataSourceInstanceName,
     GetSourceSecret, copyCredentials, SyncApply,
     SyncGateWaits, SyncGateMisses, StatusPXC, StatusList, buildConnectionDetails, WriteStatus, Engine, OperatorMakesSecret, EngineInitializes,
     EngineGetsReady, EngineFlaps, SourceSecretGoes, OtherEvent, SyncFails, restoreVars
<1>6. ASSUME NEW r \in Names, OperatorRestores(r) PROVE UNCHANGED uids
  BY <1>6 DEF OperatorRestores, OperatorAdvances
<1>7. CASE UNCHANGED vars
  BY <1>7 DEF vars
<1>8. QED
  BY <1>1, <1>2, <1>3, <1>4, <1>5, <1>6, <1>7 DEF Next, Reconcile, ProviderRestarts

(* Every operator restore was created for a Restore.                          *)
LEMMA OpHasRestore ==
  ASSUME RestoreInv, NEW r \in Names, Exists(op[r])
  PROVE  uids[r].cr # 0
<1>1. op[r].controller \in 1..uids[r].cr /\ uids[r].cr \in Nat
  BY TypedName DEF RestoreInv, TypeInv, Bound, Lineage
<1>2. QED
  BY <1>1

(* Only the operator begins a restore.                                        *)
LEMMA Begins ==
  ASSUME RestoreInv, InstanceTypes, [Next]_vars, NEW r \in UnderWay'
  PROVE  r \in UnderWay \/ OperatorRestores(r)
<1>0. /\ r \in Names /\ Exists(op'[r]) /\ op'[r].state \in RunningPhases
      /\ TypeInv /\ RestoreTypeOK /\ Bound(r)
  BY DEF UnderWay, RestoreInv, TypeInv, Exists
<1>1. CASE op'[r] = op[r]
  BY <1>0, <1>1 DEF UnderWay
<1>2. ASSUME NEW n \in Names, n # r, Own(n) PROVE op'[r] = op[r]
  BY <1>0, <1>2, OwnFrame DEF Still
<1>3. ASSUME op'[r].uid = op[r].uid, op'[r].state = op[r].state PROVE r \in UnderWay
  BY <1>0, <1>3 DEF UnderWay, Exists
<1>4. CASE SyncCreate(r)
  <2>1. op'[r].state # "New"
    BY <1>0 DEF RunningPhases
  <2>2. UNCHANGED op
    BY <1>0, <1>4, <2>1, SyncCreateEffect
  <2>3. QED
    BY <1>1, <2>2
<1>5. CASE SyncPatch(r)
  <2>1. work[r].ob.controller # 0
    BY <1>0, <1>5 DEF SyncPatch, Bound, Lineage
  <2>2. QED
    BY <1>0, <1>1, <1>5, <2>1, SyncPatchEffect
<1>6. CASE CleanupDelete(r) \/ CollectOp(r)
  BY <1>0, <1>3, <1>6, DeletionEffect
<1>7. CASE OperatorFails(r)
  <2>1. op'[r] = [op[r] EXCEPT !.state = "Failed"] /\ op[r] \in OpRestore
    BY <1>0, <1>7 DEF OperatorFails, RestoreTypeOK
  <2>2. op'[r].state = "Failed"
    BY <2>1 DEF OpRestore
  <2>3. QED
    BY <1>0, <2>2 DEF RunningPhases
<1>8. CASE OperatorReleases(r)
  <2>1. op'[r] = NoOp
    BY <1>0, <1>8 DEF OperatorReleases, RestoreTypeOK
  <2>2. QED
    BY <1>0, <2>1, AbsentFields DEF Exists
<1>9. ASSUME RestoreStep, op' # op
      PROVE  \E n \in Names :
                /\ Own(n)
                /\ \/ SyncCreate(n) \/ SyncPatch(n) \/ CleanupDelete(n) \/ CollectOp(n)
                   \/ OperatorFails(n) \/ OperatorReleases(n)
  <2>1. \E n \in Names :
           \/ SyncCreate(n) \/ SyncPatch(n) \/ CleanupDelete(n) \/ CollectOp(n)
           \/ OperatorFails(n) \/ OperatorReleases(n)
    BY <1>9 DEF RestoreStep, SourceAppears, SourceOpStep, SourceReport, SourceOpGoes, SourceGoes,
       DeleteRestore, CacheCatchesUp, Handler, SyncRestore, SyncResolve, SyncGetBase, SyncGet, SyncReport,
       CleanupRestore, CleanupGet, CleanupDone
  <2>2. QED
    BY <2>1 DEF Own, Handler
<1>10. CASE RestoreStep
  BY <1>1, <1>2, <1>4, <1>5, <1>6, <1>7, <1>8, <1>9, <1>10
<1>11. ASSUME NEW n \in Names, OperatorRestores(n) PROVE r \in UnderWay \/ OperatorRestores(r)
  <2>1. Own(n)
    BY <1>11 DEF OperatorRestores, Own
  <2>2. QED
    BY <1>1, <1>2, <1>11, <2>1
<1>12. CASE ReconcileDataSource
  BY <1>1, <1>12 DEF ReconcileDataSource, SeedsOrWaits, CreateRestore, restoreVars
<1>13. CASE \/ SyncPXC \/ ensureDataSourceCredentials \/ dataSourceInstanceName \/ GetSourceSecret
           \/ copyCredentials \/ SyncApply \/ SyncGateWaits \/ SyncGateMisses
           \/ StatusPXC \/ StatusList \/ buildConnectionDetails \/ WriteStatus \/ OtherEvent
           \/ Engine \/ EngineFlaps \/ SourceSecretGoes \/ SyncFails
  <2>1. UNCHANGED op
    BY <1>13 DEF SyncPXC, ensureDataSourceCredentials, dataSourceInstanceName,
     GetSourceSecret, copyCredentials, SyncApply,
       SyncGateWaits, SyncGateMisses, StatusPXC, StatusList, buildConnectionDetails, WriteStatus, Engine, OperatorMakesSecret, EngineInitializes,
       EngineGetsReady, EngineFlaps, SourceSecretGoes, OtherEvent, SyncFails, restoreVars
  <2>2. QED
    BY <1>1, <2>1
<1>14. ASSUME NEW n, NEW b, UserRestores(n, b) PROVE UNCHANGED op
  BY <1>14 DEF UserRestores, CreateRestore
<1>15. ASSUME NEW rs, Interrupt(rs) PROVE UNCHANGED op
  BY <1>15 DEF Interrupt
<1>16. UNCHANGED vars => UNCHANGED op
  BY DEF vars
<1>17. QED
  BY <1>1, <1>10, <1>11, <1>12, <1>13, <1>14, <1>15, <1>16 DEF Next, Reconcile, ProviderRestarts

(* The operator restores a cluster that is there, and only the seeding        *)
(* restore changes whose credentials its data directory knows.                *)
LEMMA OperatorRestoresEffect ==
  ASSUME RestoreInv, Engaged, NEW r \in Names, OperatorRestores(r)
  PROVE  /\ UNCHANGED <<secret, sync, strays>>
         /\ engine' = engine \/ (engine # "Absent" /\ engine' \in {"Paused", "Initializing"})
         /\ datadir' = datadir \/ (datadir' = "Source" /\ Seeding /\ uids[Seed].cr # 0)
         /\ UnderWay' # {} => datadir' # "None"
<1>0. RestoreTypeOK /\ OperatorAdvances(r) /\ Seed \in Names
  BY TargetAssumption DEF RestoreInv, TypeInv, OperatorRestores
<1>1. /\ Exists(op[r]) /\ op[r].state \notin Terminal /\ op[r].state \in OpState
      /\ op[r].state = "New" => op'[r].state \in {"Starting", "Failed"}
  BY <1>0, RunsEffect, TypedName
<1>2. op[r].state = "New" \/ r \in UnderWay
  BY <1>1 DEF OpState, Terminal, UnderWay
<1>3. /\ op[r].state = "New" => datadir # "None"
      /\ engine' \in {engine, "Paused", "Initializing"}
      /\ datadir' = datadir \/ (datadir' = "Source" /\ r = Seed /\ Seeding)
      /\ UNCHANGED <<secret, sync, strays>>
  BY DEF OperatorRestores, syncVars
<1>4. datadir # "None" /\ engine # "Absent"
  BY <1>2, <1>3 DEF Engaged
<1>5. datadir' = datadir \/ (datadir' = "Source" /\ Seeding /\ uids[Seed].cr # 0)
  BY <1>0, <1>1, <1>3, OpHasRestore
<1>6. QED
  BY <1>3, <1>4, <1>5

(* A data directory stays.                                                    *)
LEMMA EngagedStep ==
  ASSUME RestoreInv, InstanceTypes, Engaged, [Next]_vars
  PROVE  Engaged'
<1>0. RestoreTypeOK
  BY DEF RestoreInv, TypeInv
<1>1. CASE \E r \in Names : OperatorRestores(r)
  <2>1. UNCHANGED uids
    BY <1>1 DEF OperatorRestores, OperatorAdvances
  <2>2. QED
    BY <1>1, <2>1, OperatorRestoresEffect, DataSourceStays DEF Engaged, Seeding
<1>2. ASSUME ~\E r \in Names : OperatorRestores(r),
             datadir # "None" => datadir' # "None",
             engine' = "Ready" => engine = "Ready" \/ datadir # "None",
             engine' = "Absent" => engine = "Absent",
             datadir' # datadir => engine # "Absent"
      PROVE  Engaged'
  <2>1. UnderWay' \subseteq UnderWay
    <3> SUFFICES ASSUME NEW r \in UnderWay' PROVE r \in UnderWay
      OBVIOUS
    <3>1. r \in Names
      BY DEF UnderWay
    <3>2. QED
      BY <1>2, <3>1, Begins
  <2>2. ReconcileDataSource => engine = "Ready"
    BY DEF ReconcileDataSource, SeedsOrWaits
  <2>3. QED
    BY <1>0, <1>2, <2>1, <2>2, SeedUid, DataSourceStays DEF Engaged, Seeding
<1>3. \/ \E r \in Names : OperatorRestores(r)
      \/ /\ datadir # "None" => datadir' # "None"
         /\ engine' = "Ready" => engine = "Ready" \/ datadir # "None"
         /\ engine' = "Absent" => engine = "Absent"
         /\ datadir' # datadir => engine # "Absent"
  BY InstanceFrame DEF InstanceStep, Engine, OperatorMakesSecret,
     EngineInitializes, EngineGetsReady, EngineFlaps, SourceSecretGoes, Reconcile, SyncPXC,
     ensureDataSourceCredentials, dataSourceInstanceName,
     GetSourceSecret, copyCredentials, SyncApply, SyncGateWaits, SyncGateMisses,
     ReconcileDataSource, SeedsOrWaits, StatusPXC, StatusList, buildConnectionDetails, WriteStatus, ProviderRestarts, SyncFails, instanceVars, clusterVars, syncVars
<1>4. QED
  BY <1>1, <1>2, <1>3

LEMMA InstanceInvInit == Init => InstanceInv
<1> SUFFICES ASSUME Init PROVE InstanceInv
  OBVIOUS
<1>1. RestoreInv
  BY RestoreInvInit DEF Init
<1>2. InstanceTypes
  <2>1. sync \in Syncs
    BY SyncTyped DEF Init
  <2>2. dataSource \in DataSource \cup {NoSeed}
    BY DEF Init
  <2>3. flaps \in 0..MaxFlaps
    BY FlapsAssumption DEF Init
  <2>4. QED
    BY <2>1, <2>2, <2>3 DEF Init, InstanceTypes, Engines, Reported
<1>3. Engaged
  <2>1. uids[Seed].cr = 0
    BY TargetAssumption DEF Init, RestoreInit
  <2>2. UnderWay = {}
    BY AbsentFields DEF Init, RestoreInit, UnderWay, Exists
  <2>3. QED
    BY <2>1, <2>2 DEF Init, Engaged
<1>4. QED
  BY <1>1, <1>2, <1>3 DEF InstanceInv, Init

LEMMA InstanceInvStep ==
  ASSUME InstanceInv, [Next]_vars
  PROVE  InstanceInv' /\ RestoreMoves
<1>0. /\ RestoreInv /\ InstanceTypes /\ Engaged /\ RestoreTypeOK /\ TypeOK
      /\ queued \in BOOLEAN
  BY TypesOfInv DEF InstanceInv, RestoreInv, TypeInv
<1>1. RestoreMoves
  BY <1>0, InstanceMoves
<1>2. RestoreInv'
  BY <1>0, <1>1, RestoreInvStep
<1>3. InstanceTypes'
  BY <1>0, InstanceTypesStep
<1>4. Engaged'
  BY <1>0, EngagedStep
<1>5. queued' \in BOOLEAN
  BY <1>0, QueuedTyped
<1>6. QED
  BY <1>1, <1>2, <1>3, <1>4, <1>5 DEF InstanceInv

LEMMA InstanceInvariant == Spec => []InstanceInv
<1>1. InstanceInv /\ [Next]_vars => InstanceInv'
  BY InstanceInvStep
<1>2. QED
  BY <1>1, InstanceInvInit, PTL DEF Spec

(* What every variable of the reconciler holds is of its type, beside any     *)
(* number of Restores and whatever is retried.                                *)
THEOREM InstanceTypeCorrect == Spec => []TypeOK
<1>1. InstanceInv => TypeOK
  BY TypesOfInv DEF InstanceInv
<1>2. QED
  BY <1>1, InstanceInvariant, PTL

(* The seeding restore is never handed to the operator before the cluster has *)
(* a data directory (the gate at provider.go:353-366), also when reads are    *)
(* stale, readiness is lost, Restores are deleted and sources come and go.    *)
THEOREM SeedNotPremature == Spec => []SeedIsNotPremature
<1>1. InstanceInv => SeedIsNotPremature
  BY OpHasRestore, TargetAssumption DEF InstanceInv, Engaged, SeedIsNotPremature
<1>2. QED
  BY <1>1, InstanceInvariant, PTL

-----------------------------------------------------------------------------
(* The credentials of a seeded cluster.                                       *)

(* Where no Backup is created late, a source that is not known stays unknown. *)
LEMMA UnknownStays ==
  ASSUME ~SourcesMayCome, InstanceInv, [Next]_vars, SourceKnown'
  PROVE  SourceKnown
<1>0. /\ TypeInv /\ RestoreTypeOK /\ dataSource \in DataSource \cup {NoSeed}
      /\ dataSource' = dataSource /\ RestoreMoves
  BY DataSourceStays, InstanceInvStep DEF InstanceInv, RestoreInv, TypeInv, InstanceTypes
<1>1. \A b \in Sources : source[b].state = "Absent" => source'[b].state = "Absent"
  <2>1. ASSUME NEW b \in Sources,
               SourceAppears(b) \/ SourceOpStep(b) \/ SourceReport(b) \/ SourceOpGoes(b) \/ SourceGoes(b)
        PROVE  \A c \in Sources : source[c].state = "Absent" => source'[c].state = "Absent"
    <3>1. CASE SourceOpStep(b) \/ SourceOpGoes(b)
      BY <3>1 DEF SourceOpStep, SourceOpGoes
    <3>2. CASE SourceReport(b)
      <4>1. source[b].state = "Pending" /\ \A c \in Sources : c # b => source'[c] = source[c]
        BY <1>0, <3>2 DEF SourceReport, RestoreTypeOK
      <4>2. QED
        BY <4>1
    <3>3. CASE SourceGoes(b)
      <4>1. /\ source' = [source EXCEPT ![b] = [source[b] EXCEPT !.state = "Absent"]]
        BY <1>0, <3>3 DEF SourceGoes, RestoreTypeOK
      <4>2. /\ source'[b].state = "Absent"
            /\ \A c \in Sources : c # b => source'[c] = source[c]
        BY <1>0, <4>1 DEF RestoreTypeOK
      <4>3. QED
        BY <4>2
    <3>4. QED
      BY <2>1, <3>1, <3>2, <3>3 DEF SourceAppears
  <2>2. ASSUME NEW r \in Names, Own(r) PROVE source' = source
    BY <1>0, <2>2, OwnFrame
  <2>3. ASSUME NEW rs, Interrupt(rs) PROVE source' = source
    BY <2>3 DEF Interrupt, sourceVars
  <2>4. CASE UNCHANGED <<sourceVars, restore, op, seen, uids, work, applied>>
    BY <2>4 DEF sourceVars
  <2>5. QED
    BY <1>0, <2>1, <2>2, <2>3, <2>4 DEF RestoreMoves, RestoreNext, RestoreStep, Own
<1>2. dataSource.type = "Backup" => dataSource.backup \in Sources
  BY <1>0, SeedSources
<1>3. QED
  BY <1>0, <1>1, <1>2 DEF SourceKnown

(* The part of a reconcile behind the Apply, and what ends one.               *)
Later ==
    \/ SyncGateWaits \/ SyncGateMisses \/ ReconcileDataSource
    \/ StatusPXC \/ StatusList \/ buildConnectionDetails \/ WriteStatus
    \/ ProviderRestarts \/ SyncFails

LEMMA LaterEffect ==
  ASSUME sync \in Syncs, engine \in Engines, Later
  PROVE  sync'.pc \notin Applying /\ UNCHANGED <<clusterVars, strays>>
<1>1. UNCHANGED <<clusterVars, strays>>
  BY DEF Later, SyncGateWaits, SyncGateMisses, ReconcileDataSource, SeedsOrWaits, StatusPXC,
     StatusList, buildConnectionDetails, WriteStatus, ProviderRestarts, SyncFails
<1>2. CASE SyncGateWaits \/ ReconcileDataSource
  <2>1. "Done" \in DSStatus /\ "NotDone" \in DSStatus
    BY DEF DSStatus
  <2>2. \E ds \in DSStatus : sync' = [sync EXCEPT !.pc = "status", !.ds = ds]
    BY <1>2, <2>1 DEF SyncGateWaits, ReconcileDataSource, SeedsOrWaits
  <2>3. QED
    BY <1>1, <2>2, GateTyped DEF Applying
<1>3. CASE SyncGateMisses
  BY <1>1, <1>3, GotoTyped DEF SyncGateMisses, PCs, Applying
<1>4. CASE StatusPXC
  BY <1>1, <1>4, StatusTyped DEF Applying
<1>5. CASE StatusList
  BY <1>1, <1>5, AnswerTyped, GotoTyped DEF StatusList, Reported, PCs, Applying
<1>6. CASE buildConnectionDetails
  BY <1>1, <1>6, AnswerTyped DEF buildConnectionDetails, Reported, Applying
<1>7. CASE WriteStatus \/ ProviderRestarts \/ SyncFails
  BY <1>1, <1>7, SyncTyped DEF WriteStatus, ProviderRestarts, SyncFails, Applying
<1>8. QED
  BY <1>2, <1>3, <1>4, <1>5, <1>6, <1>7 DEF Later

LEMMA CredentialsInit == Init => Credentials
<1> SUFFICES ASSUME Init PROVE Credentials
  OBVIOUS
<1>1. uids[Seed].cr = 0
  BY TargetAssumption DEF Init, RestoreInit
<1>2. secret = "None" /\ datadir = "None" /\ engine = "Absent" /\ sync.pc = "idle"
  BY DEF Init, NoSync
<1>3. QED
  BY <1>1, <1>2 DEF Credentials

LEMMA CredentialsStep ==
  ASSUME ~SourcesMayCome, InstanceInv, Credentials, [Next]_vars
  PROVE  Credentials'
<1>0. /\ RestoreInv /\ InstanceTypes /\ Engaged /\ RestoreTypeOK /\ sync \in Syncs
      /\ SourceKnown' => SourceKnown
      /\ Seeding' = Seeding
  BY UnknownStays, DataSourceStays DEF InstanceInv, RestoreInv, TypeInv, InstanceTypes, Seeding
<1>1. ReconcileDataSource /\ SourceKnown => secret = "Source"
  BY DEF ReconcileDataSource, SeedsOrWaits, Credentials
<1>2. Seeding' /\ uids'[Seed].cr # 0 => secret = "Source"
  BY <1>0, <1>1, SeedUid DEF Credentials
<1>3. /\ secret \in {"None", "Random", "Source"}
      /\ SourceKnown => Seeding
  BY <1>0 DEF InstanceTypes, SourceKnown, Seeding, NoSeed, NoDataSource
<1>4. ASSUME UNCHANGED <<engine, secret, datadir>>, sync'.pc = "apply" /\ SourceKnown =>
                sync.pc = "apply" \/ secret = "Source"
      PROVE  Credentials'
  BY <1>0, <1>2, <1>4 DEF Credentials
<1>5. CASE \E r \in Names : OperatorRestores(r)
  BY <1>0, <1>2, <1>5, OperatorRestoresEffect DEF Credentials
<1>6. CASE Engine \/ EngineFlaps \/ SourceSecretGoes
  BY <1>0, <1>2, <1>3, <1>6 DEF Credentials, Engine, OperatorMakesSecret, EngineInitializes,
     EngineGetsReady, EngineFlaps, SourceSecretGoes, syncVars
<1>7. CASE SyncPXC
  <2>1. Seeding => sync'.pc \in {"status", "target"}
    BY <1>0, <1>7, GotoTyped DEF SyncPXC, PCs
  <2>2. QED
    BY <1>3, <1>4, <1>7, <2>1 DEF SyncPXC, clusterVars
<1>8. CASE ensureDataSourceCredentials
  <2>1. sync'.pc = "apply" => secret # "None"
    BY <1>0, <1>8, GotoTyped DEF ensureDataSourceCredentials, PCs
  <2>2. QED
    BY <1>3, <1>4, <1>8, <2>1 DEF ensureDataSourceCredentials, clusterVars, Credentials
<1>9. CASE dataSourceInstanceName
  <2>1. sync'.pc = "apply" => ~SourceKnown
    BY <1>0, <1>9, GotoTyped DEF dataSourceInstanceName, PCs
  <2>2. QED
    BY <1>4, <1>9, <2>1 DEF dataSourceInstanceName, clusterVars
<1>10. CASE GetSourceSecret
  <2>1. sync'.pc # "apply"
    BY <1>0, <1>10, GotoTyped, SyncTyped DEF GetSourceSecret, PCs
  <2>2. QED
    BY <1>4, <1>10, <2>1 DEF GetSourceSecret, clusterVars
<1>11. CASE copyCredentials
  <2>1. sync'.pc = "apply"
    BY <1>0, <1>11, GotoTyped DEF copyCredentials, PCs
  <2>2. QED
    BY <1>0, <1>2, <1>3, <1>11, <2>1 DEF Credentials, copyCredentials
<1>12. CASE SyncApply
  <2>1. sync'.pc # "apply"
    BY <1>0, <1>12, GotoTyped DEF SyncApply, PCs
  <2>2. QED
    BY <1>0, <1>2, <1>3, <1>12, <2>1 DEF Credentials, SyncApply
<1>13. CASE Later
  <2>1. sync'.pc \notin Applying /\ UNCHANGED clusterVars
    BY <1>0, <1>13, LaterEffect DEF InstanceTypes
  <2>2. QED
    BY <1>4, <2>1 DEF Applying, clusterVars
<1>14. CASE UNCHANGED instanceVars
  BY <1>4, <1>14 DEF instanceVars, clusterVars, syncVars
<1>15. QED
  BY <1>5, <1>6, <1>7, <1>8, <1>9, <1>10, <1>11, <1>12, <1>13, <1>14, InstanceFrame
     DEF InstanceStep, Reconcile, Later

(* "Copy BEFORE applying the PXC CR so the operator never initializes the     *)
(* secret with random passwords" (provider.go:334): where the source Backup   *)
(* is there before the Instance, a data directory rewritten by the seeding    *)
(* restore always meets the credentials of the source; also when reads are    *)
(* stale, the source secret or the Backup vanishes, requests fail, Restores   *)
(* are deleted. Without the hypothesis the run InstanceLateSource refutes it. *)
THEOREM SeededAuthenticates ==
  ASSUME ~SourcesMayCome
  PROVE  Spec => []SeededClusterAuthenticates
<1>1. InstanceInv /\ Credentials /\ [Next]_vars => Credentials'
  BY CredentialsStep
<1>2. Credentials => SeededClusterAuthenticates
  BY DEF Credentials, SeededClusterAuthenticates
<1>3. QED
  BY <1>1, <1>2, CredentialsInit, InstanceInvariant, PTL DEF Spec

-----------------------------------------------------------------------------
(* The reconciler and the restores that run beside it.                        *)

(* Where nobody deletes Restores, an operator restore that has begun stays    *)
(* until it has ended, on its cluster, and does not begin again.              *)
LEMMA BegunStays ==
  ASSUME ~StaleReads, ~SourcesMayGo, RestoreInv, Agreement, NoneDeleted,
         RestoreMoves, NEW r \in Names, Exists(op[r]), op[r].state # "New"
  PROVE  /\ Exists(op'[r]) /\ op'[r].state # "New"
         /\ op'[r].pxcCluster = op[r].pxcCluster
         /\ op'[r].state \in RunningPhases => op[r].state \in RunningPhases
<1>0. /\ TypeInv /\ RestoreTypeOK /\ Bound(r) /\ ~restore[r].deleting
      /\ op[r].state \in OpState
  BY TypedName DEF RestoreInv, TypeInv, NoneDeleted
<1>1. RanOf(r) \in {"Running", "Succeeded", "Failed"} /\ JobOf(r) # "Closing"
  BY <1>0 DEF RanOf, JobOf, OpState, Terminal
<1>2. \/ RanOf(r)' = RanOf(r)
      \/ RanOf(r) = "Running" /\ RanOf(r)' \in Terminal
  <2>1. \/ JobOf(r)' = JobOf(r) /\ RanOf(r)' = RanOf(r)
        \/ Turn(JobOf(r), RanOf(r), JobOf(r)', RanOf(r)')
    BY AgreementStep
  <2>2. QED
    BY <1>1, <2>1 DEF Turn
<1>3. /\ RanOf(r)' = IF ~Exists(op'[r]) THEN "No"
                     ELSE IF op'[r].state = "New" THEN "Queued"
                     ELSE IF op'[r].state \in RunningPhases THEN "Running" ELSE op'[r].state
      /\ op[r].state \notin RunningPhases => RanOf(r) # "Running"
  BY <1>0 DEF RanOf, Exists, OpState, RunningPhases
<1>4. /\ Exists(op'[r]) /\ op'[r].state # "New"
      /\ op'[r].state \in RunningPhases => op[r].state \in RunningPhases
  BY <1>1, <1>2, <1>3 DEF Terminal
<1>5. ASSUME Own(r) PROVE op'[r].pxcCluster = op[r].pxcCluster
  <2>1. CASE SyncCreate(r)
    BY <1>0, <2>1, SyncCreateEffect
  <2>2. CASE SyncPatch(r)
    <3>1. work[r].ob.controller # 0
      BY <1>0, <2>2 DEF SyncPatch, Bound, Lineage
    <3>2. QED
      BY <1>0, <2>2, <3>1, SyncPatchEffect
  <2>3. CASE CleanupDelete(r) \/ CollectOp(r)
    BY <1>0, <2>3, DeletionEffect
  <2>4. CASE OperatorAdvances(r) \/ OperatorFails(r)
    BY <1>0, <2>4, RunsEffect
  <2>5. CASE OperatorReleases(r) \/ CacheCatchesUp(r)
    BY <1>0, <1>4, <2>5, ReleaseEffect, AbsentFields DEF Exists
  <2>6. \/ op' = op \/ SyncCreate(r) \/ SyncPatch(r) \/ CleanupDelete(r) \/ CollectOp(r)
        \/ OperatorAdvances(r) \/ OperatorFails(r) \/ OperatorReleases(r) \/ CacheCatchesUp(r)
    BY <1>5 DEF Own, Handler, SyncRestore, SyncResolve, SyncGetBase, SyncGet, SyncReport, CleanupRestore,
       CleanupGet, CleanupDone, CreateRestore, DeleteRestore
  <2>7. QED
    BY <2>1, <2>2, <2>3, <2>4, <2>5, <2>6
<1>6. ASSUME NEW n \in Names, n # r, Own(n) PROVE op'[r] = op[r]
  BY <1>0, <1>6, OwnFrame DEF Still
<1>7. op'[r].pxcCluster = op[r].pxcCluster
  BY <1>0, <1>5, <1>6, MoveCases
<1>8. QED
  BY <1>4, <1>7

(* While a restore runs on the cluster, SyncPXC finds an active Restore.      *)
LEMMA RunsAreSeen ==
  ASSUME RunningRestoreIsActive, ~hasActiveRestoreForInstance(Target)
  PROVE  RestoreRuns = {}
  BY DEF RunningRestoreIsActive, RestoreRuns

LEMMA StraysInit == Init => Strays
<1> SUFFICES ASSUME Init, NEW r \in Names PROVE Stray(r)
  BY DEF Strays
<1>1. strays[r] = 0
  BY DEF Init
<1>2. QED
  BY <1>1 DEF Stray

LEMMA StraysStep ==
  ASSUME ~StaleReads, ~SourcesMayGo, InstanceInv, Agreement, NoneDeleted,
         Strays, [Next]_vars
  PROVE  Strays'
<1>0. /\ RestoreInv /\ RestoreMoves /\ RunningRestoreIsActive
      /\ sync \in Syncs /\ engine \in Engines
  BY InstanceInvStep, UnderWayIsActive DEF InstanceInv, InstanceTypes
<1>1. ASSUME strays' = strays, sync'.pc \in Applying => sync.pc \in Applying \/ RestoreRuns = {}
      PROVE  Strays'
  <2> SUFFICES ASSUME NEW r \in Names PROVE Stray(r)'
    BY DEF Strays
  <2>1. Stray(r) /\ strays'[r] = strays[r]
    BY <1>1 DEF Strays
  <2>2. CASE strays[r] # 1
    BY <2>1, <2>2 DEF Stray
  <2>3. CASE strays[r] = 1
    <3>1. /\ Exists(op[r]) /\ op[r].state # "New"
          /\ r \in RestoreRuns => sync.pc \notin Applying
      BY <2>1, <2>3 DEF Stray
    <3>2. /\ Exists(op'[r]) /\ op'[r].state # "New"
          /\ op'[r].pxcCluster = op[r].pxcCluster
          /\ op'[r].state \in RunningPhases => op[r].state \in RunningPhases
      BY <1>0, <3>1, BegunStays
    <3>3. r \in RestoreRuns' => r \in RestoreRuns
      BY <3>1, <3>2 DEF RestoreRuns
    <3>4. r \in RestoreRuns' => sync'.pc \notin Applying
      BY <1>1, <3>1, <3>3
    <3>5. Exists(op[r])'
      BY <3>2 DEF Exists
    <3>6. QED
      BY <2>1, <2>3, <3>2, <3>4, <3>5 DEF Stray
  <2>4. QED
    BY <2>2, <2>3
<1>2. CASE SyncApply
  <2> SUFFICES ASSUME NEW r \in Names PROVE Stray(r)'
    BY DEF Strays
  <2>1. /\ sync.pc = "apply" /\ sync'.pc \in {"gate", "status"}
        /\ strays'[r] = IF r \in RestoreRuns THEN strays[r] + 1 ELSE strays[r]
        /\ UNCHANGED op
    BY <1>0, <1>2, GotoTyped DEF SyncApply, PCs, restoreVars
  <2>2. Stray(r)
    BY DEF Strays
  <2>3. CASE r \in RestoreRuns
    <3>1. strays[r] = 0
      BY <2>1, <2>2, <2>3 DEF Stray, Applying
    <3>2. strays'[r] = 1
      BY <2>1, <2>3, <3>1
    <3>3. Exists(op[r]) /\ op[r].state # "New"
      BY <2>3 DEF RestoreRuns, RunningPhases
    <3>4. QED
      BY <2>1, <3>2, <3>3 DEF Stray, Exists, Applying
  <2>4. CASE r \notin RestoreRuns
    <3>1. r \notin RestoreRuns' /\ strays'[r] = strays[r]
      BY <2>1, <2>4 DEF RestoreRuns, Exists
    <3>2. QED
      BY <2>1, <2>2, <3>1 DEF Stray, Exists
  <2>5. QED
    BY <2>3, <2>4
<1>3. CASE SyncPXC
  <2>1. strays' = strays
    BY <1>3 DEF SyncPXC
  <2>2. sync'.pc \in Applying => ~hasActiveRestoreForInstance(Target)
    BY <1>0, <1>3, GotoTyped DEF SyncPXC, PCs, Applying
  <2>3. QED
    BY <1>0, <1>1, <2>1, <2>2, RunsAreSeen
<1>4. CASE \/ ensureDataSourceCredentials \/ dataSourceInstanceName \/ GetSourceSecret
           \/ copyCredentials
  <2>1. strays' = strays /\ sync.pc \in Applying
    BY <1>4 DEF ensureDataSourceCredentials, dataSourceInstanceName, GetSourceSecret,
       copyCredentials, Applying
  <2>2. QED
    BY <1>1, <2>1
<1>5. CASE Later
  BY <1>0, <1>1, <1>5, LaterEffect
<1>6. CASE \/ \E r \in Names : OperatorRestores(r)
           \/ Engine \/ EngineFlaps \/ SourceSecretGoes \/ UNCHANGED instanceVars
  <2>1. strays' = strays /\ sync' = sync
    BY <1>6 DEF OperatorRestores, Engine, OperatorMakesSecret, EngineInitializes,
       EngineGetsReady, EngineFlaps, SourceSecretGoes, instanceVars, syncVars
  <2>2. QED
    BY <1>1, <2>1
<1>7. QED
  BY <1>2, <1>3, <1>4, <1>5, <1>6, InstanceFrame DEF InstanceStep, Reconcile, Later

(* What RestoresProofs shows of Restores alone, beside the reconciler.        *)
LEMMA AgreementBeside ==
  ASSUME ~StaleReads, ~MayDelete, ~SourcesMayGo
  PROVE  Spec => [](InstanceInv /\ Agreement /\ NoneDeleted)
<1>1. Init => Agreement /\ NoneDeleted
  BY AgreementInit, AbsentFields DEF Init, RestoreInit, NoneDeleted
<1>2. InstanceInv /\ Agreement /\ NoneDeleted /\ [Next]_vars => Agreement' /\ NoneDeleted'
  <2> SUFFICES ASSUME InstanceInv, Agreement, NoneDeleted, [Next]_vars
               PROVE  Agreement' /\ NoneDeleted'
    OBVIOUS
  <2>1. RestoreInv /\ RestoreMoves
    BY InstanceInvStep DEF InstanceInv
  <2>2. QED
    BY <2>1, AgreementStep, NoneDeletedStep
<1>3. QED
  BY <1>1, <1>2, InstanceInvariant, PTL DEF Spec

(* SyncPXC looks for active Restores once, at its start (provider.go:154). A  *)
(* restore that begins later meets at most one Apply that was on its way, for *)
(* any number of Restores of the Instance, retries and losses of readiness,   *)
(* as long as reads do not lag and nobody deletes a Restore, or a Backup that *)
(* one restores from.                                                         *)
THEOREM OneStrayAtMost ==
  ASSUME ~StaleReads, ~MayDelete, ~SourcesMayGo
  PROVE  Spec => []OneStrayApplyAtMost
<1>1. InstanceInv /\ Agreement /\ NoneDeleted /\ Strays /\ [Next]_vars => Strays'
  BY StraysStep
<1>2. Strays => OneStrayApplyAtMost
  BY DEF Strays, Stray, OneStrayApplyAtMost
<1>3. QED
  BY <1>1, <1>2, StraysInit, AgreementBeside, PTL DEF Spec

(* While the operator rewrites the data of a cluster, the reconciler's check  *)
(* for active Restores says so (backup.go:583-601): RunningRestoresAreActive  *)
(* of RestoresProofs, with the reconciler and its seeding Restore at work.    *)
THEOREM RunningStaysActive ==
  ASSUME ~StaleReads, ~MayDelete, ~SourcesMayGo
  PROVE  Spec => []RunningRestoreIsActive
<1>1. InstanceInv /\ Agreement /\ NoneDeleted => RunningRestoreIsActive
  BY UnderWayIsActive DEF InstanceInv
<1>2. QED
  BY <1>1, AgreementBeside, PTL

-----------------------------------------------------------------------------
(* The phase that an Instance shows.                                          *)

(* Where a Restore is active and nothing is queued, the reconcile that is     *)
(* under way has begun since, and does not come to Ready; nor has the last    *)
(* one.                                                                       *)
Noticed ==
    hasActiveRestoreForInstance(Target) /\ ~queued =>
       /\ sync.pc \in {"idle", "status", "list", "write"}
       /\ sync.pc = "idle" => phase # "Ready"
       /\ sync.pc = "write" => sync.phase # "Ready"

(* A change of a Restore queues the Instance.                                 *)
LEMMA EventsQueue ==
  ASSUME RestoreEvents, hasActiveRestoreForInstance(Target)', ~queued'
  PROVE  hasActiveRestoreForInstance(Target) /\ ~queued
<1>1. PICK r \in Names : /\ Exists(restore'[r]) /\ restore'[r].instance = Target
                         /\ ~restore'[r].deleting /\ restore'[r].state \notin Terminal
  BY DEF hasActiveRestoreForInstance, Exists
<1>2. ~queued /\ restore'[r] = restore[r]
  BY <1>1 DEF RestoreEvents, enqueueRestoreInstance
<1>3. QED
  BY <1>1, <1>2 DEF hasActiveRestoreForInstance

LEMMA NoticedInit == Init => Noticed
<1> SUFFICES ASSUME Init PROVE Noticed
  OBVIOUS
<1>1. queued = TRUE
  BY DEF Init
<1>2. QED
  BY <1>1 DEF Noticed

LEMMA NoticedStep ==
  ASSUME InstanceInv, Noticed, [Next]_vars
  PROVE  Noticed'
<1> SUFFICES ASSUME hasActiveRestoreForInstance(Target)', ~queued'
             PROVE  /\ sync'.pc \in {"idle", "status", "list", "write"}
                    /\ sync'.pc = "idle" => phase' # "Ready"
                    /\ sync'.pc = "write" => sync'.phase # "Ready"
  BY DEF Noticed
<1>0. sync \in Syncs /\ engine \in Engines /\ queued \in BOOLEAN
  BY DEF InstanceInv, InstanceTypes
<1>1. restore' = restore => hasActiveRestoreForInstance(Target)
  BY DEF hasActiveRestoreForInstance
<1>2. CASE hasActiveRestoreForInstance(Target) /\ ~queued /\ UNCHANGED <<sync, phase>>
  BY <1>2 DEF Noticed
<1>3. CASE RestoreEvents /\ UNCHANGED instanceVars
  BY <1>2, <1>3, EventsQueue DEF instanceVars, syncVars
<1>4. CASE SyncPXC
  <2>1. hasActiveRestoreForInstance(Target)
    BY <1>1, <1>4 DEF SyncPXC, restoreVars
  <2>2. sync'.pc = "status"
    BY <1>0, <1>4, <2>1, GotoTyped DEF SyncPXC, PCs
  <2>3. QED
    BY <2>2
<1>5. CASE ReconcileDataSource
  <2>1. hasActiveRestoreForInstance(Target) /\ ~queued /\ sync.pc = "gate"
    BY <1>5, EventsQueue DEF ReconcileDataSource, SeedsOrWaits
  <2>2. QED
    BY <2>1 DEF Noticed
<1>6. CASE \/ ensureDataSourceCredentials \/ dataSourceInstanceName \/ GetSourceSecret
           \/ copyCredentials \/ SyncApply \/ SyncGateWaits \/ SyncGateMisses
           \/ buildConnectionDetails
  <2>1. /\ restore' = restore /\ ~queued
        /\ sync.pc \in {"target", "origin", "source", "copy", "apply", "gate", "details"}
    BY <1>0, <1>6 DEF ensureDataSourceCredentials, dataSourceInstanceName, GetSourceSecret,
       copyCredentials, SyncApply, SyncGateWaits, SyncGateMisses, buildConnectionDetails,
       restoreVars
  <2>2. QED
    BY <1>1, <2>1 DEF Noticed
<1>7. CASE StatusPXC
  BY <1>0, <1>7, StatusTyped
<1>8. CASE StatusList
  <2>1. Answer("Restoring")
    BY <1>1, <1>8 DEF StatusList, restoreVars
  <2>2. QED
    BY <2>1, AnswerTyped DEF Reported
<1>9. CASE WriteStatus
  <2>1. /\ hasActiveRestoreForInstance(Target) /\ ~queued /\ sync.pc = "write"
        /\ phase' = sync.phase /\ sync' = NoSync
    BY <1>1, <1>9 DEF WriteStatus, restoreVars
  <2>2. QED
    BY <2>1, SyncTyped DEF Noticed
<1>10. CASE ProviderRestarts \/ SyncFails \/ OtherEvent
  BY <1>10 DEF ProviderRestarts, SyncFails, OtherEvent
<1>11. CASE \/ \E r \in Names : OperatorRestores(r)
            \/ \E r \in Names : Interrupt({r}) /\ UNCHANGED <<queued, instanceVars>>
            \/ Engine \/ EngineFlaps \/ SourceSecretGoes \/ UNCHANGED vars
  <2>1. restore' = restore /\ UNCHANGED <<queued, sync, phase>>
    BY <1>11 DEF OperatorRestores, OperatorAdvances, Interrupt, Engine, OperatorMakesSecret,
       EngineInitializes, EngineGetsReady, EngineFlaps, SourceSecretGoes, vars, restoreVars,
       instanceVars, syncVars
  <2>2. QED
    BY <1>1, <1>2, <2>1
<1>12. QED
  BY <1>3, <1>4, <1>5, <1>6, <1>7, <1>8, <1>9, <1>10, <1>11 DEF Next, Reconcile

(* "let it own the phase for as long as it is running" (provider.go:500-504): *)
(* an Instance that shows Ready although a Restore of it is active is queued  *)
(* or being reconciled, for any number of Restores, whatever is deleted,      *)
(* retried, or read late by their handlers.                                   *)
THEOREM ReadyCorrected == Spec => []ReadyIsCorrected
<1>1. InstanceInv /\ Noticed /\ [Next]_vars => Noticed'
  BY NoticedStep
<1>2. Noticed => ReadyIsCorrected
  BY DEF Noticed, ReadyIsCorrected
<1>3. QED
  BY <1>1, <1>2, NoticedInit, InstanceInvariant, PTL DEF Spec
=============================================================================
