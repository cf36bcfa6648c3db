-------------------------- MODULE ClusterSpecProofs --------------------------
(* Theorems about ClusterSpec, for every finite set of storages, every set of *)
(* engine versions and every number of edits and outages.                     *)
EXTENDS ClusterSpec, FiniteSetTheorems, TLAPS

-----------------------------------------------------------------------------
(* What Validate lets through.                                                *)

(* The fields of an Instance.                                                 *)
LEMMA InstanceFields ==
  ASSUME NEW i \in Instance
  PROVE  /\ i.engine \in Engine /\ i.proxy \in Proxy /\ i.backup \in Backup
         /\ i.engine.replicas \in Replicas /\ i.proxy.replicas \in Replicas
         /\ i.engine.limit \in Memory /\ i.engine.request \in Memory
         /\ i.engine.version \in Versions \cup {Nil} /\ i.engine.image \in {Nil, "Custom"}
         /\ i.proxy.type \in ProxyType
         /\ i.backup.enabled \in BOOLEAN /\ i.backup.storages \in [Storages -> Entry]
  BY DEF Instance, Engine, Proxy, Backup

(* The checks of Validate, and of the rendering after it, part by part: the   *)
(* list of storages has at most one with PITR, and that one is well formed.   *)
LEMMA ValidParts ==
  ASSUME NEW i \in Instance, Validate(i)
  PROVE  /\ i.engine.present /\ i.proxy.present
         /\ i.proxy.type \in {"haproxy", "proxysql"}
         /\ OrDefault(i.engine.replicas, 3) \in {1, 3, 5}
         /\ OrDefault(i.proxy.replicas, 2) \in {1, 2, 3, 5}
         /\ i.backup.enabled =>
               /\ \A s \in PITRStorages(i.backup) :
                     decodeAndValidatePITRConfig(i.backup.storages[s].pitr)
               /\ ~(Cardinality(PITRStorages(i.backup)) > 1)
<1>1. i.engine.replicas \in Replicas /\ i.proxy.replicas \in Replicas
  BY InstanceFields
<1>2. \A r \in Replicas : AtLeastOne(r) =>
         OrDefault(r, 3) \in {1, 3, 5} /\ OrDefault(r, 2) \in {1, 2, 3, 5}
  BY NilAssumption DEF Replicas, AtLeastOne, OrDefault
<1>3. Cardinality(PITRStorages(i.backup)) \in Nat
  <2>1. PITRStorages(i.backup) \subseteq Storages
    BY DEF PITRStorages, Listed
  <2>2. QED
    BY <2>1, StoragesAssumption, FS_Subset, FS_CardinalityType
<1>4. QED
  BY <1>1, <1>2, <1>3 DEF Validate, validatePITR

(* However SyncPXC ends, it has a reason for it.                              *)
LEMMA ReasonsTyped ==
  ASSUME NEW i \in Instance, env \in Env, NEW r \in syncReasons(i)
  PROVE  r \in Reason
<1>1. env.rest \in Reason
  BY DEF Env, Reason
<1>2. ASSUME r \in backupReasons(i.backup) PROVE r \in Reason
  <2> DEFINE b == i.backup
             failing == {storageReason(s, b.storages[s]) : s \in Listed(b)} \ {"Ok"}
  <2>1. r \in failing => r \in Reason
    BY DEF storageReason, Reason
  <2>2. classReason \in Reason
    BY DEF classReason, Reason
  <2>3. \/ r \in failing \/ r = classReason
        \/ r \in {"Ok", "BackupImageUnavailable", "NoStoragesConfigured",
                  "PITRConfigurationInvalid"}
    BY <1>2 DEF backupReasons
  <2>4. QED
    BY <2>1, <2>2, <2>3 DEF Reason
<1>3. \/ r \in backupReasons(i.backup) \/ r = env.rest
      \/ r \in {"EngineMissing", "ProxyMissing", "UnsupportedProxyType"}
  BY DEF syncReasons
<1>4. QED
  BY <1>1, <1>2, <1>3 DEF Reason

-----------------------------------------------------------------------------
(* What is rendered can run.                                                  *)

(* The PMM client: for every memory and every request and limit of the entry. *)
LEMMA ClientFits ==
  ASSUME NEW mem \in Int, NEW request \in Nat \cup {Nil}, NEW limit \in Nat \cup {Nil}
  PROVE  LET r == pmmResources(mem, request, limit)
         IN  /\ r = PMMError <=> (request # Nil /\ limit # Nil /\ request > limit)
             /\ r # PMMError /\ limit # Nil => r <= limit
             /\ r # PMMError /\ request # Nil => r = request
<1>1. sizedRequest(mem) \in Nat
  BY DEF sizedRequest
<1>2. QED
  BY <1>1, NilAssumption DEF pmmResources, PMMError

(* The preset: its buffer pool fits the memory, at every boundary.            *)
LEMMA PresetSuits ==
  ASSUME NEW size, NEW mem \in Memory
  PROVE  LET p == defaultConfigurationForEngine(size, mem)
         IN  /\ p \in {"Tiny", "Small", "Medium", "Large"}
             /\ [Tiny |-> 0, Small |-> 2, Medium |-> 8, Large |-> 32][p] <= mem
  BY DEF defaultConfigurationForEngine, Memory

(* The backup section refers only to storages that it has.                    *)
LEMMA SettingsClosed ==
  ASSUME NEW b
  PROVE  /\ applyBackupSettings(b).pitr \in applyBackupSettings(b).storages \cup {NoStorage}
         /\ \A c \in applyBackupSettings(b).schedules :
               c.storage \in applyBackupSettings(b).storages
<1>1. CASE ~b.enabled
  BY <1>1 DEF applyBackupSettings, NoBackup
<1>2. CASE b.enabled
  <2>1. /\ applyBackupSettings(b).storages = Listed(b)
        /\ applyBackupSettings(b).schedules = schedulesOf(b)
        /\ applyBackupSettings(b).pitr =
              IF PITRStorages(b) = {} THEN NoStorage ELSE CHOOSE t \in PITRStorages(b) : TRUE
    BY <1>2 DEF applyBackupSettings
  <2>2. PITRStorages(b) # {} => (CHOOSE t \in PITRStorages(b) : TRUE) \in Listed(b)
    BY DEF PITRStorages
  <2>3. \A c \in schedulesOf(b) : c.storage \in Listed(b)
    BY DEF schedulesOf
  <2>4. QED
    BY <2>1, <2>2, <2>3
<1>3. QED
  BY <1>1, <1>2

(* The applied spec: what the type invariant and AppliedCanRun say of it.     *)
Applied ==
    cluster.exists =>
       /\ cluster.image \in Versions \cup {"Custom"}
       /\ cluster.size \in Replicas \ {Nil, 0}
       /\ cluster.proxySize \in (Replicas \ {Nil, 0}) \cup {2}
       /\ cluster.proxy \in {"haproxy", "proxysql"}
       /\ OperatorAccepts /\ PresetFits /\ PMMRequestFits

(* Everything that SyncPXC renders for a valid Instance can run.              *)
LEMMA RenderRuns ==
  ASSUME NEW i \in Instance, Validate(i), env \in Env, cluster' = render(i)
  PROVE  Applied'
<1> DEFINE size == OrDefault(i.engine.replicas, 3)
           proxySize == OrDefault(i.proxy.replicas, 2)
           mem == memoryLimitOrRequest(i.engine)
           img == engineImage(i.engine)
           bak == applyBackupSettings(i.backup)
<1>1. /\ size \in {1, 3, 5} /\ proxySize \in {1, 2, 3, 5}
      /\ i.proxy.type \in {"haproxy", "proxysql"}
  BY ValidParts
<1>2. mem \in Memory
  BY InstanceFields DEF memoryLimitOrRequest
<1>3. img \in Versions \cup {"Custom"}
  <2>1. env.catalog \subseteq Versions
    BY DEF Env
  <2>2. QED
    BY <2>1, InstanceFields, DefaultAssumption DEF engineImage
<1>4. /\ bak.pitr \in bak.storages \cup {NoStorage}
      /\ \A c \in bak.schedules : c.storage \in bak.storages
  BY SettingsClosed
<1> HIDE DEF size, proxySize, mem, img, bak
<1>5. /\ cluster'.image = img /\ cluster'.size = size /\ cluster'.memory = mem
      /\ cluster'.preset = defaultConfigurationForEngine(size, mem)
      /\ cluster'.proxy = i.proxy.type /\ cluster'.proxySize = proxySize
      /\ cluster'.unsafe = unsafeFlags(size, proxySize) /\ cluster'.backup = bak
  BY DEF render, size, proxySize, mem, img, bak
<1>6. OperatorAccepts'
  <2>1. /\ unsafeFlags(size, proxySize).pxcSize = (size < 3)
        /\ unsafeFlags(size, proxySize).proxySize = (proxySize < 2)
    BY DEF unsafeFlags
  <2>2. QED
    BY <1>4, <1>5, <2>1 DEF OperatorAccepts
<1>7. PresetFits'
  BY <1>2, <1>5, PresetSuits DEF PresetFits
<1>8. PMMRequestFits'
  <2>1. mem \in Int /\ {Nil, 65536, 99604, 199168, 524288, 796907, 1048576} \subseteq Nat \cup {Nil}
    BY <1>2 DEF Memory
  <2>2. \A request, limit \in {Nil, 65536, 99604, 199168, 524288, 796907, 1048576} :
           LET r == pmmResources(mem, request, limit)
           IN  /\ r = PMMError <=> (request # Nil /\ limit # Nil /\ request > limit)
               /\ r # PMMError /\ limit # Nil => r <= limit
               /\ r # PMMError /\ request # Nil => r = request
    <3> SUFFICES ASSUME NEW request \in {Nil, 65536, 99604, 199168, 524288, 796907, 1048576},
                        NEW limit \in {Nil, 65536, 99604, 199168, 524288, 796907, 1048576}
                 PROVE  LET r == pmmResources(mem, request, limit)
                        IN  /\ r = PMMError <=> (request # Nil /\ limit # Nil /\ request > limit)
                            /\ r # PMMError /\ limit # Nil => r <= limit
                            /\ r # PMMError /\ request # Nil => r = request
      OBVIOUS
    <3>1. request \in Nat \cup {Nil} /\ limit \in Nat \cup {Nil}
      BY <2>1
    <3>2. QED
      BY <2>1, <3>1, ClientFits
  <2>3. QED
    BY <1>5, <2>2 DEF PMMRequestFits
<1>9. \A n \in {1, 3, 5} : n \in Replicas \ {Nil, 0}
  BY NilAssumption DEF Replicas
<1>10. QED
  BY <1>1, <1>3, <1>5, <1>6, <1>7, <1>8, <1>9 DEF Applied

-----------------------------------------------------------------------------
(* The steps.                                                                 *)

(* Instances that users write are Instances, whoever lets them in.            *)
LEMMA EngineEdited ==
  ASSUME TypeOK, EditEngine
  PROVE  instance' \in Instance
<1>0. instance \in Instance /\ instance.engine \in Engine
  BY InstanceFields DEF TypeOK
<1>1. PICK e \in Engine : instance' = [instance EXCEPT !.engine = e]
  <2>1. ASSUME NEW r \in Replicas, instance' = [instance EXCEPT !.engine.replicas = r]
        PROVE  \E e \in Engine : instance' = [instance EXCEPT !.engine = e]
    <3>1. [instance.engine EXCEPT !.replicas = r] \in Engine
      BY <1>0 DEF Engine
    <3>2. QED
      BY <1>0, <2>1, <3>1
  <2>2. ASSUME NEW m \in Memory, instance' = [instance EXCEPT !.engine.limit = m]
        PROVE  \E e \in Engine : instance' = [instance EXCEPT !.engine = e]
    <3>1. [instance.engine EXCEPT !.limit = m] \in Engine
      BY <1>0 DEF Engine
    <3>2. QED
      BY <1>0, <2>2, <3>1
  <2>3. ASSUME NEW m \in Memory, instance' = [instance EXCEPT !.engine.request = m]
        PROVE  \E e \in Engine : instance' = [instance EXCEPT !.engine = e]
    <3>1. [instance.engine EXCEPT !.request = m] \in Engine
      BY <1>0 DEF Engine
    <3>2. QED
      BY <1>0, <2>3, <3>1
  <2>4. ASSUME NEW v \in Versions \cup {Nil}, instance' = [instance EXCEPT !.engine.version = v]
        PROVE  \E e \in Engine : instance' = [instance EXCEPT !.engine = e]
    <3>1. [instance.engine EXCEPT !.version = v] \in Engine
      BY <1>0 DEF Engine
    <3>2. QED
      BY <1>0, <2>4, <3>1
  <2>5. ASSUME NEW g \in {Nil, "Custom"}, instance' = [instance EXCEPT !.engine.image = g]
        PROVE  \E e \in Engine : instance' = [instance EXCEPT !.engine = e]
    <3>1. [instance.engine EXCEPT !.image = g] \in Engine
      BY <1>0 DEF Engine
    <3>2. QED
      BY <1>0, <2>5, <3>1
  <2>6. CASE instance' = [instance EXCEPT !.engine.present = FALSE]
    <3>1. [instance.engine EXCEPT !.present = FALSE] \in Engine
      BY <1>0 DEF Engine
    <3>2. QED
      BY <1>0, <2>6, <3>1
  <2>7. QED
    BY <2>1, <2>2, <2>3, <2>4, <2>5, <2>6 DEF EditEngine, Write
<1>2. QED
  BY <1>0, <1>1 DEF Instance

LEMMA ProxyEdited ==
  ASSUME TypeOK, EditProxy
  PROVE  instance' \in Instance
<1>0. instance \in Instance /\ instance.proxy \in Proxy
  BY InstanceFields DEF TypeOK
<1>1. PICK p \in Proxy : instance' = [instance EXCEPT !.proxy = p]
  <2>1. ASSUME NEW t \in ProxyType, instance' = [instance EXCEPT !.proxy.type = t]
        PROVE  \E p \in Proxy : instance' = [instance EXCEPT !.proxy = p]
    <3>1. [instance.proxy EXCEPT !.type = t] \in Proxy
      BY <1>0 DEF Proxy
    <3>2. QED
      BY <1>0, <2>1, <3>1
  <2>2. ASSUME NEW r \in Replicas, instance' = [instance EXCEPT !.proxy.replicas = r]
        PROVE  \E p \in Proxy : instance' = [instance EXCEPT !.proxy = p]
    <3>1. [instance.proxy EXCEPT !.replicas = r] \in Proxy
      BY <1>0 DEF Proxy
    <3>2. QED
      BY <1>0, <2>2, <3>1
  <2>3. CASE instance' = [instance EXCEPT !.proxy.present = FALSE]
    <3>1. [instance.proxy EXCEPT !.present = FALSE] \in Proxy
      BY <1>0 DEF Proxy
    <3>2. QED
      BY <1>0, <2>3, <3>1
  <2>4. QED
    BY <2>1, <2>2, <2>3 DEF EditProxy, Write
<1>2. QED
  BY <1>0, <1>1 DEF Instance

LEMMA BackupEdited ==
  ASSUME TypeOK, EditBackup
  PROVE  instance' \in Instance
<1>0. /\ instance \in Instance /\ instance.backup \in Backup
      /\ instance.backup.storages \in [Storages -> Entry]
  BY InstanceFields DEF TypeOK
<1>1. PICK b \in {[instance.backup EXCEPT !.enabled = on] : on \in BOOLEAN} \cup
             UNION {{[instance.backup EXCEPT !.storages[s] = e] :
                        e \in EditsOfEntry(instance.backup.storages[s])} : s \in Storages} :
         Write([instance EXCEPT !.backup = b])
  BY DEF EditBackup
<1>2. b \in Backup
  <2>1. ASSUME NEW on \in BOOLEAN, b = [instance.backup EXCEPT !.enabled = on]
        PROVE  b \in Backup
    BY <1>0, <2>1 DEF Backup
  <2>2. ASSUME NEW s \in Storages, NEW e \in EditsOfEntry(instance.backup.storages[s]),
               b = [instance.backup EXCEPT !.storages[s] = e]
        PROVE  b \in Backup
    <3>1. instance.backup.storages[s] \in Entry
      BY <1>0
    <3>2. NoPITR \in PITR
      BY DEF PITR
    <3>3. NoEntry \in Entry
      BY <3>2 DEF NoEntry, Entry, Schedule
    <3>4. e \in Entry
      BY <3>1, <3>3 DEF EditsOfEntry, Entry
    <3>5. [instance.backup.storages EXCEPT ![s] = e] \in [Storages -> Entry]
      BY <1>0, <3>4
    <3>6. b = [instance.backup EXCEPT !.storages = [instance.backup.storages EXCEPT ![s] = e]]
      BY <1>0, <2>2
    <3>7. QED
      BY <1>0, <3>5, <3>6 DEF Backup
  <2>3. QED
    BY <1>1, <2>1, <2>2
<1>3. instance' = [instance EXCEPT !.backup = b]
  BY <1>1 DEF Write
<1>4. QED
  BY <1>0, <1>2, <1>3 DEF Instance

(* The objects around the Instance keep their types.                          *)
LEMMA EnvChanged ==
  ASSUME TypeOK, EnvChanges
  PROVE  env' \in Env
<1>0. env \in Env /\ env.storage \in [Storages -> {"Ok", "Absent", "NotS3", "NoCredentials"}]
      /\ env.catalog \subseteq Versions
  BY DEF TypeOK, Env
<1>1. ASSUME NEW c \in {"Ok", "Missing", "Invalid", "Limits"},
             env' = [env EXCEPT !.class = c]
      PROVE  env' \in Env
  BY <1>0, <1>1 DEF Env
<1>2. ASSUME NEW s \in Storages, NEW st \in {"Ok", "Absent", "NotS3", "NoCredentials"},
             env' = [env EXCEPT !.storage[s] = st]
      PROVE  env' \in Env
  <2>1. [env.storage EXCEPT ![s] = st] \in
           [Storages -> {"Ok", "Absent", "NotS3", "NoCredentials"}]
    BY <1>0
  <2>2. env' = [env EXCEPT !.storage = [env.storage EXCEPT ![s] = st]]
    BY <1>0, <1>2
  <2>3. QED
    BY <1>0, <2>1, <2>2 DEF Env
<1>3. ASSUME NEW b \in Bundle, env' = [env EXCEPT !.bundle = b] PROVE env' \in Env
  BY <1>0, <1>3 DEF Env
<1>4. ASSUME NEW v, env' = [env EXCEPT !.catalog = @ \ {v}] PROVE env' \in Env
  <2>1. env.catalog \ {v} \in SUBSET Versions
    BY <1>0
  <2>2. QED
    BY <1>0, <1>4, <2>1 DEF Env
<1>5. ASSUME NEW e \in {"Ok", "MonitoringError", "SourceCredentialsError"},
             env' = [env EXCEPT !.rest = e]
      PROVE  env' \in Env
  BY <1>0, <1>5 DEF Env
<1>6. QED
  BY <1>1, <1>2, <1>3, <1>4, <1>5 DEF EnvChanges, Outage

(* The bounds: an edit uses up one of the edits, an outage one of the outages *)
(* and a Restore one of the Restores.                                         *)
Budget == [edits : 0..MaxEdits, outages : 0..MaxOutages, restores : 0..MaxRestores]

LEMMA LeftCounts ==
  ASSUME TypeOK, Next
  PROVE  left' \in Budget
<1>0. /\ left \in Budget
      /\ MaxEdits \in Nat /\ MaxOutages \in Nat /\ MaxRestores \in Nat
  BY SpecBounds DEF TypeOK, Budget
<1>1. ASSUME NEW i, Write(i)
      PROVE  left' \in Budget
  <2>1. left.edits - 1 \in 0..MaxEdits
    BY <1>0, <1>1 DEF Write, Budget
  <2>2. QED
    BY <1>0, <1>1, <2>1 DEF Write, Budget
<1>2. ASSUME NEW e, Outage(e)
      PROVE  left' \in Budget
  <2>1. left.outages - 1 \in 0..MaxOutages
    BY <1>0, <1>2 DEF Outage, Budget
  <2>2. QED
    BY <1>0, <1>2, <2>1 DEF Outage, Budget
<1>3. CASE EditEngine
  BY <1>1, <1>3 DEF EditEngine
<1>4. CASE EditProxy
  BY <1>1, <1>4 DEF EditProxy
<1>5. CASE EditBackup
  BY <1>1, <1>5 DEF EditBackup
<1>6. CASE EnvChanges
  BY <1>2, <1>6 DEF EnvChanges
<1>7. CASE RestoreChanges
  <2>1. CASE UNCHANGED left
    BY <1>0, <2>1
  <2>2. CASE left.restores > 0 /\ left' = [left EXCEPT !.restores = @ - 1]
    <3>1. left.restores - 1 \in 0..MaxRestores
      BY <1>0, <2>2 DEF Budget
    <3>2. QED
      BY <1>0, <2>2, <3>1 DEF Budget
  <2>3. QED
    BY <1>7, <2>1, <2>2 DEF RestoreChanges, RestoreTurns
<1>8. CASE Sync \/ OtherEvent
  BY <1>0, <1>8 DEF Sync, OtherEvent
<1>9. QED
  BY <1>3, <1>4, <1>5, <1>6, <1>7, <1>8 DEF Next

(* What every edit leaves alone, and what every outage and every Restore do.  *)
LEMMA EditFrame ==
  ASSUME EditEngine \/ EditProxy \/ EditBackup
  PROVE  queued' = TRUE /\ UNCHANGED <<env, restoring, cluster, reason>>
<1>1. ASSUME NEW i, Write(i)
      PROVE  queued' = TRUE /\ UNCHANGED <<env, restoring, cluster, reason>>
  BY <1>1 DEF Write
<1>2. QED
  BY <1>1 DEF EditEngine, EditProxy, EditBackup

LEMMA OutageFrame ==
  ASSUME EnvChanges
  PROVE  UNCHANGED <<instance, restoring, queued, cluster, reason>>
<1>1. ASSUME NEW e, Outage(e) PROVE UNCHANGED <<instance, restoring, queued, cluster, reason>>
  BY <1>1 DEF Outage
<1>2. QED
  BY <1>1 DEF EnvChanges

-----------------------------------------------------------------------------
(* The inductive invariant. AppliedCanRun speaks of the applied spec, which   *)
(* every step but Sync keeps, and which a Sync renders from an Instance that  *)
(* was validated in that very step.                                           *)
Inv == TypeOK /\ Applied

LEMMA InvInit ==
  ASSUME Init
  PROVE  Inv
<1>1. instance \in Instance
  <2>1. NoPITR \in PITR
    BY DEF PITR
  <2>2. [s \in Storages |-> [listed |-> TRUE, pitr |-> NoPITR, schedule |-> "Count"]]
           \in [Storages -> Entry]
    BY <2>1 DEF Entry, Schedule
  <2>3. QED
    BY <2>2, DefaultAssumption
       DEF Init, Instance, Engine, Proxy, Backup, Replicas, Memory, ProxyType
<1>2. env \in Env
  BY DEF Init, Env, Bundle
<1>3. left \in Budget
  BY SpecBounds DEF Init, Budget
<1>4. ~cluster.exists
  BY DEF Init, NoCluster
<1>5. restoring \in BOOLEAN /\ queued \in BOOLEAN /\ reason = "Ok"
  BY DEF Init
<1>6. QED
  BY <1>1, <1>2, <1>3, <1>4, <1>5 DEF Inv, TypeOK, Budget, Reason, Applied

(* A reconcile: what Validate does not let through changes nothing, what it   *)
(* lets through is rendered, or stopped by the objects around it.             *)
LEMMA SyncStep ==
  ASSUME Inv, Sync
  PROVE  reason' \in Reason /\ Applied'
<1>0. instance \in Instance /\ env \in Env /\ Applied
  BY DEF Inv, TypeOK
<1>1. ASSUME cluster' = cluster PROVE Applied'
  BY <1>0, <1>1 DEF Applied, OperatorAccepts, PresetFits, PMMRequestFits
<1>2. CASE ~Validate(instance) \/ restoring
  <2>1. reason' \in {"Rejected", "Skipped"} /\ cluster' = cluster
    BY <1>2 DEF Sync
  <2>2. QED
    BY <1>1, <2>1 DEF Reason
<1>3. CASE Validate(instance) /\ ~restoring
  <2>1. PICK r \in syncReasons(instance) :
           /\ reason' = r
           /\ cluster' = IF r = "Ok" THEN render(instance) ELSE cluster
    BY <1>3 DEF Sync
  <2>2. r \in Reason
    BY <1>0, ReasonsTyped
  <2>3. cluster' = render(instance) => Applied'
    BY <1>0, <1>3, RenderRuns
  <2>4. QED
    BY <1>1, <2>1, <2>2, <2>3
<1>4. QED
  BY <1>2, <1>3

LEMMA InvStep ==
  ASSUME Inv, [Next]_vars
  PROVE  Inv'
<1>0. /\ TypeOK /\ Applied /\ instance \in Instance /\ env \in Env /\ reason \in Reason
      /\ restoring \in BOOLEAN /\ queued \in BOOLEAN
  BY DEF Inv, TypeOK
<1>1. ASSUME cluster' = cluster PROVE Applied'
  BY <1>0, <1>1 DEF Applied, OperatorAccepts, PresetFits, PMMRequestFits
<1>2. ASSUME instance' \in Instance, env' \in Env, reason' \in Reason,
             restoring' \in BOOLEAN, queued' \in BOOLEAN, left' \in Budget, Applied'
      PROVE  Inv'
  BY <1>2 DEF Inv, TypeOK, Budget, Applied
<1>3. Next => left' \in Budget
  BY <1>0, LeftCounts
<1>4. CASE EditEngine \/ EditProxy \/ EditBackup
  <2>1. queued' = TRUE /\ UNCHANGED <<env, restoring, cluster, reason>>
    BY <1>4, EditFrame
  <2>2. instance' \in Instance
    BY <1>0, <1>4, EngineEdited, ProxyEdited, BackupEdited
  <2>3. QED
    BY <1>0, <1>1, <1>2, <1>3, <1>4, <2>1, <2>2 DEF Next
<1>5. CASE EnvChanges
  <2>1. UNCHANGED <<instance, restoring, queued, cluster, reason>>
    BY <1>5, OutageFrame
  <2>2. env' \in Env
    BY <1>0, <1>5, EnvChanged
  <2>3. QED
    BY <1>0, <1>1, <1>2, <1>3, <1>5, <2>1, <2>2 DEF Next
<1>6. CASE RestoreChanges \/ OtherEvent
  <2>1. /\ restoring' \in BOOLEAN /\ queued' = TRUE
        /\ UNCHANGED <<instance, env, cluster, reason>>
    BY <1>0, <1>6 DEF RestoreChanges, RestoreTurns, OtherEvent
  <2>2. QED
    BY <1>0, <1>1, <1>2, <1>3, <1>6, <2>1 DEF Next
<1>7. CASE Sync
  <2>1. queued' = FALSE /\ UNCHANGED <<instance, env, restoring>>
    BY <1>7 DEF Sync
  <2>2. reason' \in Reason /\ Applied'
    BY <1>7, SyncStep
  <2>3. QED
    BY <1>0, <1>2, <1>3, <1>7, <2>1, <2>2 DEF Next
<1>8. CASE UNCHANGED vars
  BY <1>0, <1>8 DEF vars, Inv, TypeOK, Applied, OperatorAccepts, PresetFits, PMMRequestFits
<1>9. QED
  BY <1>4, <1>5, <1>6, <1>7, <1>8 DEF Next

LEMMA InvAlways == Spec => []Inv
<1>1. Init => Inv
  BY InvInit
<1>2. Inv /\ [Next]_vars => Inv'
  BY InvStep
<1>3. QED
  BY <1>1, <1>2, PTL DEF Spec

-----------------------------------------------------------------------------
(* Every applied cluster has an engine image and at least one pod of engine   *)
(* and of proxy, whatever was edited and whether or not it was validated when *)
(* it was written (SyncPXC in provider.go).                                   *)
THEOREM ClusterTypeCorrect == Spec => []TypeOK
<1>1. Inv => TypeOK
  BY DEF Inv
<1>2. QED
  BY <1>1, InvAlways, PTL

(* What SyncPXC has applied can run: sizes with their unsafe flags, PITR and  *)
(* schedules on storages of the spec, a preset and a PMM client that fit the  *)
(* memory; for any number of storages, also while the webhook is down.        *)
THEOREM AppliedRuns == Spec => []AppliedCanRun
<1>1. Inv => AppliedCanRun
  BY DEF Inv, Applied, AppliedCanRun
<1>2. QED
  BY <1>1, InvAlways, PTL
==============================================================================
