----------------------------- MODULE ClusterSpec -----------------------------
(* What SyncPXC puts into the spec of the PerconaXtraDBCluster                *)
(* (internal/provider/provider.go, backup_mirror.go, mysql_configs.go), what  *)
(* Validate has let through before (validate.go), and the two kept in step    *)
(* while users edit the Instance and the objects it refers to come and go.    *)
(*                                                                            *)
(* Validate runs when an Instance is written, and again before every Sync. A  *)
(* reconcile takes an Instance from the work queue. The one write of Sync to  *)
(* the cluster is the Apply at its end, so Sync is one step here;             *)
(* InstanceSync.tla and Monitoring.tla have its requests one by one. The list *)
(* of storages is a function: which of several failing storages is reported   *)
(* depends on the order of the list, and is left open.                        *)
EXTENDS Integers, FiniteSets

CONSTANTS
    Storages,
    NoStorage,
    Versions,         \* engine versions
    Default,          \* the provider's default version
    Nil,              \* an optional field that is not set
    MaxEdits,         \* bound on edits of the Instance
    MaxOutages,       \* bound on changes of the objects it refers to
    MaxRestores,      \* bound on Restores of the Instance
    WebhookMayBeDown  \* TRUE: an Instance may be written without being validated

ASSUME StoragesAssumption == IsFiniteSet(Storages) /\ Storages # {}
ASSUME DefaultAssumption == Default \in Versions /\ Nil \notin Versions
ASSUME NilAssumption == Nil \notin Int
ASSUME SpecBounds == {MaxEdits, MaxOutages, MaxRestores} \subseteq Nat
ASSUME SpecSwitch == WebhookMayBeDown \in BOOLEAN

VARIABLES
    instance,  \* the spec of the Instance
    env,       \* backup class, storages, the catalog of the Provider, and the rest of Sync
    restoring, \* is a Restore of the Instance active?
    queued,    \* is the Instance in the work queue?
    cluster,   \* the applied spec of the PerconaXtraDBCluster
    reason,    \* how the last reconcile ended
    left       \* edits, outages and Restores still allowed

vars == <<instance, env, restoring, queued, cluster, reason, left>>

Memory == {0, 1, 2, 8, 32}                    \* Gi; 0 is not set
Replicas == {Nil, 0, 1, 3, 5}
ProxyType == {"", "haproxy", "proxysql", "router"}

NoPITR == [on |-> FALSE, decodes |-> TRUE, timeBetweenUploads |-> Nil, timeoutSeconds |-> Nil]
PITR ==
    {NoPITR, [NoPITR EXCEPT !.on = TRUE], [NoPITR EXCEPT !.on = TRUE, !.decodes = FALSE]}
    \cup [on : {TRUE}, decodes : {TRUE}, timeBetweenUploads : {0, 1}, timeoutSeconds : {Nil}]
    \cup [on : {TRUE}, decodes : {TRUE}, timeBetweenUploads : {Nil}, timeoutSeconds : {0, 1}]
Schedule == {"None", "Disabled", "KeepAll", "Count", "Time"}

Entry == [listed : BOOLEAN, pitr : PITR, schedule : Schedule]
NoEntry == [listed |-> FALSE, pitr |-> NoPITR, schedule |-> "None"]

Engine == [present : BOOLEAN, replicas : Replicas, limit : Memory, request : Memory,
           version : Versions \cup {Nil}, image : {Nil, "Custom"}]
Proxy == [present : BOOLEAN, type : ProxyType, replicas : Replicas]
Backup == [enabled : BOOLEAN, storages : [Storages -> Entry]]
Instance == [engine : Engine, proxy : Proxy, backup : Backup]

(* Does the version bundle list a backup version, and if an older one does    *)
(* not, is there a default image, or one in another bundle of the version?    *)
Bundle == {"Lists", "ListsUnknown", "OlderDefault", "OlderSibling", "OlderNeither", "None"}

Env == [class : {"Ok", "Missing", "Invalid", "Limits"},
        storage : [Storages -> {"Ok", "Absent", "NotS3", "NoCredentials"}],
        catalog : SUBSET Versions,
        bundle : Bundle,
        rest : {"Ok", "MonitoringError", "SourceCredentialsError"}]

NoBackup == [enabled |-> FALSE, storages |-> {}, image |-> "None", pitr |-> NoStorage,
             timeBetweenUploads |-> 0, timeoutSeconds |-> 0, schedules |-> {}]
NoCluster == [exists |-> FALSE, size |-> 0, memory |-> 0, preset |-> "Tiny", image |-> Default,
              proxy |-> "haproxy", proxySize |-> 0,
              unsafe |-> [pxcSize |-> FALSE, proxySize |-> FALSE], backup |-> NoBackup]

-----------------------------------------------------------------------------
(* Validate.                                                                  *)

OrDefault(v, d) == IF v = Nil THEN d ELSE v
UploadsEvery(p) == OrDefault(p.timeBetweenUploads, 60)
UploadTimeout(p) == OrDefault(p.timeoutSeconds, 3600)

decodeAndValidatePITRConfig(p) ==
    p.decodes /\ UploadsEvery(p) >= 1 /\ UploadTimeout(p) >= 1

Listed(b) == {s \in Storages : b.storages[s].listed}
PITRStorages(b) == {s \in Listed(b) : b.storages[s].pitr.on}

validatePITR(b) ==
    b.enabled => /\ \A s \in PITRStorages(b) : decodeAndValidatePITRConfig(b.storages[s].pitr)
                 /\ Cardinality(PITRStorages(b)) <= 1

AtLeastOne(replicas) == OrDefault(replicas, 1) >= 1

Validate(i) ==
    /\ i.engine.present /\ AtLeastOne(i.engine.replicas)
    /\ i.proxy.present /\ AtLeastOne(i.proxy.replicas)
    /\ i.proxy.type \in {"haproxy", "proxysql"}
    /\ validatePITR(i.backup)

-----------------------------------------------------------------------------
(* The rendering, part by part.                                               *)

memoryLimitOrRequest(e) == IF e.limit # 0 THEN e.limit ELSE e.request

defaultConfigurationForEngine(replicas, mem) ==
    IF replicas \notin {1, 3} /\ mem >= 32 THEN "Large"
    ELSE IF replicas = 3 /\ mem >= 8 THEN "Medium"
    ELSE IF mem >= 2 THEN "Small" ELSE "Tiny"

(* PMM client requests by engine memory (in Ki), under what the entry sets.   *)
(* A request above its own limit cannot be rendered.                          *)
PMMError == -1
sizedRequest(mem) == IF mem >= 32 THEN 796907 ELSE IF mem >= 8 THEN 199168 ELSE 99604

pmmResources(mem, request, limit) ==
    IF request # Nil THEN IF limit # Nil /\ request > limit THEN PMMError ELSE request
    ELSE IF limit # Nil /\ sizedRequest(mem) > limit THEN limit ELSE sizedRequest(mem)

(* Mutant: only the engine is looked at.                                      *)
unsafeFlagsOfEngine(replicas, proxyReplicas) ==
    [pxcSize |-> replicas < 3, proxySize |-> FALSE]

unsafeFlags(replicas, proxyReplicas) ==
    [pxcSize |-> replicas < 3, proxySize |-> proxyReplicas < 2]

(* Mutant: nothing falls back to the default image.                           *)
engineImageRaw(e) == IF e.image # Nil THEN e.image ELSE e.version

(* A version that is not in the catalog falls back to the default image.      *)
engineImage(e) ==
    IF e.image # Nil THEN e.image
    ELSE IF e.version \in env.catalog THEN e.version ELSE Default

(* The image of the backup component. Older bundles list no backup version;   *)
(* for them another bundle of the same engine version may.                    *)
defaultImageForComponentType == IF env.bundle = "OlderDefault" THEN "Default" ELSE "None"

backupImageForEngineVersion ==
    IF env.bundle = "OlderSibling" THEN "OfSibling" ELSE defaultImageForComponentType

backupImage ==
    CASE env.bundle = "None" -> "None"
      [] env.bundle = "Lists" -> "OfBundle"
      [] env.bundle = "ListsUnknown" -> "None"
      [] OTHER -> IF defaultImageForComponentType # "None" THEN defaultImageForComponentType
                  ELSE backupImageForEngineVersion

(* The operator keeps all backups of a schedule, or a number of them.         *)
buildPXCRetention(schedule) == IF schedule = "Time" THEN "Unsupported" ELSE schedule

(* The checks of one storage, in the order of the code.                       *)
storageReason(s, entry) ==
    CASE env.storage[s] = "Absent" -> "StorageNotFound"
      [] env.storage[s] = "NotS3" -> "StorageTypeUnsupported"
      [] env.storage[s] = "NoCredentials" -> "StorageCredentialsError"
      [] OTHER -> IF entry.pitr.on /\ ~decodeAndValidatePITRConfig(entry.pitr)
                  THEN "InvalidPITRConfig"
                  ELSE IF buildPXCRetention(entry.schedule) = "Unsupported"
                       THEN "RetentionTypeUnsupported" ELSE "Ok"

classReason ==
    CASE env.class = "Missing" -> "BackupClassLookupFailed"
      [] env.class = "Invalid" -> "InvalidBackupConfiguration"
      [] OTHER -> "LimitsExceeded"

(* How applyBackupSettings may end.                                           *)
backupReasons(b) ==
    LET failing == {storageReason(s, b.storages[s]) : s \in Listed(b)} \ {"Ok"}
    IN  IF ~b.enabled THEN {"Ok"}
        ELSE IF env.class # "Ok" THEN {classReason}
        ELSE IF backupImage = "None" THEN {"BackupImageUnavailable"}
        ELSE IF failing # {} THEN failing
        ELSE IF Listed(b) = {} THEN {"NoStoragesConfigured"}
        ELSE IF Cardinality(PITRStorages(b)) > 1 THEN {"PITRConfigurationInvalid"}
        ELSE {"Ok"}

schedulesOf(b) ==
    {[storage |-> s, retention |-> buildPXCRetention(b.storages[s].schedule)] :
        s \in {t \in Listed(b) : b.storages[t].schedule \notin {"None", "Disabled"}}}

applyBackupSettings(b) ==
    IF ~b.enabled THEN NoBackup
    ELSE LET s == IF PITRStorages(b) = {} THEN NoStorage ELSE CHOOSE t \in PITRStorages(b) : TRUE
             p == IF s = NoStorage THEN NoPITR ELSE b.storages[s].pitr
         IN  [enabled |-> TRUE, storages |-> Listed(b), image |-> backupImage, pitr |-> s,
              timeBetweenUploads |-> IF p.on THEN UploadsEvery(p) ELSE 0,
              timeoutSeconds |-> IF p.on THEN UploadTimeout(p) ELSE 0,
              schedules |-> schedulesOf(b)]

(* How SyncPXC may end before its Apply. Behind the backup settings come the  *)
(* steps of Monitoring.tla and InstanceSync.tla, which may fail as well.      *)
syncReasons(i) ==
    IF ~i.engine.present THEN {"EngineMissing"}
    ELSE IF ~i.proxy.present \/ i.proxy.type = "" THEN {"ProxyMissing"}
    ELSE IF i.proxy.type \notin {"haproxy", "proxysql"} THEN {"UnsupportedProxyType"}
    ELSE IF backupReasons(i.backup) # {"Ok"} THEN backupReasons(i.backup)
    ELSE {env.rest}

render(i) ==
    LET size == OrDefault(i.engine.replicas, 3)
        proxySize == OrDefault(i.proxy.replicas, 2)
        mem == memoryLimitOrRequest(i.engine)
    IN  [exists |-> TRUE, size |-> size, memory |-> mem,
         preset |-> defaultConfigurationForEngine(size, mem),
         image |-> engineImage(i.engine),
         proxy |-> i.proxy.type, proxySize |-> proxySize,
         unsafe |-> unsafeFlags(size, proxySize),
         backup |-> applyBackupSettings(i.backup)]

-----------------------------------------------------------------------------
Init ==
    /\ instance = [engine |-> [present |-> TRUE, replicas |-> Nil, limit |-> 0, request |-> 2,
                               version |-> Default, image |-> Nil],
                   proxy |-> [present |-> TRUE, type |-> "haproxy", replicas |-> Nil],
                   backup |-> [enabled |-> TRUE, storages |-> [s \in Storages |->
                       [listed |-> TRUE, pitr |-> NoPITR, schedule |-> "Count"]]]]
    /\ env = [class |-> "Ok", storage |-> [s \in Storages |-> "Ok"], catalog |-> Versions,
              bundle |-> "Lists", rest |-> "Ok"]
    /\ restoring = FALSE
    /\ queued = TRUE
    /\ cluster = NoCluster
    /\ reason = "Ok"
    /\ left = [edits |-> MaxEdits, outages |-> MaxOutages, restores |-> MaxRestores]

(* Users write the Instance, one field at a time; that queues it.             *)
Write(i) ==
    /\ left.edits > 0 /\ i # instance
    /\ ~WebhookMayBeDown => Validate(i)
    /\ instance' = i
    /\ queued' = TRUE
    /\ left' = [left EXCEPT !.edits = @ - 1]
    /\ UNCHANGED <<env, restoring, cluster, reason>>

EditEngine ==
    \/ \E r \in Replicas : Write([instance EXCEPT !.engine.replicas = r])
    \/ \E m \in Memory : Write([instance EXCEPT !.engine.limit = m])
    \/ \E m \in Memory : Write([instance EXCEPT !.engine.request = m])
    \/ \E v \in Versions \cup {Nil} : Write([instance EXCEPT !.engine.version = v])
    \/ \E g \in {Nil, "Custom"} : Write([instance EXCEPT !.engine.image = g])
    \/ Write([instance EXCEPT !.engine.present = FALSE])

EditProxy ==
    \/ \E t \in ProxyType : Write([instance EXCEPT !.proxy.type = t])
    \/ \E r \in Replicas : Write([instance EXCEPT !.proxy.replicas = r])
    \/ Write([instance EXCEPT !.proxy.present = FALSE])

EditsOfEntry(e) ==
    {NoEntry} \cup {[e EXCEPT !.listed = TRUE, !.pitr = p] : p \in PITR}
    \cup {[e EXCEPT !.listed = TRUE, !.schedule = c] : c \in Schedule}

EditBackup ==
    \E b \in {[instance.backup EXCEPT !.enabled = on] : on \in BOOLEAN} \cup
             UNION {{[instance.backup EXCEPT !.storages[s] = e] :
                        e \in EditsOfEntry(instance.backup.storages[s])} : s \in Storages} :
       Write([instance EXCEPT !.backup = b])

(* The objects around it change, which queues nothing; a provider release may *)
(* drop a version.                                                            *)
Outage(e) ==
    /\ left.outages > 0 /\ e # env
    /\ env' = e
    /\ left' = [left EXCEPT !.outages = @ - 1]
    /\ UNCHANGED <<instance, restoring, queued, cluster, reason>>

EnvChanges ==
    \/ \E c \in {"Ok", "Missing", "Invalid", "Limits"} : Outage([env EXCEPT !.class = c])
    \/ \E s \in Storages, st \in {"Ok", "Absent", "NotS3", "NoCredentials"} :
          Outage([env EXCEPT !.storage[s] = st])
    \/ \E b \in Bundle : Outage([env EXCEPT !.bundle = b])
    \/ \E v \in Versions \ {Default} : Outage([env EXCEPT !.catalog = @ \ {v}])
    \/ \E e \in {"Ok", "MonitoringError", "SourceCredentialsError"} :
          Outage([env EXCEPT !.rest = e])

(* The first Restore begins, or the last one ends.                            *)
RestoreTurns ==
    /\ restoring' = ~restoring
    /\ \/ restoring /\ UNCHANGED left
       \/ ~restoring /\ left.restores > 0 /\ left' = [left EXCEPT !.restores = @ - 1]
    /\ UNCHANGED <<instance, env, cluster, reason>>

(* Mutant of RestoreChanges: Restores are not watched.                        *)
RestoreChangesUnseen ==
    /\ RestoreTurns
    /\ UNCHANGED queued

(* Restores are watched: every change of one queues its Instance.             *)
RestoreChanges ==
    /\ RestoreTurns
    /\ queued' = TRUE

(* Whatever else makes the runtime look at an Instance, a returned error      *)
(* included; nothing relies on it.                                            *)
OtherEvent ==
    /\ ~queued /\ queued' = TRUE
    /\ UNCHANGED <<instance, env, restoring, cluster, reason, left>>

(* A reconcile: Validate, nothing more while a Restore is active, otherwise   *)
(* the rendering, and the Apply when nothing failed.                          *)
Sync ==
    /\ queued /\ queued' = FALSE
    /\ IF ~Validate(instance) THEN reason' = "Rejected" /\ UNCHANGED cluster
       ELSE IF restoring THEN reason' = "Skipped" /\ UNCHANGED cluster
       ELSE \E r \in syncReasons(instance) :
               /\ reason' = r
               /\ cluster' = IF r = "Ok" THEN render(instance) ELSE cluster
    /\ UNCHANGED <<instance, env, restoring, left>>

Next ==
    \/ EditEngine \/ EditProxy \/ EditBackup
    \/ EnvChanges \/ RestoreChanges \/ OtherEvent
    \/ Sync

Spec == Init /\ [][Next]_vars

(* The runtime sees to what is queued; nothing else is assumed, not even that *)
(* it tries a failed reconcile again.                                         *)
FairSpec == Spec /\ WF_vars(Sync)
-----------------------------------------------------------------------------
(* The properties.                                                            *)

Reason ==
    {"Ok", "Rejected", "Skipped", "EngineMissing", "ProxyMissing", "UnsupportedProxyType",
     "BackupClassLookupFailed", "InvalidBackupConfiguration", "LimitsExceeded",
     "BackupImageUnavailable", "StorageNotFound", "StorageTypeUnsupported",
     "StorageCredentialsError", "InvalidPITRConfig", "RetentionTypeUnsupported",
     "NoStoragesConfigured", "PITRConfigurationInvalid", "MonitoringError",
     "SourceCredentialsError"}

(* The variables have their types; above all, every applied cluster has an    *)
(* engine image and at least one pod of engine and proxy.                     *)
TypeOK ==
    /\ instance \in Instance
    /\ env \in Env
    /\ restoring \in BOOLEAN /\ queued \in BOOLEAN
    /\ reason \in Reason
    /\ left \in [edits : 0..MaxEdits, outages : 0..MaxOutages, restores : 0..MaxRestores]
    /\ cluster.exists => /\ cluster.image \in Versions \cup {"Custom"}
                         /\ cluster.size \in Replicas \ {Nil, 0}
                         /\ cluster.proxySize \in (Replicas \ {Nil, 0}) \cup {2}
                         /\ cluster.proxy \in {"haproxy", "proxysql"}

(* "The chart registers an admission webhook, so an invalid `Instance` is     *)
(* rejected when it is written" (README.md:94-95): SyncPXC does not fail over *)
(* the Instance itself, only over the objects around it. The run              *)
(* ClusterSpecUnsupported refutes it: Validate lets time retention pass, and  *)
(* backups without a storage, which applyBackupSettings then refuses.         *)
AdmittedIsRenderable ==
    reason \notin {"EngineMissing", "ProxyMissing", "UnsupportedProxyType", "InvalidPITRConfig",
                   "RetentionTypeUnsupported", "NoStoragesConfigured",
                   "PITRConfigurationInvalid"}

(* The operator refuses fewer than 3 engine pods or fewer than 2 proxies      *)
(* unless the flag allows it, and PITR or a schedule on a storage that the    *)
(* spec does not have.                                                        *)
OperatorAccepts ==
    /\ cluster.size < 3 => cluster.unsafe.pxcSize
    /\ cluster.proxySize < 2 => cluster.unsafe.proxySize
    /\ cluster.backup.pitr \in cluster.backup.storages \cup {NoStorage}
    /\ \A c \in cluster.backup.schedules : c.storage \in cluster.backup.storages

(* "Small/medium/large assume 2Gi / 8Gi / 32Gi; anything smaller gets tiny so *)
(* the buffer pool fits the pod" (mysql_configs.go:197-199).                  *)
PresetFits ==
    LET needs == [Tiny |-> 0, Small |-> 2, Medium |-> 8, Large |-> 32]
    IN  needs[cluster.preset] <= cluster.memory

(* Whatever the monitoring entry sets beside whatever memory, the PMM client  *)
(* asks for no more than its limit, keeps a request that is set, and fails    *)
(* only when the entry contradicts itself.                                    *)
PMMRequestFits ==
    \A request, limit \in {Nil, 65536, 99604, 199168, 524288, 796907, 1048576} :
       LET r == pmmResources(cluster.memory, request, limit)
       IN  /\ r = PMMError <=> (request # Nil /\ limit # Nil /\ request > limit)
           /\ r # PMMError /\ limit # Nil => r <= limit
           /\ r # PMMError /\ request # Nil => r = request

(* What SyncPXC has applied can run: the operator accepts it, and the preset  *)
(* and the PMM client fit the engine's pods, at every boundary of sizes and   *)
(* memory and after every edit.                                               *)
AppliedCanRun ==
    cluster.exists => OperatorAccepts /\ PresetFits /\ PMMRequestFits

(* Does the applied spec do what the Instance asks for?                       *)
Honours(k, i) ==
    /\ k.exists
    /\ k.size = OrDefault(i.engine.replicas, 3)
    /\ k.proxy = i.proxy.type /\ k.proxySize = OrDefault(i.proxy.replicas, 2)
    /\ k.backup.enabled = i.backup.enabled
    /\ i.backup.enabled =>
          \A s \in Storages :
             LET e == i.backup.storages[s]
             IN  /\ e.listed <=> s \in k.backup.storages
                 /\ (e.listed /\ e.pitr.on) <=> k.backup.pitr = s
                 /\ (e.listed /\ e.schedule \in {"KeepAll", "Count"}) <=>
                       [storage |-> s, retention |-> e.schedule] \in k.backup.schedules
                 /\ ~e.listed \/ e.schedule = "Disabled" =>
                       \A c \in k.backup.schedules : c.storage # s

Supported(b) ==
    /\ \A s \in Listed(b) : b.storages[s].schedule # "Time"
    /\ b.enabled => Listed(b) # {}

AllThere ==
    /\ env.class = "Ok" /\ env.rest = "Ok"
    /\ env.bundle \in {"Lists", "OlderDefault", "OlderSibling"}
    /\ instance.backup.enabled => \A s \in Listed(instance.backup) : env.storage[s] = "Ok"

(* An edit is not lost, also one that SyncPXC has skipped because of a        *)
(* Restore (provider.go:158-161): when the Instance is queued, is valid and   *)
(* stays so, with its class, storages and images there, and no Restore is     *)
(* active in the end, then the cluster follows it in the end; and whatever    *)
(* was asked for before, and failed or not, nothing of it stays in the spec.  *)
(* No event is needed but those of the Restores.                              *)
ClusterFollows ==
    /\ <>(queued /\ [](Validate(instance) /\ Supported(instance.backup) /\ AllThere))
    /\ <>[](~restoring)
    => <>[](reason = "Ok" /\ Honours(cluster, instance))
=============================================================================
