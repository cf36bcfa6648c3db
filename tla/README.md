# Verification of provider-percona-xtradb-cluster

TLA+ models of the OpenEverest provider for Percona XtraDB Cluster, checked with
TLC and, safety and refinement, proved with TLAPS. The models are about what the provider does
*between* the requests it sends to the Kubernetes API: the order of writes,
who else moves in between, what is read too early and what happens when a
handler is interrupted.

## The system

The provider is a library of callbacks that the OpenEverest runtime calls. It
keeps no state of its own: everything lives in Kubernetes objects which users,
the runtime, the Percona operator and the garbage collector also write.

| Component | State it works on | Operations | Hard part | Correct when |
|---|---|---|---|---|
| Backup handler (`backup.go`) | Backup, operator backup, finalizer that purges data | `SyncBackup`, `CleanupBackup` | several requests per call, stale reads, policy changes, names used again | outcomes are real, data is kept or purged as decided, nothing is orphaned, everything ends |
| Backup mirror (`backup_mirror.go`) | scheduled operator backups | `Mirror` | answers now, the runtime creates later; a cron backup may lack its schedule's name, and `SyncBackup` then manages it | mirrored Backups end, and are deleted like others |
| Restore handler (`backup.go`) | Restore, operator restore | `SyncRestore`, `CleanupRestore`, `hasActiveRestoreForInstance` | source resolved again on every call | a restore is applied once, from the right source, and its end is reported |
| PITR window (`backup_status.go`) | operator backups, published window | `BackupStorageStatuses`, `pitrWindow` | marks, deletions, ties | the window spans no gap |
| PITR base (`backup.go`) | Backups | `selectPITRBaseBackup` | a second view of the same backups | replay from the base crosses no gap |
| Instance reconciler (`provider.go`) | cluster, users secret, phase | `SyncPXC`, `ensureDataSourceCredentials`, `StatusPXC` | runs beside Restores and the operator | a seeded cluster authenticates, a phase that is out of date is corrected |
| Backup settings, validation (`backup_mirror.go`, `validate.go`) | cluster spec | `applyBackupSettings`, `Validate` | the same rules twice, edits with and without the webhook, objects that come and go | what is admitted can be applied, and the cluster follows the Instance |
| Monitoring (`monitoring_sources.go`, `pmm.go`, `metrics.go`) | `spec.pmm`, exporter sidecar, token in the secret | `applyPMM`, `MonitoringSources` | several reads and two writes per reconcile, hold rule on a stale read | nothing flaps while unresolved, token and server belong together |
| Engine configuration, spec building (`provider.go`, `mysql_configs.go`) | cluster spec | rendering of sizes, images, presets, flags | boundaries, versions that leave the catalog | the operator accepts it and the pods can run it |
| Scheduling, expose, wiring | none | rendering | none | — |

Interaction: a user creates a Backup; `SyncBackup` creates an operator backup of
the same name and reports its state; the Instance reconciler publishes a window
from those operator backups; a Restore names a Backup or a point of the window;
`SyncRestore` creates an operator restore; `SyncPXC` stops applying and
`StatusPXC` reports Restoring while a Restore is active. A seeded Instance
creates its own Restore through the runtime (`ReconcileDataSource`). Operator
backups and restores are watched for every change, which leads to a new call of
their handler; Restores are watched for the Instance too, and a cluster only for
changes of its spec.

## Modules

| Module | Models |
|---|---|
| `PITRWindow` | the pure algorithms: `collectStorageBackups` (every order the unstable sort may return), `lastMarked`, `pitrWindow`, `PITRCandidates`, `selectPITRBaseBackup` |
| `PITRStream` | the operator's stream of backups, the Backup resources that follow it, and `BackupStorageStatuses` |
| `Backups` | `SyncBackup`, `CleanupBackup`, `Mirror` beside operator, collector, users, cache |
| `Restores` | `SyncRestore`, the resolution of sources, `CleanupRestore` beside the same |
| `InstanceSync` | `SyncPXC`, `StatusPXC`; extends `Restores` and shares its Restore resources |
| `ClusterSpec` | what `SyncPXC` applies, and `Validate` before it, while users edit the Instance and class, storages and catalog change |
| `Monitoring` | `applyMonitoring`, the PMM token in the users secret, `MonitoringSources` |
| `OneShot` | abstract: a job done at most once, reported when it has ended, closed when nothing of it is left |
| `BackupsProofs`, `BackupsVerdictProofs`, `BackupsRefinement` | theorems about `Backups`, each module on top of the one before |
| `RestoresProofs`, `InstanceSyncProofs` | theorems about `Restores`, and about `InstanceSync` on top of them |
| `PITRStreamProofs`, `MonitoringProofs`, `ClusterSpecProofs` | theorems about the module each is named after |
| `MC*` | the modules TLC runs on |

A handler is a sequence of steps, one per request. `work[n].pc` is the next
request and the rest of `work[n]` what the handler has read; `idle` means no
handler runs. The runtime runs one handler per object at a time. In `Backups`:

| Action | Code |
|---|---|
| `SyncBackup`, `SyncGet` | the Backup is read; `Get` of the operator backup, and of the cluster when there is none |
| `SyncCreate` | `Create`, with the second `Get` after AlreadyExists |
| `SyncPatch` | finalizer, controller reference, merge patch, state |
| `SyncReport` | the runtime stores the returned state |
| `CleanupBackup`, `CleanupGet`, `CleanupRemoveFinalizer`, `CleanupDelete`, `CleanupDone` | the clean-up, one branch each |
| `Mirror`, `MirrorCreates` | what `Mirror` answers for an operator backup; the creation by the runtime, later |
| `Interrupt` | a restart, or a request that fails and ends the handler with an error |

`Restores` has the same shape, with `SyncResolve` and, for a point in time,
`SyncGetBase` first. In `InstanceSync` the steps are `SyncPXC` (active-restore
check), `ensureDataSourceCredentials`, `dataSourceInstanceName`, `GetSourceSecret`
and `copyCredentials` (one request each), `SyncApply`, the gate
(`SyncGateMisses`, `SyncGateWaits`, `ReconcileDataSource`), then `StatusPXC`,
`StatusList` and `buildConnectionDetails` for the three reads of the status, and
`WriteStatus` by the runtime. `SyncApply` is the Apply alone; the building of the
spec before it, with its errors, is `ClusterSpec`. A reconcile begins only
when the Instance is `queued`: a Restore that changes queues it
(`enqueueRestoreInstance`), a cluster that changes its status does not.

`ClusterSpec` has the pure part of `SyncPXC`. `render` is the spec it builds and
`syncReasons` the ways in which it may stop before; both are made of one operator
per function of the code (`defaultConfigurationForEngine`, `unsafeFlags`,
`engineImage`, `applyBackupSettings`, `buildPXCRetention` ...). `Sync` is one
step, because its only write is the Apply at its end. `Write` applies
`Validate` unless the webhook is down; `Sync` applies it always, and applies no spec
while a Restore is active. What `applyMonitoring` and `ensureDataSourceCredentials`
may answer is in `env.rest`. Edits and Restores queue the Instance; the objects around it
(class, storages, catalog) do not.

`Monitoring` splits a reconcile into the read of the live cluster
(`applyMonitoring`), the read of the requirements (`RequiredSources`), the
decision (`applyPMM`: `dropPMM`, `holdPMM` or the list of bindings), the read of the
credentials (`renderPMM`), the patch of the secret (`syncPMMServerToken`), the copy of the
source's secret (`ensureDataSourceCredentials`) unless the exporter has no image
(`ExporterFails`), the Apply and the publication of endpoints
(`MonitoringSources`). Bindings, requirements, tokens and the image change in between, and
any read may return the version before the last write. The applied spec is
reduced to the PMM server and to whether there is an exporter.

`OneShot` is what users rely on: `Request`, `Start`, `Proceed`, `End`, `Report`,
`Close`, `Drop`, `Forget`. `Backups` and `Restores` implement it, each under a
refinement mapping at its end: `job` is the Backup (or Restore) as its user sees
it, `ran` the state of the operator's object. It forbids a verdict that
changes, a verdict that is not the operator's, work that begins for a reported
job, and a job that is forgotten while its work is there. Restores may also be
rejected without having run (`MayReject`). When a user deletes an operator backup
directly, `Tamper` voids the promise; `NoOrphan` and `DeletedDataIsPurged` still hold.

API semantics that matter are modelled by what they do: a merge patch carries
only the difference between what was read and what is wanted; an `Update` fails
when the object has changed; a deletion waits for finalizers; the removal of the
last finalizer of a deleted object removes it; a new finalizer on a deleted
object is refused; `SetControllerReference` refuses an object of another owner.

The Percona operator, the garbage collector, the runtime and users are external:
they are modelled from what the code expects of them, and marked so in the map.
History variables (`retained`, `doomed`, `ended`, `applied`, `gaps`, `strays`)
record what properties speak about and are never read by an action's guard, but
for `CompletionTimes` in `PITRStream`, which keeps clock values distinct.

Definitions commented as mutants are broken variants of the definition that
follows them. No specification uses them; each is put in the place of the
original to see that the properties notice.

## Runs

| Run | Shows |
|---|---|
| `PITRStream` | distinct completion times, marks removed oldest first: a window spans no gap, and each of its points has a clean base once the Backup it begins with is reported, however far the others lag |
| `BackupsOnDemand` | no orphan and no data left behind, also when an operator backup is deleted directly; the handlers implement `OneShot` |
| `BackupsCron` | scheduled backups, with and without the name of their schedule: retained data stays under two policy changes, everything ends |
| `BackupsStale` | with and without a lagging cache: verdicts are real and everything ends |
| `Restores` | late sources, deletions, a name used again: success is real, base pinned, outcomes reported; the handlers implement `OneShot` |
| `RestoresStale` | with a lagging cache and sources that go: success is real, applied once, deletions end |
| `InstanceSync` | seeding, or a user's Restore: credentials match, the restore is not premature, a running restore counts as active and meets one Apply at most, a Ready that is out of date is corrected, Ready is reached |
| `Monitoring` | PMM and sidecar change only by a resolved requirement, the token fits the server, both settle on what is required |
| `ClusterSpec` | what is applied can run (the operator accepts it, preset and PMM client fit the pod); no edit is lost, also one made during a Restore |

Three runs end in a violation; each contrasts a sentence of the code's comments or
documents with what the code does (details under `findings` in `PROJECT.json`):

| Run | What happens |
|---|---|
| `RestoresSourceGone` | source deleted under way: the Restore stays Pending although the operator restore ended |
| `InstanceLateSource` | source Backup appears after the first Apply: the secret is made up, the seeded cluster cannot log in |
| `ClusterSpecUnsupported` | time retention and an empty list of storages pass the webhook and fail every reconcile (`backup_mirror.go:251`, `264`); the repository's README: "an invalid `Instance` is rejected when it is written" |

The assumptions behind the passing runs are necessary, as TLC shows when a switch
is turned on in the configuration, a premise is taken out of a property, or a
property that no run checks is added to one:

| Change | Refuted | What happens |
|---|---|---|
| `OfferedPointIsRestorable` in `PITRStream` | itself | the window is read from operator backups, the base from Backup resources; until the Backup that the window begins with is reported, a point of it has no base, or one before the gap (`backup.go:483`; the comment at `backup_status.go:111`: "a client reading only the window must never be offered a point it cannot restore") |
| `SameSecond = TRUE` in `PITRStream` | `PublishedWindowSpansNoGap` | two backups of one second, unstable sort: the window begins at the second of a marked backup (`backup_status.go:82`) |
| `MarkedMayGo = TRUE` in `PITRStream` | `PublishedWindowSpansNoGap` | a marked backup is deleted while an older one is kept (by its user, or by the retention of another schedule on the storage): the mark goes with it and the next window spans the gap (`backup_status.go:123`), against the same comment |
| `StaleReads = TRUE` in `BackupsOnDemand` | `NoOrphan` | a stale NotFound ends the clean-up while the operator backup exists; the garbage collector takes it later (`backup.go:514`) |
| `MayDelete = TRUE` in `InstanceSync` | `RunningRestoreIsActive`, `OneStrayApplyAtMost` | a Restore under deletion is not active although its operator restore runs (`backup.go:595`) |
| `SourcesMayGo = TRUE` in `InstanceSync` | the same two | the operator backup of the base is deleted and made again, and fails this time: the Restore is reported Failed while its operator restore runs (`backup.go:416`) |
| `HoldRule` without `sync.live = cluster` | itself | the cluster is read before the last Apply has reached the cache; the hold rule then applies what was live before it (`monitoring_sources.go:104`) |
| `TokenFitsServer` without `~torn` | itself | a reconcile stops between the patch of the secret and the Apply: the agent keeps the old server with the new token until the next one (`monitoring_sources.go:152`) |
| `PublishedIsServed` in `Monitoring` | itself | the exporter's endpoint is published once the spec has the sidecar, before the pods have rolled (`monitoring_sources.go:70`) |

Two more things a reader should know. An engine version that a later release of
the provider does not list falls back to the default image without a word
(`provider.go:278`). And `ClusterFollows` assumes that the Restore ends: with
`RestoresSourceGone` it may not, and `SyncPXC` then applies nothing any more
(`provider.go:158`).

### Bounds

- One name in `Backups` and `Restores`: objects of different names meet only in
  the cluster. `MaxUID = 2` lets the name be used again, which is what ownership
  and orphan properties need. `MaxUID = 1` in `BackupsCron`: the operator gives every
  cron backup a name of its own. `InstanceSync` has one Restore, the seeding one or
  a user's; any number of them at a time is left to the theorems.
- `MaxRestarts = 1`: an interruption forgets only `work`, so a second one reaches
  no state the first could not reach at another moment.
- `MaxPolicyChanges`: 2 where policy matters (there and back), 1 beside stale reads, 0 for
  `DeletedDataIsPurged`, which speaks of fixed policies.
- `MaxDirectDeletes = 1` in `BackupsOnDemand`, 0 elsewhere: a user who deletes the
  operator backup leaves a state like that before its creation.
- `Monitoring`: two servers and `MaxChanges = 2` let a requirement change and a
  server or a token change after it within one reconcile; `MaxFaults = 1` puts one restart,
  failed request, failed pod or stale read anywhere. `HAProxyEnabled = TRUE` is the case with two
  endpoints.
- `ClusterSpec`: memory and replicas take the values around each boundary of the
  code. `MaxEdits = 2` with `MaxOutages = 1` let a setting be made, fail, and be
  taken back, and `MaxRestores = 1` puts a Restore before, between or after the edits.
  Two storages are needed for PITR on both.
- `PITRStream`: three backups and three seconds give the shape marked, marked or
  clean, clean, on one PITR storage, with a second storage to mix up.
- `SourcesMayGo`, `SourcesMayCome`, `MayDelete`, `StaleReads`, `SameSecond`,
  `MarkedMayGo`, `SourceSecretMayGo`, `WebhookMayBeDown` switch an environment on; a
  passing run with a switch off says under which assumption the property holds,
  and the table above shows that the assumption is needed.
- The runs have between 80 000 and 1.4 million distinct states and take from half
  a minute to four minutes.
- Deadlock is checked in `ClusterSpec`, where an Instance can always be queued, and not
  elsewhere: users owe nothing and every counter is bounded, so the
  system may rest.

### Fairness

- `Backups`: a handler that is `Owed` goes on. The runtime continues a call it has
  begun, and calls again for a Backup without a verdict or under deletion: that is what the
  states Pending and "not done" returned to it are for (`backup.go:95-99`,
  `505`). Nothing is assumed about a Backup that has a verdict: it may be synced again or not.
- `Restores`: the same, until the Restore is terminal. `RestoreHandlerSpec` of
  `RestoresStale` has fairness for the handlers, the operator's release of a deleted
  restore and the cache alone: no backup and no restore has to end.
- Operator, collector and cache keep working; cluster and storages appear, because the
  Instance reconciler keeps trying.
- `InstanceSync` and `ClusterSpec`: the runtime takes a *queued* Instance and sees
  its reconcile through (weak fairness on `Reconcile`, `Sync`). Nothing says that an
  Instance is queued, but the watch on Restores and the edits; without that watch
  `ReadyInTheEnd` and `ClusterFollows` fail, as their mutants show. In particular a change of
  the cluster's status queues nothing (`provider.go:567`). A restart or a failed
  request queues the Instance of `InstanceSync` again; an error that a reconcile of
  `ClusterSpec` returns may or may not (`OtherEvent`).
- `Monitoring` assumes that reconciles recur (weak fairness on `Reconcile`), that
  the operator makes the secret and rolls the pods. What makes them recur, the runtime's
  watches on bindings and destinations, is not in this repository.
- None on users, schedules, `Mirror`, interruptions, pods, losses of readiness and the
  appearance of source Backups.

## Proofs

Every invariant and every action property that a passing run checks is also a theorem,
for every value of the constants, and so are both refinements of `OneShot`.
A hypothesis of a theorem is a switch that its run has turned off, too.

| Theorem | Shows | Hypotheses |
|---|---|---|
| `TypeCorrect` | `TypeOK` of `Backups` | none |
| `RetainKept` | `RetainedDataIsKept` | no stale reads |
| `OwnerStays` | `NoOrphan` | no stale reads |
| `VerdictsAreReal` | `VerdictIsReal` | none |
| `DoomedIsPurged` | `DeletedDataIsPurged` | no stale reads, no schedules, fixed policies |
| `BackupsImplementOneShot` | `BackupIsOneShot` | no stale reads |
| `RestoreTypeCorrect` | `RestoreTypeOK` | none |
| `RestoreAppliedOnce` | `AppliedAtMostOnce` | none |
| `RestoreSuccessIsReal` | `SucceededRestoreWasApplied` | none |
| `OpRestoresArePinned` | `OpRestoreIsPinned` | none |
| `RestoresImplementOneShot` | `RestoreIsOneShot` | no stale reads, no Backup or operator backup goes under a Restore |
| `RunningRestoresAreActive`, `RunningStaysActive` | `RunningRestoreIsActive`, of `Restores` and of `InstanceSync` | as above, and nobody deletes a Restore |
| `InstanceTypeCorrect` | `TypeOK` of `InstanceSync` | none |
| `SeedNotPremature` | `SeedIsNotPremature` | none |
| `SeededAuthenticates` | `SeededClusterAuthenticates` | sources do not come late |
| `OneStrayAtMost` | `OneStrayApplyAtMost` | as `RunningStaysActive` |
| `ReadyCorrected` | `ReadyIsCorrected` | none |
| `MonitoringTypeCorrect`, `TokensFit`, `HoldsWhileUnresolved` | `TypeOK` of `Monitoring`, `TokenFitsServer`, `HoldRule` | none |
| `ClusterTypeCorrect`, `AppliedRuns` | `TypeOK` of `ClusterSpec`, `AppliedCanRun` | none |
| `StreamTypeCorrect` | `TypeOK` of `PITRStream` | none |
| `WindowsSpanNoGap` | `PublishedWindowSpansNoGap` | no two completions in one second, marked backups go after older ones |
| `ReportedStartsAreRestorable` | `ReportedStartIsRestorable` | as above |

The assumptions on constants are the named `ASSUME`s of the modules, which TLC
evaluates in every run: special values differ from ordinary ones, bounds are natural
numbers, switches are Boolean. Finite are the sources of `Restores` (so that a newest
candidate exists), the storages of `ClusterSpec` and the names of `PITRStream`: the code
gets each of them as a list. `Monitoring` has at least one server and `ClusterSpec`
one storage.

That the hypotheses are needed is shown by TLC, for some in the table under Runs,
for the others thus: each of the three of `DoomedIsPurged` has a counterexample
without it; `RetainedDataIsKept` and both `IsOneShot` fail with stale reads, and `RestoreIsOneShot`
when an operator backup may go under a Restore. One hypothesis is inherited and
perhaps too strong: TLC finds no violation of `OneStrayApplyAtMost` with stale reads on small
instances.

### Backups

`RetainedDataIsKept` and `NoOrphan` are not inductive. `IndInv` adds, per name: the Backup a
handler works on is the one that exists (`Snapshot`); a clean-up works on a
deleted Backup and has seen its final policy (`CleanupSnapshot`), because the
policy of a deleted Backup cannot change; a clean-up that is done has seen its
operator backup gone (`CleanedGone`); data to be retained belongs to a Backup
deleted with Retain whose operator backup nobody has begun to delete
(`KeptHeld`); and when the clean-up is about to delete it, the finalizer is off
(`DeleteSafe`). The last needs that uids of operator backups are never used
again (`Fresh`); `MaxOpUID` leaves room for one more per direct deletion. `Owned`
is `NoOrphan` without the existence premise. `InvStep`
has one case per action, `DeleteOpBackup` by a user included; `Others` deals with the
names a step does not touch.

`BackupsVerdictProofs` cannot use `IndInv`, which stale reads break. `VerdictInv`
orders in time instead: what the cache holds or a handler has read was created for
the present Backup or an earlier one (`Lineage`). So a patch that the API server
does not refuse has met the operator backup of its own Backup, and a verdict on
its way to the user has a record of the end it came from (`Reported`). `PurgeInv` is about fixed policies: the finalizer
says what the policy says, in every read as in the object, so an operator backup
whose data is to go leaves only through the purge.

`BackupsRefinement` shows that the initial states map to initial states of `OneShot`
and every step to a step or a stutter, one case per action. It needs `Agreement`: the
state of the Backup, the state about to be reported and that of the operator backup
agree as soon as one is a verdict.

### Restores and the Instance

`RestoreInv` has the same ordering (`Lineage`) and, beside it, that an operator
restore has the target and a base that suits its Restore (`Based`; what suits once
suits for good, which is why a base resolved long before may still be used), that a success on its way
has its record (`Told`), and that nothing has run yet for a Restore that may still
create its operator restore (`Once`): this is what `AppliedAtMostOnce` comes down to.
None of it depends on the cache. The refinement does: `Agreement` says
that an operator restore belongs to the Restore that exists and that a verdict is
founded on it, or on a source from which nothing can begin any more.

Every step of `InstanceSync` is, for the Restores, a step of `Restores` or leaves them
alone (`RestoreMoves`), so `RestoreInv` and `Agreement` hold there without a new proof.
`Engaged` adds that the seeding Restore exists only for a cluster with a data
directory, `Credentials` that the source's secret is in place before the first
Apply and stays, `Strays` that a restore that has met an Apply meets no reconcile
on its way to another. `Noticed` says that a Restore which is active while the
phase is Ready, or is about to be written so, has left its trace in the queue or in
the running reconcile; it needs nothing of the rest, and so `ReadyCorrected` holds
with stale reads and deletions too.

### PITR windows

`gaps`, the marks that ever were, is history: the code sees only the backups that
are left. `Remembered` connects the two: each mark is still carried by a backup of
the stream, or the whole stream is newer than it. It needs that completion times
are distinct (`Distinct`) and not in the future (`Past`). From it, and what
`lastMarked` and the sorted list give (`WindowOfStream`), follows `WindowStart`. For a point of
the window the newest candidate is not older than the window's start, hence clean;
that there is a newest one is `HasGreatest`, and that there is a candidate at
all follows from the one Backup that `StartReported` asks for.

### Monitoring and ClusterSpec

`Carried` follows the token: unless something is torn it fits the live server; a
token about to be written fits the server about to be applied, and once written
fits until the Apply. `Held` carries the requirement that was read to the Apply
that acts on it. In `ClusterSpec` a spec is rendered from an Instance that was
validated in the same step, so the work is in lemmas about the operators: what
`Validate` lets through, and what `render` makes of it at each boundary.

### Only model-checked

Liveness, which needs fairness and is out of the prover's reach: `BackupEnds`,
`DeletionEnds`, `OutcomeIsReported`, `RestoreDeletionEnds`, `ReadyInTheEnd`,
`MonitoringConverges`, `ClusterFollows`.

## Not modelled

- `CleanupPXC`, a single delete.
- Text and data that no decision depends on: the contents of the presets, pmm-admin
  labels and URLs, the exporter's container, scheduling rules, expose settings, the
  proxy's image, decoding of component parameters, connection strings, labels and
  messages. A decoding error ends a reconcile like any failed request.
- `resolveBackupBucket` and the path in the bucket; a storage entry without `storageRef`
  (`backup_mirror.go:187`), which the schema of the Instance excludes.
- Whether the runtime calls `SyncBackup` after a success, and whether it tries a failed
  reconcile again: both may happen in the models, and nothing relies on them.
- What the runtime shows for a reconcile that ends in an error.
- A cache that lags on Backups or Restores rather than on operator objects, secrets
  and clusters.
- Wiring (`main.go`, RBAC markers), generated code, charts.

## Plan

1. Proofs: `OneStrayApplyAtMost` with stale reads; what holds of `HoldRule` and
   `TokenFitsServer` when a read is stale or a reconcile is torn; safety parts of the
   liveness properties (what is still enabled as long as something is owed).
2. Composition of `Backups` and `Restores` in place of the abstract sources.
3. Two Instances on one storage, with the paths of `resolveBackupBucket`.
