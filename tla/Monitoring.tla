----------------------------- MODULE Monitoring -----------------------------
(* What SyncPXC renders for monitoring (internal/provider/                    *)
(* monitoring_sources.go, pmm.go, metrics.go): spec.pmm and the exporter      *)
(* sidecar from what the runtime requires, the server's token in the users    *)
(* secret, and the endpoints that MonitoringSources publishes.                *)
(*                                                                            *)
(* One Instance. A reconcile takes one step per request and keeps in sync     *)
(* what it has read; the requirements, the binding, the tokens, the operator  *)
(* and the pods move in between. A PMM server stands for the whole spec.pmm   *)
(* rendered from it, its resources included.                                  *)
EXTENDS Integers

CONSTANTS
    Servers,       \* PMM servers, one per MonitoringDestination
    Off,           \* no spec.pmm
    NoToken,
    Foreign,       \* the token of the source Instance's server, in a copied secret
    MaxChanges,    \* bound on changes of requirements, bindings and tokens
    MaxFaults,     \* bound on restarts, failed requests, failed pods and stale reads
    HAProxyEnabled \* TRUE: the proxy is HAProxy, which serves metrics; ProxySQL does not

ASSUME ServersAssumption == Servers # {} /\ Off \notin Servers /\ Foreign \notin Servers
ASSUME MonitoringBounds == {MaxChanges, MaxFaults} \subseteq Nat
ASSUME MonitoringSwitch == HAProxyEnabled \in BOOLEAN

VARIABLES
    need,       \* RequiredSources: of PMM and of metrics
    binding,    \* the first pmm binding to Apply: its server (Off: none), and can it be rendered?
    version,    \* [Servers -> the current version of the server's token]
    dataSource, \* is the Instance seeded from another one?
    image,      \* does the provider's spec have an image for the exporter?
    cluster,    \* the PerconaXtraDBCluster, as far as monitoring goes
    secret,     \* the users secret
    old,        \* the versions of cluster and secret before the last write of each
    pods,       \* do the engine pods run the exporter? ready pods of engine and proxy
    published,  \* status.monitoring.sources
    sync,       \* the running reconcile and what it has read
    left,       \* changes and faults still allowed
    torn        \* history: server and token may be from different reconciles or reads

envVars == <<need, binding, version, dataSource, image>>
vars == <<need, binding, version, dataSource, image, cluster, secret, old, pods, published,
          sync, left, torn>>

Requirement == {"Required", "NotRequired", "Unresolved"}
Token == (Servers \X (0..MaxChanges)) \cup {NoToken, <<Foreign, 0>>}
Component == {"engine", "proxy"}

Cluster == [exists : BOOLEAN, pmm : Servers \cup {Off}, exporter : BOOLEAN]
Secret == [exists : BOOLEAN, token : Token]
NoCluster == [exists |-> FALSE, pmm |-> Off, exporter |-> FALSE]
NoSecret == [exists |-> FALSE, token |-> NoToken]
NoOld == [cluster |-> NoCluster, secret |-> NoSecret]

NoBinding == [server |-> Off, ok |-> TRUE]
NoNeed == [pmm |-> "NotRequired", metrics |-> "NotRequired"]
NoSync == [pc |-> "idle", live |-> NoCluster, need |-> NoNeed, pmm |-> Off,
           token |-> NoToken, wrote |-> FALSE]

Init ==
    /\ need \in [pmm : Requirement, metrics : {"NotRequired"}]
    /\ binding = [server |-> CHOOSE s \in Servers : TRUE, ok |-> TRUE]
    /\ version = [s \in Servers |-> 0]
    /\ dataSource \in BOOLEAN
    /\ image \in BOOLEAN
    /\ cluster = NoCluster
    /\ secret = NoSecret
    /\ old = NoOld
    /\ pods = [exporter |-> FALSE, ready |-> {}]
    /\ published = {}
    /\ sync = NoSync
    /\ left = [changes |-> MaxChanges, faults |-> MaxFaults]
    /\ torn = FALSE

-----------------------------------------------------------------------------
(* Users and the monitoring controllers (external).                           *)

Change ==
    /\ left.changes > 0
    /\ left' = [left EXCEPT !.changes = @ - 1]
    /\ UNCHANGED <<dataSource, image, cluster, secret, old, pods, published, sync, torn>>

RequirementChanges ==
    /\ Change
    /\ \E of \in {"pmm", "metrics"}, r \in Requirement : need' = [need EXCEPT ![of] = r]
    /\ need' # need
    /\ UNCHANGED <<binding, version>>

BindingChanges ==
    /\ Change
    /\ \/ \E s \in Servers, ok \in BOOLEAN : binding' = [server |-> s, ok |-> ok]
       \/ binding' = NoBinding
    /\ binding' # binding
    /\ UNCHANGED <<need, version>>

TokenRotates(s) ==
    /\ Change
    /\ version' = [version EXCEPT ![s] = @ + 1]
    /\ UNCHANGED <<need, binding>>

(* Reads are answered by a cache, which may be one write behind. Old versions *)
(* are kept while a stale read is still allowed.                              *)
WriteSecret(s) ==
    /\ secret' = s
    /\ old' = IF left.faults = 0 THEN NoOld
              ELSE IF s = secret THEN old ELSE [old EXCEPT !.secret = secret]

WriteCluster(k) ==
    /\ cluster' = k
    /\ old' = IF left.faults = 0 THEN NoOld
              ELSE IF k = cluster THEN old ELSE [old EXCEPT !.cluster = cluster]

Reads(now, before) == {now} \cup (IF left.faults > 0 THEN {before} ELSE {})

Spend(read, now) == left' = IF read = now THEN left ELSE [left EXCEPT !.faults = @ - 1]

(* The Percona operator (external): it creates the users secret when there is *)
(* none, rolls the pods to the spec, and the pods come and go.                *)
OperatorMakesSecret ==
    /\ cluster.exists /\ ~secret.exists
    /\ WriteSecret([exists |-> TRUE, token |-> NoToken])
    /\ UNCHANGED <<envVars, cluster, pods, published, sync, left, torn>>

OperatorRolls ==
    /\ pods.exporter # cluster.exporter
    /\ pods' = [pods EXCEPT !.exporter = cluster.exporter]
    /\ UNCHANGED <<envVars, cluster, secret, old, published, sync, left, torn>>

PodsGetReady(c) ==
    /\ cluster.exists /\ c \notin pods.ready
    /\ pods' = [pods EXCEPT !.ready = @ \cup {c}]
    /\ UNCHANGED <<envVars, cluster, secret, old, published, sync, left, torn>>

PodsFail(c) ==
    /\ c \in pods.ready /\ left.faults > 0
    /\ left' = [left EXCEPT !.faults = @ - 1]
    /\ pods' = [pods EXCEPT !.ready = @ \ {c}]
    /\ UNCHANGED <<envVars, cluster, secret, old, published, sync, torn>>

-----------------------------------------------------------------------------
(* SyncPXC: applyMonitoring, the copy of the source's secret, and the Apply.  *)

Step(s) ==
    /\ sync' = s
    /\ UNCHANGED <<envVars, cluster, pods, published>>

(* The live cluster is read once, before the requirements.                    *)
applyMonitoring ==
    /\ sync.pc = "idle"
    /\ \E live \in Reads(cluster, old.cluster) :
          /\ Step([NoSync EXCEPT !.pc = "require", !.live = live])
          /\ Spend(live, cluster)
    /\ UNCHANGED <<secret, old, torn>>

RequiredSources ==
    /\ sync.pc = "require"
    /\ Step([sync EXCEPT !.pc = "pmm", !.need = need])
    /\ UNCHANGED <<secret, old, left, torn>>

(* An unresolved requirement stays as it is live.                             *)
Else(required, live) ==
    \/ required = "Required"
    \/ required = "Unresolved" /\ live

(* The next request after applyPMM has settled spec.pmm. A token to mirror,   *)
(* or to drop, is written first.                                              *)
Settle(pmm) == Step([sync EXCEPT !.pc = "seed", !.pmm = pmm])
Mirror(pmm, token) == Step([sync EXCEPT !.pc = "token", !.pmm = pmm, !.token = token])

keepLivePMM == Settle(sync.live.pmm)

(* Mutant of dropPMM: the token is left behind.                               *)
dropPMMOnly ==
    /\ ~Else(sync.need.pmm, sync.live.pmm # Off)
    /\ Settle(Off)

dropPMM ==
    /\ ~Else(sync.need.pmm, sync.live.pmm # Off)
    /\ Mirror(Off, NoToken)

holdPMM ==
    /\ sync.need.pmm = "Unresolved" /\ sync.live.pmm # Off
    /\ keepLivePMM

(* The bindings are read now, later than the requirements.                    *)
MonitoringBindings ==
    /\ sync.need.pmm = "Required"
    /\ IF binding.server = Off THEN keepLivePMM
       ELSE Step([sync EXCEPT !.pc = "credentials", !.pmm = binding.server])

applyPMM ==
    /\ sync.pc = "pmm"
    /\ dropPMM \/ holdPMM \/ MonitoringBindings
    /\ UNCHANGED <<secret, old, left, torn>>

(* Mutant of renderPMM: what cannot be rendered turns PMM off.                *)
renderPMMOrNothing ==
    /\ sync.pc = "credentials"
    /\ IF binding.server = sync.pmm /\ ~binding.ok THEN Settle(Off)
       ELSE Mirror(sync.pmm, <<sync.pmm, version[sync.pmm]>>)
    /\ UNCHANGED <<secret, old, left, torn>>

(* The token is read last.                                                    *)
renderPMM ==
    /\ sync.pc = "credentials"
    /\ IF binding.server = sync.pmm /\ ~binding.ok THEN keepLivePMM
       ELSE Mirror(sync.pmm, <<sync.pmm, version[sync.pmm]>>)
    /\ UNCHANGED <<secret, old, left, torn>>

(* The end of syncPMMServerToken, after the patch of the secret, if any.      *)
TokenDone ==
    /\ Step([sync EXCEPT !.pc = "seed", !.token = NoToken,
                          !.wrote = ~secret'.exists \/ secret'.token = sync.token])
    /\ torn' = TRUE

(* Mutants of syncPMMServerToken: the server is written in place of its       *)
(* token; a token that is there is not replaced.                              *)
syncPMMServerTokenHost ==
    /\ sync.pc = "token"
    /\ WriteSecret(IF secret.exists THEN [secret EXCEPT !.token = sync.pmm] ELSE secret)
    /\ TokenDone
    /\ UNCHANGED left

syncPMMServerTokenOnce ==
    /\ sync.pc = "token"
    /\ WriteSecret(IF secret.exists /\ NoToken \in {sync.token, secret.token}
                   THEN [secret EXCEPT !.token = sync.token] ELSE secret)
    /\ TokenDone
    /\ UNCHANGED left

(* Without a secret there is nothing to update. The patch carries the token   *)
(* only, and only when it differs from what was read.                         *)
syncPMMServerToken ==
    /\ sync.pc = "token"
    /\ \E read \in Reads(secret, old.secret) :
          /\ WriteSecret(IF read.exists /\ read.token # sync.token
                         THEN [secret EXCEPT !.token = sync.token] ELSE secret)
          /\ Spend(read, secret)
    /\ TokenDone

(* The exporter needs an image. Without one the reconcile ends with an error, *)
(* the token written already and nothing applied.                             *)
applyMetricsExporter(live, required) == Else(required, live.exporter)

ExporterFails ==
    /\ sync.pc = "seed"
    /\ applyMetricsExporter(sync.live, sync.need.metrics) /\ ~image
    /\ Step(NoSync)
    /\ UNCHANGED <<secret, old, left, torn>>

(* The copied secret holds all that the source's secret held, its token too.  *)
(* A secret that exists after all is not overwritten, and none is copied      *)
(* while the source cannot be resolved.                                       *)
ensureDataSourceCredentials ==
    /\ sync.pc = "seed"
    /\ applyMetricsExporter(sync.live, sync.need.metrics) => image
    /\ \E read \in Reads(secret, old.secret) :
          /\ \/ /\ dataSource /\ ~read.exists /\ ~secret.exists
                /\ \E t \in {NoToken, <<Foreign, 0>>} : WriteSecret([exists |-> TRUE, token |-> t])
             \/ UNCHANGED <<secret, old>>
          /\ Spend(read, secret)
    /\ Step([sync EXCEPT !.pc = "apply"])
    /\ UNCHANGED torn

SyncApply ==
    /\ sync.pc = "apply"
    /\ WriteCluster([exists |-> TRUE, pmm |-> sync.pmm,
                     exporter |-> applyMetricsExporter(sync.live, sync.need.metrics)])
    /\ sync' = [NoSync EXCEPT !.pc = "sources"]
    /\ torn' = (~sync.wrote /\ (torn \/ sync.live # cluster))
    /\ UNCHANGED <<envVars, secret, pods, published, left>>

(* The end of MonitoringSources: the runtime keeps what it returned.          *)
Publish(components) ==
    /\ published' = components
    /\ sync' = NoSync
    /\ UNCHANGED <<envVars, cluster, secret, old, pods, torn>>

(* The exporter counts as carried when the spec has it. The runtime asks once *)
(* Sync is done.                                                              *)
MonitoringSources ==
    /\ sync.pc = "sources"
    /\ \E live \in Reads(cluster, old.cluster) :
          /\ Publish({c \in pods.ready : live.exists /\ IF c = "engine" THEN live.exporter
                                                                      ELSE HAProxyEnabled})
          /\ Spend(live, cluster)

(* A restart, or a request that fails: the reconcile is forgotten.            *)
Interrupt ==
    /\ sync.pc # "idle" /\ left.faults > 0
    /\ left' = [left EXCEPT !.faults = @ - 1]
    /\ sync' = NoSync
    /\ UNCHANGED <<envVars, cluster, secret, old, pods, published, torn>>

Reconcile ==
    \/ applyMonitoring \/ RequiredSources \/ applyPMM \/ renderPMM \/ syncPMMServerToken
    \/ ExporterFails \/ ensureDataSourceCredentials \/ SyncApply \/ MonitoringSources

Next ==
    \/ RequirementChanges \/ BindingChanges \/ \E s \in Servers : TokenRotates(s)
    \/ OperatorMakesSecret \/ OperatorRolls
    \/ \E c \in Component : PodsGetReady(c) \/ PodsFail(c)
    \/ Reconcile \/ Interrupt

Spec == Init /\ [][Next]_vars

(* The runtime reconciles again and again; the operator keeps working.       *)
FairSpec ==
    /\ Spec
    /\ WF_vars(Reconcile)
    /\ WF_vars(OperatorMakesSecret) /\ WF_vars(OperatorRolls)

-----------------------------------------------------------------------------
(* Every variable has its type.                                               *)
TypeOK ==
    /\ need \in [pmm : Requirement, metrics : Requirement]
    /\ binding \in [server : Servers \cup {Off}, ok : BOOLEAN]
    /\ version \in [Servers -> 0..MaxChanges]
    /\ dataSource \in BOOLEAN
    /\ image \in BOOLEAN
    /\ cluster \in Cluster
    /\ secret \in Secret
    /\ old \in [cluster : Cluster, secret : Secret]
    /\ pods \in [exporter : BOOLEAN, ready : SUBSET Component]
    /\ published \subseteq Component
    /\ sync \in [pc : {"idle", "require", "pmm", "credentials", "token", "seed", "apply", "sources"},
                 live : Cluster,
                 need : [pmm : Requirement, metrics : Requirement],
                 pmm : Servers \cup {Off}, token : Token, wrote : BOOLEAN]
    /\ left \in [changes : 0..MaxChanges, faults : 0..MaxFaults]
    /\ torn \in BOOLEAN

(* "keeps the live spec.pmm while that is unresolved (hold rule). A binding   *)
(* whose inputs cannot be rendered ... keeps the live spec.pmm too"           *)
(* (monitoring_sources.go:121-124) and "While that is unresolved the sidecar  *)
(* stays as live, so the pods do not roll twice" (metrics.go:39-41): an Apply *)
(* changes PMM or the sidecar of a cluster only because the requirement was   *)
(* resolved, and PMM only to what a binding renders or to nothing at all. The *)
(* one exception is a reconcile that has read the cluster before the last     *)
(* Apply got to its cache: it holds what is no longer live.                   *)
HoldRule ==
    [][cluster.exists /\ sync.live = cluster =>
          /\ cluster'.pmm # cluster.pmm =>
                \/ sync.need.pmm = "NotRequired" /\ cluster'.pmm = Off
                \/ sync.need.pmm = "Required" /\ cluster'.pmm # Off
          /\ cluster'.exporter # cluster.exporter =>
                cluster'.exporter = (sync.need.metrics = "Required")]_vars

(* syncPMMServerToken "mirrors token into the users Secret, where the         *)
(* operator reads it, or removes the mirror" (pmm.go:135-137) before the      *)
(* Apply. Between reconciles the agent is not given the token of another      *)
(* server, and there is none when PMM is off, unless the reconcile that wrote *)
(* it stopped before its Apply or worked from an old version, or the secret   *)
(* is a copy of the source Instance's.                                        *)
TokenFitsServer ==
    /\ sync.pc \in {"sources", "idle"} /\ ~torn
    /\ secret.token \notin {NoToken, <<Foreign, 0>>}
    => cluster.pmm = secret.token[1]

(* PMM follows its requirement once that stays: it is turned off together     *)
(* with its token, or runs against the server of the binding with the current *)
(* token, whatever was interrupted, copied or rotated before. (MaxChanges     *)
(* bounds the changes, so the binding and its token settle as well.) It does  *)
(* not follow while metrics are required that there is no exporter image for: *)
(* then every reconcile fails before its Apply (metrics.go:47-50).            *)
Renderable == image \/ need.metrics # "Required"

MonitoringConverges ==
    /\ <>[](need.pmm = "NotRequired" /\ Renderable)
          => <>[](cluster.pmm = Off /\ secret.token = NoToken)
    /\ <>[](need.pmm = "Required" /\ binding.ok /\ binding.server # Off /\ Renderable)
          => <>[](\E s \in Servers : /\ binding.server = s /\ cluster.pmm = s
                                     /\ secret.token = <<s, version[s]>>)

(* "while the engine pods carry the mysqld_exporter sidecar, the exporter's"  *)
(* (monitoring_sources.go:56-59): the endpoint of the exporter is only        *)
(* published when the pods run it.                                            *)
PublishedIsServed ==
    [][published' # published /\ "engine" \in published' => pods.exporter]_vars
=============================================================================
