-------------------------- MODULE MonitoringProofs --------------------------
(* Theorems about Monitoring, for every set of servers and every bound on     *)
(* changes and faults.                                                        *)
EXTENDS Monitoring, TLAPS

(* The types of the two records that most steps rewrite.                      *)
Memory ==
    [pc : {"idle", "require", "pmm", "credentials", "token", "seed", "apply", "sources"},
     live : Cluster,
     need : [pmm : Requirement, metrics : Requirement],
     pmm : Servers \cup {Off}, token : Token, wrote : BOOLEAN]
Budget == [changes : 0..MaxChanges, faults : 0..MaxFaults]

(* A token is rotated only as often as changes are left.                      *)
Rotations == \A s \in Servers : version[s] + left.changes <= MaxChanges

(* Tokens that no server is blamed for, and tokens of the server that is set. *)
Ownerless == {NoToken, <<Foreign, 0>>}
Fits(token, server) == token \in Ownerless \/ token[1] = server

(* Where the token in the secret comes from. Unless something is torn it fits *)
(* the live cluster; a token about to be written fits the server about to be  *)
(* applied; once written, it fits until the Apply; and without a write, and   *)
(* with nothing torn, the Apply leaves the server as the reconcile read it.   *)
Carried ==
    /\ ~secret.exists => secret.token = NoToken /\ ~old.secret.exists
    /\ ~torn => Fits(secret.token, cluster.pmm)
    /\ sync.pc = "token" => Fits(sync.token, sync.pmm)
    /\ sync.pc \notin {"seed", "apply"} => ~sync.wrote
    /\ sync.pc \in {"seed", "apply"} => /\ sync.wrote => Fits(secret.token, sync.pmm)
                                        /\ ~torn => sync.pmm = sync.live.pmm

(* What applyPMM has settled follows the requirement that it has read.        *)
Held ==
    sync.pc \in {"token", "seed", "apply"} =>
       /\ sync.need.pmm = "NotRequired" => sync.pmm = Off
       /\ sync.need.pmm = "Unresolved" => sync.pmm = sync.live.pmm
       /\ sync.need.pmm = "Required" => sync.pmm \in Servers \cup {sync.live.pmm}

(* Credentials are read for a server, and because PMM is required.            *)
Chosen == sync.pc = "credentials" => sync.need.pmm = "Required" /\ sync.pmm \in Servers

Inv == TypeOK /\ Rotations /\ Carried /\ Held /\ Chosen

-----------------------------------------------------------------------------
(* What absent objects are, and an idle reconcile.                            *)
LEMMA Absent ==
    /\ NoCluster \in Cluster /\ NoSecret \in Secret /\ NoOld \in [cluster : Cluster, secret : Secret]
    /\ NoNeed \in [pmm : Requirement, metrics : Requirement] /\ NoSync \in Memory
    /\ NoToken \in Token /\ <<Foreign, 0>> \in Token
    /\ NoSync.pc = "idle" /\ ~NoSync.wrote
    /\ ~NoSecret.exists /\ NoSecret.token = NoToken
<1>1. NoToken \in Token /\ <<Foreign, 0>> \in Token
  BY DEF Token
<1>2. NoCluster \in Cluster /\ NoSecret \in Secret
  BY <1>1 DEF NoCluster, Cluster, NoSecret, Secret
<1>3. NoOld \in [cluster : Cluster, secret : Secret]
  BY <1>2 DEF NoOld
<1>4. NoNeed \in [pmm : Requirement, metrics : Requirement]
  BY DEF NoNeed, Requirement
<1>5. NoSync \in Memory
  BY <1>1, <1>2, <1>4 DEF NoSync, Memory
<1>6. NoSync.pc = "idle" /\ ~NoSync.wrote /\ ~NoSecret.exists /\ NoSecret.token = NoToken
  BY DEF NoSync, NoSecret
<1>7. QED
  BY <1>1, <1>2, <1>3, <1>4, <1>5, <1>6

(* The types, by name.                                                        *)
LEMMA Typed ==
  ASSUME TypeOK
  PROVE  /\ sync \in Memory /\ left \in Budget /\ cluster \in Cluster /\ secret \in Secret
         /\ old \in [cluster : Cluster, secret : Secret]
         /\ left.changes \in 0..MaxChanges /\ left.faults \in 0..MaxFaults
         /\ MaxChanges \in Nat /\ MaxFaults \in Nat
  BY MonitoringBounds DEF TypeOK, Memory, Budget

(* A read costs a fault when it is stale, and is typed like what it is of.    *)
LEMMA ReadEffect ==
  ASSUME TypeOK, NEW now, NEW before, NEW read \in Reads(now, before), Spend(read, now)
  PROVE  /\ left' \in Budget /\ left'.changes = left.changes
         /\ read \in {now, before}
<1>1. /\ left \in Budget /\ left.changes \in 0..MaxChanges /\ left.faults \in 0..MaxFaults
      /\ MaxFaults \in Nat
  BY Typed
<1>2. CASE read = now
  BY <1>1, <1>2 DEF Spend
<1>3. CASE read # now
  <2>1. read = before /\ left.faults > 0
    BY <1>3 DEF Reads
  <2>2. left' = [left EXCEPT !.faults = @ - 1]
    BY <1>3 DEF Spend
  <2>3. left.faults - 1 \in 0..MaxFaults
    BY <1>1, <2>1
  <2>4. left' \in Budget /\ left'.changes = left.changes
    BY <1>1, <2>2, <2>3 DEF Budget
  <2>5. QED
    BY <2>1, <2>4
<1>4. QED
  BY <1>2, <1>3

(* The version before a write is kept, or none.                               *)
LEMMA WriteSecretEffect ==
  ASSUME TypeOK, NEW s \in Secret, WriteSecret(s)
  PROVE  /\ secret' = s /\ old' \in [cluster : Cluster, secret : Secret]
         /\ old'.secret \in {NoSecret, old.secret, secret}
<1>1. NoOld.secret = NoSecret
  BY DEF NoOld
<1>2. QED
  BY <1>1, Typed, Absent DEF WriteSecret

LEMMA WriteClusterEffect ==
  ASSUME TypeOK, NEW k \in Cluster, WriteCluster(k)
  PROVE  /\ cluster' = k /\ old' \in [cluster : Cluster, secret : Secret]
         /\ old'.secret \in {NoSecret, old.secret}
<1>1. NoOld.secret = NoSecret
  BY DEF NoOld
<1>2. QED
  BY <1>1, Typed, Absent DEF WriteCluster

-----------------------------------------------------------------------------
(* What each step does.                                                       *)

(* A step that leaves secret, cluster and reconcile alone keeps all of it but *)
(* the types.                                                                 *)
LEMMA Elsewhere ==
  ASSUME Carried, Held, Chosen, UNCHANGED <<secret, old, cluster, sync, torn>>
  PROVE  Carried' /\ Held' /\ Chosen'
  BY DEF Carried, Held, Chosen, Fits

(* Users and the monitoring controllers.                                      *)
LEMMA ChangeEffect ==
  ASSUME Inv, RequirementChanges \/ BindingChanges \/ \E s \in Servers : TokenRotates(s)
  PROVE  Inv'
<1>0. /\ TypeOK /\ Rotations /\ left \in Budget /\ left.changes \in 0..MaxChanges
      /\ MaxChanges \in Nat /\ Carried /\ Held /\ Chosen
  BY Typed DEF Inv
<1>1. /\ left.changes > 0 /\ left' = [left EXCEPT !.changes = @ - 1]
      /\ UNCHANGED <<dataSource, image, cluster, secret, old, pods, published, sync, torn>>
  BY DEF RequirementChanges, BindingChanges, TokenRotates, Change
<1>2. left' \in Budget /\ left'.changes = left.changes - 1
  <2>1. left.changes - 1 \in 0..MaxChanges
    BY <1>0, <1>1
  <2>2. QED
    BY <1>0, <1>1, <2>1 DEF Budget
<1>3. Carried' /\ Held' /\ Chosen'
  BY <1>0, <1>1, Elsewhere
<1>4. CASE RequirementChanges
  <2>1. need' \in [pmm : Requirement, metrics : Requirement] /\ UNCHANGED <<binding, version>>
    <3>1. PICK r \in Requirement :
             need' = [need EXCEPT !.pmm = r] \/ need' = [need EXCEPT !.metrics = r]
      BY <1>4 DEF RequirementChanges
    <3>2. need \in [pmm : Requirement, metrics : Requirement]
      BY <1>0 DEF TypeOK
    <3>3. QED
      BY <1>4, <3>1, <3>2 DEF RequirementChanges
  <2>2. TypeOK'
    BY <1>0, <1>1, <1>2, <2>1 DEF TypeOK, Budget
  <2>3. Rotations'
    BY <1>0, <1>2, <2>1 DEF Rotations, TypeOK
  <2>4. QED
    BY <1>3, <2>2, <2>3 DEF Inv
<1>5. CASE BindingChanges
  <2>1. binding' \in [server : Servers \cup {Off}, ok : BOOLEAN] /\ UNCHANGED <<need, version>>
    <3>1. CASE \E s \in Servers, ok \in BOOLEAN : binding' = [server |-> s, ok |-> ok]
      <4>1. PICK s \in Servers, ok \in BOOLEAN : binding' = [server |-> s, ok |-> ok]
        BY <3>1
      <4>2. QED
        BY <1>5, <4>1, Zenon DEF BindingChanges
    <3>2. CASE binding' = NoBinding
      BY <1>5, <3>2 DEF BindingChanges, NoBinding
    <3>3. QED
      BY <1>5, <3>1, <3>2 DEF BindingChanges
  <2>2. TypeOK'
    BY <1>0, <1>1, <1>2, <2>1 DEF TypeOK, Budget
  <2>3. Rotations'
    BY <1>0, <1>2, <2>1 DEF Rotations, TypeOK
  <2>4. QED
    BY <1>3, <2>2, <2>3 DEF Inv
<1>6. ASSUME NEW s \in Servers, TokenRotates(s) PROVE Inv'
  <2>1. version' = [version EXCEPT ![s] = @ + 1] /\ UNCHANGED <<need, binding>>
    BY <1>6 DEF TokenRotates
  <2>2. version[s] + 1 \in 0..MaxChanges
    BY <1>0, <1>1 DEF Rotations, TypeOK
  <2>3. version' \in [Servers -> 0..MaxChanges]
    BY <1>0, <2>1, <2>2 DEF TypeOK
  <2>4. TypeOK'
    BY <1>0, <1>1, <1>2, <2>1, <2>3 DEF TypeOK, Budget
  <2>5. Rotations'
    BY <1>0, <1>2, <2>1, <2>3 DEF Rotations, TypeOK
  <2>6. QED
    BY <1>3, <2>4, <2>5 DEF Inv
<1>7. QED
  BY <1>4, <1>5, <1>6

(* The operator, and the pods.                                                *)
LEMMA OperatorEffect ==
  ASSUME Inv, \/ OperatorMakesSecret \/ OperatorRolls
              \/ \E c \in Component : PodsGetReady(c) \/ PodsFail(c)
  PROVE  Inv'
<1>0. /\ TypeOK /\ Rotations /\ left \in Budget /\ left.faults \in 0..MaxFaults
      /\ Carried /\ Held /\ Chosen /\ secret \in Secret
  BY Typed DEF Inv
<1>1. CASE OperatorMakesSecret
  <2> DEFINE made == [exists |-> TRUE, token |-> NoToken]
  <2>1. made \in Secret /\ made.exists /\ made.token = NoToken
    BY Absent DEF Secret
  <2>2. WriteSecret(made) /\ UNCHANGED <<envVars, cluster, pods, published, sync, left, torn>>
    BY <1>1 DEF OperatorMakesSecret
  <2> HIDE DEF made
  <2>3. secret' = made /\ old' \in [cluster : Cluster, secret : Secret]
    BY <1>0, <2>1, <2>2, WriteSecretEffect
  <2>4. TypeOK' /\ Rotations'
    BY <1>0, <2>1, <2>2, <2>3 DEF TypeOK, Rotations, envVars
  <2>5. Carried' /\ Held' /\ Chosen'
    BY <1>0, <2>1, <2>2, <2>3 DEF Carried, Held, Chosen, Fits, Ownerless
  <2>6. QED
    BY <2>4, <2>5 DEF Inv
<1>2. CASE OperatorRolls \/ \E c \in Component : PodsGetReady(c) \/ PodsFail(c)
  <2>1. /\ pods' \in [exporter : BOOLEAN, ready : SUBSET Component]
        /\ UNCHANGED <<envVars, cluster, secret, old, published, sync, torn>>
    BY <1>0, <1>2 DEF OperatorRolls, PodsGetReady, PodsFail, TypeOK, Cluster
  <2>2. left' \in Budget /\ left'.changes = left.changes
    <3>1. CASE UNCHANGED left
      BY <1>0, <3>1
    <3>2. CASE left.faults > 0 /\ left' = [left EXCEPT !.faults = @ - 1]
      <4>1. left.faults - 1 \in 0..MaxFaults
        BY <1>0, <3>2, Typed
      <4>2. QED
        BY <1>0, <3>2, <4>1 DEF Budget
    <3>3. QED
      BY <1>2, <3>1, <3>2 DEF OperatorRolls, PodsGetReady, PodsFail
  <2>3. TypeOK' /\ Rotations'
    BY <1>0, <2>1, <2>2 DEF TypeOK, Budget, Rotations, envVars
  <2>4. QED
    BY <1>0, <2>1, <2>3, Elsewhere DEF Inv
<1>3. QED
  BY <1>1, <1>2

(* The requests that begin a reconcile: what is live, what is required.       *)
LEMMA BeginEffect ==
  ASSUME Inv, applyMonitoring \/ RequiredSources
  PROVE  Inv'
<1>0. /\ TypeOK /\ Rotations /\ Carried /\ Held /\ sync \in Memory /\ left \in Budget
      /\ cluster \in Cluster /\ old.cluster \in Cluster
  BY Typed DEF Inv
<1>1. CASE applyMonitoring
  <2>1. PICK live \in Reads(cluster, old.cluster) :
           /\ Step([NoSync EXCEPT !.pc = "require", !.live = live])
           /\ Spend(live, cluster)
    BY <1>1 DEF applyMonitoring
  <2>2. left' \in Budget /\ left'.changes = left.changes /\ live \in Cluster
    BY <1>0, <2>1, ReadEffect
  <2>3. sync' \in Memory /\ sync'.pc = "require" /\ ~sync'.wrote
    BY <2>1, <2>2, Absent DEF Step, Memory
  <2>4. UNCHANGED <<envVars, cluster, pods, published, secret, old, torn>>
    BY <1>1, <2>1 DEF applyMonitoring, Step
  <2>5. TypeOK' /\ Rotations'
    BY <1>0, <2>2, <2>3, <2>4 DEF TypeOK, Rotations, Budget, Memory, envVars
  <2>6. Carried' /\ Held' /\ Chosen'
    BY <1>0, <2>3, <2>4 DEF Carried, Held, Chosen, Fits
  <2>7. QED
    BY <2>5, <2>6 DEF Inv
<1>2. CASE RequiredSources
  <2>1. /\ sync' = [sync EXCEPT !.pc = "pmm", !.need = need] /\ sync.pc = "require"
        /\ UNCHANGED <<envVars, cluster, pods, published, secret, old, left, torn>>
    BY <1>2 DEF RequiredSources, Step
  <2>2. need \in [pmm : Requirement, metrics : Requirement]
    BY <1>0 DEF TypeOK
  <2>3. sync' \in Memory /\ sync'.pc = "pmm" /\ sync'.wrote = sync.wrote
    BY <1>0, <2>1, <2>2 DEF Memory
  <2>4. TypeOK' /\ Rotations'
    BY <1>0, <2>1, <2>3 DEF TypeOK, Rotations, Memory, envVars
  <2>5. Carried' /\ Held' /\ Chosen'
    BY <1>0, <2>1, <2>3 DEF Carried, Held, Chosen, Fits
  <2>6. QED
    BY <2>4, <2>5 DEF Inv
<1>3. QED
  BY <1>1, <1>2

(* applyPMM keeps the live server, with no token to write, or sets a server   *)
(* together with its token.                                                   *)
LEMMA PMMEffect ==
  ASSUME Inv, applyPMM \/ renderPMM
  PROVE  Inv'
<1>0. /\ TypeOK /\ Rotations /\ Carried /\ Held /\ Chosen /\ sync \in Memory
      /\ sync.live \in Cluster /\ sync.live.pmm \in Servers \cup {Off}
      /\ sync.need.pmm \in Requirement
  BY Typed DEF Inv, Memory, Cluster
<1>1. /\ sync.pc \in {"pmm", "credentials"} /\ ~sync.wrote
      /\ UNCHANGED <<envVars, cluster, pods, published, secret, old, left, torn>>
  BY <1>0 DEF applyPMM, dropPMM, holdPMM, MonitoringBindings, renderPMM, keepLivePMM, Settle,
     Mirror, Step, Carried
<1>2. ASSUME sync' \in Memory, ~sync'.wrote,
             \/ sync'.pc = "seed" /\ sync'.pmm = sync'.live.pmm
             \/ sync'.pc = "token" /\ Fits(sync'.token, sync'.pmm)
             \/ sync'.pc = "credentials",
             Held', Chosen'
      PROVE  Inv'
  <2>1. TypeOK' /\ Rotations'
    BY <1>0, <1>1, <1>2 DEF TypeOK, Rotations, Memory, envVars
  <2>2. Carried'
    BY <1>0, <1>1, <1>2 DEF Carried, Fits
  <2>3. QED
    BY <1>2, <2>1, <2>2 DEF Inv
<1>3. CASE sync.pc = "pmm" /\ dropPMM
  <2>1. /\ sync' = [sync EXCEPT !.pc = "token", !.pmm = Off, !.token = NoToken]
        /\ sync.need.pmm # "Required"
        /\ sync.need.pmm = "Unresolved" => sync.live.pmm = Off
    BY <1>3 DEF dropPMM, Mirror, Step, Else
  <2>2. /\ sync' \in Memory /\ sync'.pc = "token" /\ sync'.live = sync.live
        /\ sync'.need = sync.need /\ sync'.pmm = Off /\ sync'.token = NoToken
        /\ sync'.wrote = sync.wrote
    BY <1>0, <2>1, Absent DEF Memory
  <2>3. Fits(sync'.token, sync'.pmm)
    BY <2>2 DEF Fits, Ownerless
  <2>4. Held' /\ Chosen'
    BY <2>1, <2>2 DEF Held, Chosen
  <2>5. QED
    BY <1>1, <1>2, <2>2, <2>3, <2>4
<1>4. CASE sync' = [sync EXCEPT !.pc = "seed", !.pmm = sync.live.pmm]
           /\ sync.need.pmm \in {"Required", "Unresolved"}
  <2>1. /\ sync' \in Memory /\ sync'.pc = "seed" /\ sync'.live = sync.live
        /\ sync'.need = sync.need /\ sync'.pmm = sync.live.pmm /\ sync'.wrote = sync.wrote
    BY <1>0, <1>4 DEF Memory
  <2>2. Held' /\ Chosen'
    BY <1>4, <2>1 DEF Held, Chosen
  <2>3. QED
    BY <1>1, <1>2, <2>1, <2>2
<1>5. CASE /\ sync.need.pmm = "Required" /\ binding.server # Off
           /\ sync' = [sync EXCEPT !.pc = "credentials", !.pmm = binding.server]
  <2>1. binding.server \in Servers
    BY <1>0, <1>5 DEF TypeOK
  <2>2. /\ sync' \in Memory /\ sync'.pc = "credentials" /\ sync'.need = sync.need
        /\ sync'.pmm = binding.server /\ sync'.wrote = sync.wrote
    BY <1>0, <1>5, <2>1 DEF Memory
  <2>3. Held' /\ Chosen'
    BY <1>5, <2>1, <2>2 DEF Held, Chosen
  <2>4. QED
    BY <1>1, <1>2, <2>2, <2>3
<1>6. CASE /\ sync.pc = "credentials"
           /\ Mirror(sync.pmm, <<sync.pmm, version[sync.pmm]>>)
  <2> DEFINE s == sync.pmm
             t == <<s, version[s]>>
  <2>1. /\ s \in Servers /\ version[s] \in 0..MaxChanges
        /\ sync.need.pmm = "Required"
    BY <1>0, <1>6 DEF TypeOK, Chosen
  <2>2. t \in Token /\ Fits(t, s)
    BY <2>1 DEF Token, Fits
  <2>3. sync' = [sync EXCEPT !.pc = "token", !.pmm = s, !.token = t]
    BY <1>6 DEF Mirror, Step
  <2> HIDE DEF s, t
  <2>4. /\ sync' \in Memory /\ sync'.pc = "token" /\ sync'.live = sync.live
        /\ sync'.need = sync.need /\ sync'.pmm = s /\ sync'.token = t
        /\ sync'.wrote = sync.wrote
    BY <1>0, <2>1, <2>2, <2>3 DEF Memory
  <2>5. Held' /\ Chosen'
    BY <2>1, <2>4 DEF Held, Chosen
  <2>6. QED
    BY <1>1, <1>2, <2>2, <2>4, <2>5
<1>7. QED
  BY <1>0, <1>3, <1>4, <1>5, <1>6
     DEF applyPMM, holdPMM, MonitoringBindings, renderPMM, keepLivePMM, Settle, Step, Chosen

(* The token is written, and counts as written when the secret holds it.      *)
LEMMA TokenEffect ==
  ASSUME Inv, syncPMMServerToken
  PROVE  Inv'
<1>0. /\ TypeOK /\ Rotations /\ Carried /\ Held /\ sync \in Memory /\ secret \in Secret
      /\ sync.token \in Token
  BY Typed DEF Inv, Memory
<1>1. PICK read \in Reads(secret, old.secret) :
         /\ WriteSecret(IF read.exists /\ read.token # sync.token
                        THEN [secret EXCEPT !.token = sync.token] ELSE secret)
         /\ Spend(read, secret)
  BY DEF syncPMMServerToken
<1> DEFINE s == IF read.exists /\ read.token # sync.token
                THEN [secret EXCEPT !.token = sync.token] ELSE secret
           b == ~secret'.exists \/ secret'.token = sync.token
<1>2. left' \in Budget /\ left'.changes = left.changes
  BY <1>0, <1>1, ReadEffect
<1>3. s \in Secret /\ s.exists = secret.exists /\ s.token \in {secret.token, sync.token}
  BY <1>0 DEF Secret
<1>4. /\ secret' = s /\ old' \in [cluster : Cluster, secret : Secret]
      /\ old'.secret \in {NoSecret, old.secret, secret}
  BY <1>0, <1>1, <1>3, WriteSecretEffect
<1>5. /\ sync' = [sync EXCEPT !.pc = "seed", !.token = NoToken, !.wrote = b]
      /\ sync.pc = "token" /\ torn' = TRUE
      /\ UNCHANGED <<envVars, cluster, pods, published>>
  BY DEF syncPMMServerToken, TokenDone, Step
<1>6. b \in BOOLEAN
  OBVIOUS
<1>7. b => ~secret'.exists \/ secret'.token = sync.token
  OBVIOUS
<1> HIDE DEF s, b
<1>8. /\ sync' \in Memory /\ sync'.pc = "seed" /\ sync'.live = sync.live
      /\ sync'.need = sync.need /\ sync'.pmm = sync.pmm /\ sync'.wrote = b
  BY <1>0, <1>5, <1>6, Absent DEF Memory
<1>9. TypeOK' /\ Rotations'
  BY <1>0, <1>2, <1>3, <1>4, <1>5, <1>8 DEF TypeOK, Rotations, Budget, Memory, envVars
<1>10. Held' /\ Chosen'
  BY <1>0, <1>5, <1>8 DEF Held, Chosen
<1>11. ~secret'.exists => secret'.token = NoToken /\ ~old'.secret.exists
  <2>1. ~secret.exists => secret.token = NoToken /\ ~old.secret.exists /\ ~read.exists
    BY <1>0, <1>1, ReadEffect DEF Carried
  <2>2. ~read.exists => s = secret
    BY DEF s
  <2>3. QED
    BY <1>3, <1>4, <2>1, <2>2, Absent
<1>12. sync'.wrote => Fits(secret'.token, sync'.pmm)
  BY <1>0, <1>5, <1>7, <1>8, <1>11 DEF Carried, Fits, Ownerless
<1>13. Carried'
  BY <1>5, <1>8, <1>11, <1>12 DEF Carried, Fits
<1>14. QED
  BY <1>9, <1>10, <1>13 DEF Inv

(* The copy of the source's secret, when there is none.                       *)
LEMMA SeedEffect ==
  ASSUME Inv, ensureDataSourceCredentials
  PROVE  Inv'
<1>0. /\ TypeOK /\ Rotations /\ Carried /\ Held /\ sync \in Memory /\ secret \in Secret
      /\ old \in [cluster : Cluster, secret : Secret]
  BY Typed DEF Inv
<1>1. PICK read \in Reads(secret, old.secret) :
         /\ \/ /\ dataSource /\ ~read.exists /\ ~secret.exists
               /\ \E t \in {NoToken, <<Foreign, 0>>} : WriteSecret([exists |-> TRUE, token |-> t])
            \/ UNCHANGED <<secret, old>>
         /\ Spend(read, secret)
  BY DEF ensureDataSourceCredentials
<1>2. left' \in Budget /\ left'.changes = left.changes
  BY <1>0, <1>1, ReadEffect
<1>3. /\ sync' = [sync EXCEPT !.pc = "apply"] /\ sync.pc = "seed"
      /\ UNCHANGED <<envVars, cluster, pods, published, torn>>
  BY DEF ensureDataSourceCredentials, Step
<1>4. /\ sync' \in Memory /\ sync'.pc = "apply" /\ sync'.live = sync.live
      /\ sync'.need = sync.need /\ sync'.pmm = sync.pmm /\ sync'.wrote = sync.wrote
  BY <1>0, <1>3 DEF Memory
<1>5. /\ secret' \in Secret /\ old' \in [cluster : Cluster, secret : Secret]
      /\ UNCHANGED <<secret, old>> \/ (secret'.exists /\ secret'.token \in Ownerless)
  <2>1. ASSUME NEW t \in {NoToken, <<Foreign, 0>>}, WriteSecret([exists |-> TRUE, token |-> t])
        PROVE  /\ secret' \in Secret /\ old' \in [cluster : Cluster, secret : Secret]
               /\ secret'.exists /\ secret'.token \in Ownerless
    <3> DEFINE s == [exists |-> TRUE, token |-> t]
    <3>1. s \in Secret /\ s.exists /\ s.token = t
      BY Absent DEF Secret
    <3> HIDE DEF s
    <3>2. secret' = s /\ old' \in [cluster : Cluster, secret : Secret]
      BY <1>0, <2>1, <3>1, WriteSecretEffect DEF s
    <3>3. QED
      BY <3>1, <3>2 DEF Ownerless
  <2>2. QED
    BY <1>0, <1>1, <2>1
<1>6. TypeOK' /\ Rotations'
  BY <1>0, <1>2, <1>3, <1>4, <1>5 DEF TypeOK, Rotations, Budget, Memory, envVars
<1>7. Held' /\ Chosen'
  BY <1>0, <1>3, <1>4 DEF Held, Chosen
<1>8. Carried'
  BY <1>0, <1>3, <1>4, <1>5 DEF Carried, Fits
<1>9. QED
  BY <1>6, <1>7, <1>8 DEF Inv

(* What the Apply does to the cluster.                                        *)
LEMMA ApplyEffect ==
  ASSUME TypeOK, SyncApply
  PROVE  /\ sync.pc = "apply" /\ cluster' \in Cluster /\ cluster'.pmm = sync.pmm
         /\ cluster'.exporter = Else(sync.need.metrics, sync.live.exporter)
         /\ old' \in [cluster : Cluster, secret : Secret]
         /\ old'.secret \in {NoSecret, old.secret}
         /\ sync' \in Memory /\ sync'.pc = "sources" /\ ~sync'.wrote
         /\ torn' = (~sync.wrote /\ (torn \/ sync.live # cluster))
         /\ UNCHANGED <<envVars, secret, pods, published, left>>
<1> DEFINE x == Else(sync.need.metrics, sync.live.exporter)
           k == [exists |-> TRUE, pmm |-> sync.pmm, exporter |-> x]
<1>1. sync \in Memory /\ sync.pmm \in Servers \cup {Off} /\ sync.live \in Cluster
  BY Typed DEF Memory
<1>2. x \in BOOLEAN
  BY <1>1 DEF Else, Cluster
<1>3. sync.pc = "apply" /\ WriteCluster(k) /\ sync' = [NoSync EXCEPT !.pc = "sources"]
      /\ UNCHANGED <<envVars, secret, pods, published, left>>
  BY DEF SyncApply, applyMetricsExporter
<1>4. torn' = (~sync.wrote /\ (torn \/ sync.live # cluster))
  BY DEF SyncApply
<1> HIDE DEF x
<1>5. k \in Cluster /\ k.pmm = sync.pmm /\ k.exporter = x
  BY <1>1, <1>2 DEF Cluster
<1> HIDE DEF k
<1>6. /\ cluster' = k /\ old' \in [cluster : Cluster, secret : Secret]
      /\ old'.secret \in {NoSecret, old.secret}
  BY <1>3, <1>5, WriteClusterEffect
<1>7. sync' \in Memory /\ sync'.pc = "sources" /\ ~sync'.wrote
  BY <1>3, Absent DEF Memory
<1>8. QED
  BY <1>3, <1>4, <1>5, <1>6, <1>7 DEF x

(* The Apply mends what was torn, unless it comes from an old version.        *)
LEMMA ApplyKeeps ==
  ASSUME Inv, SyncApply
  PROVE  Inv'
<1>0. TypeOK /\ Rotations /\ Carried /\ sync \in Memory /\ torn \in BOOLEAN
  BY Typed DEF Inv, TypeOK
<1>1. TypeOK' /\ Rotations'
  <2>1. torn' \in BOOLEAN
    BY <1>0, ApplyEffect DEF Memory
  <2>2. QED
    BY <1>0, <2>1, ApplyEffect DEF TypeOK, Rotations, Memory, envVars
<1>2. Held' /\ Chosen'
  BY <1>0, ApplyEffect DEF Held, Chosen
<1>3. ~torn' => Fits(secret'.token, cluster'.pmm)
  <2>1. CASE sync.wrote
    BY <1>0, <2>1, ApplyEffect DEF Carried, Fits
  <2>2. CASE ~sync.wrote /\ ~torn /\ sync.live = cluster
    BY <1>0, <2>2, ApplyEffect DEF Carried, Fits
  <2>3. QED
    BY <1>0, <2>1, <2>2, ApplyEffect
<1>4. Carried'
  BY <1>0, <1>3, ApplyEffect, Absent DEF Carried, Fits
<1>5. QED
  BY <1>1, <1>2, <1>4 DEF Inv

(* The end of a reconcile, and its interruption.                              *)
LEMMA EndEffect ==
  ASSUME Inv, MonitoringSources \/ ExporterFails \/ Interrupt
  PROVE  Inv'
<1>0. /\ TypeOK /\ Rotations /\ Carried /\ left \in Budget /\ left.faults \in 0..MaxFaults
      /\ MaxFaults \in Nat
  BY Typed DEF Inv
<1>1. sync' = NoSync /\ UNCHANGED <<envVars, cluster, secret, old, pods, torn>>
  BY DEF MonitoringSources, Publish, ExporterFails, Step, Interrupt
<1>2. /\ left' \in Budget /\ left'.changes = left.changes
      /\ published' \subseteq Component
  <2>1. CASE MonitoringSources
    <3>1. PICK live \in Reads(cluster, old.cluster) :
             /\ Publish({c \in pods.ready : live.exists /\ IF c = "engine" THEN live.exporter
                                                                      ELSE HAProxyEnabled})
             /\ Spend(live, cluster)
      BY <2>1 DEF MonitoringSources
    <3>2. left' \in Budget /\ left'.changes = left.changes
      BY <1>0, <3>1, ReadEffect
    <3>3. published' \subseteq pods.ready
      BY <3>1 DEF Publish
    <3>4. QED
      BY <1>0, <3>2, <3>3 DEF TypeOK
  <2>2. CASE Interrupt
    <3>1. left.faults - 1 \in 0..MaxFaults
      BY <1>0, <2>2 DEF Interrupt
    <3>2. left' \in Budget /\ left'.changes = left.changes
      BY <1>0, <2>2, <3>1 DEF Interrupt, Budget
    <3>3. QED
      BY <1>0, <2>2, <3>2 DEF Interrupt, TypeOK
  <2>3. CASE ExporterFails
    BY <1>0, <2>3 DEF ExporterFails, Step, TypeOK
  <2>4. QED
    BY <2>1, <2>2, <2>3
<1>3. TypeOK' /\ Rotations'
  BY <1>0, <1>1, <1>2, Absent DEF TypeOK, Rotations, Budget, Memory, envVars
<1>4. Carried' /\ Held' /\ Chosen'
  BY <1>0, <1>1, Absent DEF Carried, Held, Chosen, Fits
<1>5. QED
  BY <1>3, <1>4 DEF Inv

-----------------------------------------------------------------------------
LEMMA InvInit == Init => Inv
<1> SUFFICES ASSUME Init PROVE Inv
  OBVIOUS
<1>1. binding \in [server : Servers \cup {Off}, ok : BOOLEAN]
  <2>1. (CHOOSE s \in Servers : TRUE) \in Servers
    BY ServersAssumption
  <2>2. QED
    BY <2>1 DEF Init
<1>2. TypeOK
  <2>1. left \in Budget /\ version \in [Servers -> 0..MaxChanges]
    BY MonitoringBounds DEF Init, Budget
  <2>2. need \in [pmm : Requirement, metrics : Requirement]
    BY DEF Init, Requirement
  <2>3. pods \in [exporter : BOOLEAN, ready : SUBSET Component]
    BY DEF Init
  <2>4. QED
    BY <1>1, <2>1, <2>2, <2>3, Absent DEF Init, TypeOK, Budget, Memory
<1>3. Rotations
  <2> SUFFICES ASSUME NEW s \in Servers PROVE version[s] + left.changes <= MaxChanges
    BY DEF Rotations
  <2>1. MaxChanges \in Nat
    BY MonitoringBounds
  <2>2. left.changes = MaxChanges /\ version[s] = 0
    BY DEF Init
  <2>3. QED
    BY <2>1, <2>2
<1>4. Carried
  <2>1. NoOld.secret = NoSecret
    BY DEF NoOld
  <2>2. QED
    BY <2>1, Absent DEF Init, Carried, Fits, Ownerless
<1>5. Held /\ Chosen
  BY Absent DEF Init, Held, Chosen
<1>6. QED
  BY <1>2, <1>3, <1>4, <1>5 DEF Inv

LEMMA InvStep == Inv /\ [Next]_vars => Inv'
<1> SUFFICES ASSUME Inv, [Next]_vars PROVE Inv'
  OBVIOUS
<1>1. CASE UNCHANGED vars
  <2>1. TypeOK' /\ Rotations'
    BY <1>1 DEF vars, Inv, TypeOK, Rotations
  <2>2. QED
    BY <1>1, <2>1, Elsewhere DEF vars, Inv
<1>2. QED
  BY <1>1, ChangeEffect, OperatorEffect, BeginEffect, PMMEffect, TokenEffect, SeedEffect,
     ApplyKeeps, EndEffect DEF Next, Reconcile

LEMMA Invariant == Spec => []Inv
  BY InvInit, InvStep, PTL DEF Spec

(* Every variable keeps its type; in particular no token version exceeds what *)
(* the changes allow.                                                         *)
THEOREM MonitoringTypeCorrect == Spec => []TypeOK
<1>1. Inv => TypeOK
  BY DEF Inv
<1>2. QED
  BY <1>1, Invariant, PTL

(* The agent is never given the token of another server between reconciles,   *)
(* unless a reconcile stopped between the two writes or worked from an old    *)
(* version: for every number of servers, rotations, changes of the binding,   *)
(* and interruptions.                                                         *)
THEOREM TokensFit == Spec => []TokenFitsServer
<1>1. Inv => TokenFitsServer
  BY DEF Inv, Carried, TokenFitsServer, Fits, Ownerless
<1>2. QED
  BY <1>1, Invariant, PTL

(* Only SyncApply writes the cluster.                                         *)
LEMMA OnlyApplyWrites ==
  ASSUME [Next]_vars, ~SyncApply
  PROVE  UNCHANGED cluster
  BY DEF Next, Reconcile, vars, RequirementChanges, BindingChanges, TokenRotates, Change,
     OperatorMakesSecret, OperatorRolls, PodsGetReady, PodsFail, applyMonitoring,
     RequiredSources, applyPMM, dropPMM, holdPMM, MonitoringBindings, renderPMM, keepLivePMM,
     Settle, Mirror, Step, ExporterFails, syncPMMServerToken, TokenDone, ensureDataSourceCredentials, MonitoringSources, Publish,
     Interrupt

(* The hold rule: an Apply changes PMM or the sidecar of the cluster it has   *)
(* read only because the requirement was resolved. The requirements may       *)
(* change under the reconcile as often as they like.                          *)
THEOREM HoldsWhileUnresolved == Spec => HoldRule
<1>1. Inv /\ [Next]_vars =>
        [cluster.exists /\ sync.live = cluster =>
          /\ cluster'.pmm # cluster.pmm =>
                \/ sync.need.pmm = "NotRequired" /\ cluster'.pmm = Off
                \/ sync.need.pmm = "Required" /\ cluster'.pmm # Off
          /\ cluster'.exporter # cluster.exporter =>
                cluster'.exporter = (sync.need.metrics = "Required")]_vars
  <2> SUFFICES ASSUME Inv, [Next]_vars, sync.live = cluster
               PROVE  /\ cluster'.pmm # cluster.pmm =>
                            \/ sync.need.pmm = "NotRequired" /\ cluster'.pmm = Off
                            \/ sync.need.pmm = "Required" /\ cluster'.pmm # Off
                      /\ cluster'.exporter # cluster.exporter =>
                            cluster'.exporter = (sync.need.metrics = "Required")
    OBVIOUS
  <2>1. CASE ~SyncApply
    BY <2>1, OnlyApplyWrites
  <2>2. CASE SyncApply
    <3>1. /\ TypeOK /\ Held /\ sync.need.pmm \in Requirement
          /\ sync.need.metrics \in Requirement /\ cluster.exporter \in BOOLEAN
      BY Typed DEF Inv, Memory, Cluster
    <3>2. /\ sync.pc = "apply" /\ cluster'.pmm = sync.pmm
          /\ cluster'.exporter = Else(sync.need.metrics, cluster.exporter)
      BY <2>2, <3>1, ApplyEffect
    <3>3. cluster'.pmm # cluster.pmm =>
             \/ sync.need.pmm = "NotRequired" /\ cluster'.pmm = Off
             \/ sync.need.pmm = "Required" /\ cluster'.pmm # Off
      BY <3>1, <3>2, ServersAssumption DEF Held, Requirement
    <3>4. cluster'.exporter # cluster.exporter =>
             cluster'.exporter = (sync.need.metrics = "Required")
      BY <3>1, <3>2 DEF Else, Requirement
    <3>5. QED
      BY <3>3, <3>4
  <2>3. QED
    BY <2>1, <2>2
<1>2. QED
  BY <1>1, Invariant, PTL DEF Spec, HoldRule
=============================================================================
