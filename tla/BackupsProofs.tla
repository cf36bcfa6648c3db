---------------------------- MODULE BackupsProofs ----------------------------
(* Theorems about Backups, for every set of names and storages and every      *)
(* bound.                                                                     *)
EXTENDS Backups, TLAPS

(* What stands for an absent object is typed like a present one.              *)
LEMMA ConstantsTyped ==
    /\ NoBackup \in BackupCR
    /\ NoOp \in OpBackup
    /\ NoWork \in Work
  BY BoundsAssumption DEF NoBackup, NoOp, NoWork, BackupCR, OpBackup, Work, UID, MaxOpUID,
     BackupState, OpState

(* A step of a handler that remembers something typed keeps the types.        *)
LEMMA StepTyped ==
  ASSUME NEW n \in Names, TypeOK, NEW w \in Work, Step(n, w)
  PROVE  /\ pxc' \in BOOLEAN
         /\ registered' \subseteq Storages
         /\ class' \in BOOLEAN
         /\ seen' \in [Names -> OpBackup]
         /\ work' \in [Names -> Work]
         /\ mirror' \in [Names -> BackupCR]
         /\ stored' \subseteq Names \X Stamp
         /\ left' \in [policy : 0..MaxPolicyChanges, deletes : 0..MaxDirectDeletes, restarts : 0..MaxRestarts]
         /\ retained' \subseteq Names \X Stamp
         /\ doomed' \subseteq Names \X Stamp
         /\ ended' \subseteq [name : Names, uid : UID, cr : UID, state : Terminal]
  BY DEF Step, TypeOK, outsideVars, historyVars

(* What a deletion leaves is an operator backup.                              *)
LEMMA DeletedTyped ==
  ASSUME NEW b \in OpBackup
  PROVE  Deleted(b) \in OpBackup
  BY ConstantsTyped DEF Deleted, OpBackup

(* What a change of the finalizers leaves is an operator backup.              *)
LEMMA WithFinalizerTyped ==
  ASSUME NEW b \in OpBackup, NEW keep \in BOOLEAN
  PROVE  WithFinalizer(b, keep) \in OpBackup
  BY ConstantsTyped DEF WithFinalizer, OpBackup

(* What SyncBackup's merge patch leaves is an operator backup.                *)
LEMMA PatchedTyped ==
  ASSUME NEW now \in OpBackup, NEW read \in OpBackup, NEW cr \in BackupCR
  PROVE  Patched(now, read, cr) \in OpBackup
<1> DEFINE b == IF read.controller = cr.uid THEN now ELSE [now EXCEPT !.controller = cr.uid]
<1>1. b \in OpBackup
  BY DEF OpBackup, BackupCR
<1>2. (~cr.retain) \in BOOLEAN
  BY DEF BackupCR
<1>3. WithFinalizer(b, ~cr.retain) \in OpBackup
  BY <1>1, <1>2, WithFinalizerTyped
<1>4. QED
  BY <1>1, <1>3 DEF Patched

(* Every operator state has a Backup state.                                   *)
LEMMA BackupStateTyped ==
  ASSUME NEW s \in OpState
  PROVE  backupState(s) \in BackupState
  BY DEF backupState, BackupState, OpState

(* The initial states are typed.                                              *)
LEMMA TypeInit == Init => TypeOK
<1> SUFFICES ASSUME Init PROVE TypeOK
  OBVIOUS
<1>1. [cr |-> 0, ob |-> 0] \in [cr : UID, ob : UID]
  BY BoundsAssumption DEF UID, MaxOpUID
<1>2. left \in [policy : 0..MaxPolicyChanges, deletes : 0..MaxDirectDeletes, restarts : 0..MaxRestarts]
  BY BoundsAssumption DEF Init
<1>3. QED
  BY <1>1, <1>2, ConstantsTyped DEF Init, TypeOK

(* Every step keeps the types.                                                *)
LEMMA TypeStep == TypeOK /\ [Next]_vars => TypeOK'
<1> SUFFICES ASSUME TypeOK, [Next]_vars PROVE TypeOK'
  OBVIOUS
<1> USE BoundsAssumption
<1>1. CASE ClusterAppears
  BY <1>1 DEF ClusterAppears, TypeOK, outsideVars, historyVars
<1>2. ASSUME NEW s \in Storages, RegisterStorage(s) PROVE TypeOK'
  BY <1>2 DEF RegisterStorage, TypeOK, outsideVars, historyVars
<1>3. ASSUME NEW n \in Names, NEW s \in Storages, NEW retain \in BOOLEAN,
             CreateBackup(n, s, retain) PROVE TypeOK'
  <2>1. uids' \in [Names -> [cr : UID, ob : UID]]
    BY <1>3 DEF CreateBackup, TypeOK, UID, MaxOpUID
  <2>a. uids[n].cr + 1 \in UID /\ 0 \in UID
    BY <1>3 DEF CreateBackup, TypeOK, UID, MaxOpUID
  <2>2. [NoBackup EXCEPT !.uid = uids[n].cr + 1, !.storage = s, !.retain = retain] \in BackupCR
    BY <2>a DEF BackupCR, NoBackup, BackupState
  <2>3. backup' \in [Names -> BackupCR]
    BY <1>3, <2>2 DEF CreateBackup, TypeOK
  <2>4. QED
    BY <1>3, <2>1, <2>3 DEF CreateBackup, TypeOK, outsideVars, historyVars
<1>4. ASSUME NEW n \in Names, ChangePolicy(n) PROVE TypeOK'
  <2>a. [backup[n] EXCEPT !.retain = ~backup[n].retain] \in BackupCR
    BY DEF TypeOK, BackupCR
  <2>1. backup' \in [Names -> BackupCR]
    BY <1>4, <2>a DEF ChangePolicy, TypeOK
  <2>2. left' \in [policy : 0..MaxPolicyChanges, deletes : 0..MaxDirectDeletes, restarts : 0..MaxRestarts]
    BY <1>4 DEF ChangePolicy, TypeOK
  <2>3. QED
    BY <1>4, <2>1, <2>2 DEF ChangePolicy, TypeOK, outsideVars, historyVars
<1>5. ASSUME NEW n \in Names, DeleteBackup(n) PROVE TypeOK'
  <2>z. backup[n] \in BackupCR
    BY DEF TypeOK
  <2>a. [backup[n] EXCEPT !.deleting = TRUE] \in BackupCR
    BY <2>z DEF BackupCR
  <2>1. backup' \in [Names -> BackupCR]
    BY <1>5, <2>a DEF DeleteBackup, TypeOK
  <2>2. DataOf(n) \subseteq stored
    BY DEF DataOf
  <2>3. QED
    BY <1>5, <2>1, <2>2 DEF DeleteBackup, TypeOK, outsideVars, historyVars
<1>6. ASSUME NEW n \in Names, NEW s \in Storages, NEW d \in BOOLEAN,
             NEW nm \in BOOLEAN, CronBackup(n, s, d, nm) PROVE TypeOK'
  <2>1. uids' \in [Names -> [cr : UID, ob : UID]]
    BY <1>6 DEF CronBackup, TypeOK, UID, MaxOpUID
  <2>a. uids[n].ob + 1 \in UID /\ 0 \in UID
    BY <1>6 DEF CronBackup, TypeOK, UID, MaxOpUID
  <2>2. [NoOp EXCEPT !.uid = uids[n].ob + 1, !.cron = TRUE, !.named = nm,
                     !.storage = s, !.deleteData = d] \in OpBackup
    BY <2>a DEF OpBackup, NoOp, OpState
  <2>3. op' \in [Names -> OpBackup]
    BY <1>6, <2>2 DEF CronBackup, TypeOK
  <2>4. QED
    BY <1>6, <2>1, <2>3 DEF CronBackup, TypeOK, outsideVars, historyVars
<1>7. ASSUME NEW n \in Names, OperatorRuns(n) PROVE TypeOK'
  <2>0. PICK s \in OpState : op' = [op EXCEPT ![n].state = s]
    BY <1>7 DEF OperatorRuns, OpState
  <2>a. s \in OpState /\ op[n] \in OpBackup
    BY <2>0 DEF TypeOK
  <2>b. [op[n] EXCEPT !.state = s] \in OpBackup
    BY <2>a DEF OpBackup
  <2>1. op' \in [Names -> OpBackup]
    BY <2>0, <2>b DEF TypeOK
  <2>2. op[n].uid \in Stamp
    BY <1>7 DEF OperatorRuns, TypeOK, OpBackup, UID, MaxOpUID, Stamp, Exists
  <2>3. stored' \subseteq Names \X Stamp
    BY <1>7, <2>2 DEF OperatorRuns, TypeOK
  <2>4. ended' \subseteq [name : Names, uid : UID, cr : UID, state : Terminal]
    BY <1>7 DEF OperatorRuns, TypeOK, OpBackup
  <2>5. QED
    BY <1>7, <2>1, <2>3, <2>4 DEF OperatorRuns, TypeOK, outsideVars
<1>8. ASSUME NEW n \in Names, OperatorPurges(n) PROVE TypeOK'
  BY <1>8, ConstantsTyped DEF OperatorPurges, TypeOK, outsideVars, historyVars
<1>9. ASSUME NEW n \in Names, OperatorPrunes(n) PROVE TypeOK'
  BY <1>9, DeletedTyped DEF OperatorPrunes, TypeOK, outsideVars, historyVars
<1>9a. ASSUME NEW n \in Names, DeleteOpBackup(n) PROVE TypeOK'
  <2>1. left' \in [policy : 0..MaxPolicyChanges, deletes : 0..MaxDirectDeletes, restarts : 0..MaxRestarts]
    BY <1>9a DEF DeleteOpBackup, TypeOK
  <2>2. QED
    BY <1>9a, <2>1, DeletedTyped DEF DeleteOpBackup, TypeOK, outsideVars
<1>10. ASSUME NEW n \in Names, CollectOp(n) PROVE TypeOK'
  BY <1>10, DeletedTyped DEF CollectOp, TypeOK, outsideVars, historyVars
<1>11. ASSUME NEW n \in Names, CollectBackup(n) PROVE TypeOK'
  <2>z. backup[n] \in BackupCR
    BY DEF TypeOK
  <2>a. [backup[n] EXCEPT !.deleting = TRUE] \in BackupCR
    BY <2>z DEF BackupCR
  <2>1. backup' \in [Names -> BackupCR]
    BY <1>11, <2>a DEF CollectBackup, TypeOK
  <2>2. QED
    BY <1>11, <2>1 DEF CollectBackup, TypeOK, outsideVars, historyVars
<1>12. ASSUME NEW n \in Names, CacheCatchesUp(n) PROVE TypeOK'
  BY <1>12 DEF CacheCatchesUp, TypeOK, outsideVars, historyVars
<1>13. ASSUME NEW n \in Names, Mirror(n) PROVE TypeOK'
  <2>2. Get(n) \in OpBackup
    BY DEF Get, TypeOK
  <2>a. /\ Get(n).uid \in UID /\ Get(n).named \in BOOLEAN
        /\ Get(n).storage \in Storages \cup {NoStorage}
    BY <2>2 DEF OpBackup
  <2>3. [NoBackup EXCEPT !.scheduled = Get(n).named, !.storage = Get(n).storage,
                         !.owner = Get(n).uid] \in BackupCR
    BY <2>a, ConstantsTyped DEF BackupCR
  <2>4. mirror' \in [Names -> BackupCR]
    BY <1>13, <2>3 DEF Mirror, TypeOK
  <2>5. QED
    BY <1>13, <2>4 DEF Mirror, TypeOK, historyVars
<1>13a. ASSUME NEW n \in Names, MirrorCreates(n) PROVE TypeOK'
  <2>0. mirror[n] \in BackupCR /\ uids[n] \in [cr : UID, ob : UID]
    BY DEF TypeOK
  <2>1. mirror' \in [Names -> BackupCR]
    BY <1>13a, ConstantsTyped DEF MirrorCreates, TypeOK
  <2>2. CASE UNCHANGED <<uids, backup>>
    BY <1>13a, <2>1, <2>2 DEF MirrorCreates, TypeOK, historyVars
  <2>3. CASE /\ uids[n].cr < MaxUID
             /\ uids' = [uids EXCEPT ![n].cr = @ + 1]
             /\ backup' = [backup EXCEPT ![n] = [mirror[n] EXCEPT !.uid = uids[n].cr + 1]]
    <3>1. uids[n].cr + 1 \in UID
      BY <2>0, <2>3 DEF UID, MaxOpUID
    <3>2. uids' \in [Names -> [cr : UID, ob : UID]]
      BY <2>3, <3>1 DEF TypeOK
    <3>3. [mirror[n] EXCEPT !.uid = uids[n].cr + 1] \in BackupCR
      BY <2>0, <3>1 DEF BackupCR
    <3>4. backup' \in [Names -> BackupCR]
      BY <2>3, <3>3 DEF TypeOK
    <3>5. QED
      BY <1>13a, <2>1, <3>2, <3>4 DEF MirrorCreates, TypeOK, historyVars
  <2>4. QED
    BY <1>13a, <2>2, <2>3 DEF MirrorCreates
<1>14. ASSUME NEW ns, Interrupt(ns) PROVE TypeOK'
  <2>1. left' \in [policy : 0..MaxPolicyChanges, deletes : 0..MaxDirectDeletes, restarts : 0..MaxRestarts]
    BY <1>14 DEF Interrupt, TypeOK
  <2>2. work' \in [Names -> Work]
    BY <1>14, ConstantsTyped DEF Interrupt, TypeOK
  <2>2a. mirror' \in [Names -> BackupCR]
    BY <1>14, ConstantsTyped DEF Interrupt, TypeOK
  <2>3. QED
    BY <1>14, <2>1, <2>2, <2>2a DEF Interrupt, TypeOK, outsideVars, historyVars
<1>15. ASSUME NEW n \in Names, Handler(n) PROVE TypeOK'
  <2>0. /\ work[n] \in Work /\ backup[n] \in BackupCR /\ op[n] \in OpBackup
        /\ Get(n) \in OpBackup /\ work[n].cr \in BackupCR /\ work[n].ob \in OpBackup
        /\ work[n].state \in BackupState
    BY DEF TypeOK, Get, Work
  <2>1. CASE SyncBackup(n)
    <3>1. [NoWork EXCEPT !.pc = "get", !.cr = backup[n]] \in Work
      BY <2>0, ConstantsTyped DEF Work, NoWork
    <3>2. QED
      BY <2>1, <3>1, StepTyped DEF SyncBackup, TypeOK
  <2>2. CASE SyncGet(n)
    <3>1. \A s \in BackupState : [work[n] EXCEPT !.pc = "report", !.state = s] \in Work
      BY <2>0 DEF Work
    <3>2. /\ [work[n] EXCEPT !.pc = "create"] \in Work
          /\ [work[n] EXCEPT !.pc = "patch", !.ob = Get(n)] \in Work
      BY <2>0 DEF Work
    <3>3. backupState(Get(n).state) \in BackupState /\ "Pending" \in BackupState
      BY <2>0, BackupStateTyped DEF OpBackup, BackupState
    <3>4. \E w \in Work : Step(n, w)
      BY <2>2, <3>1, <3>2, <3>3 DEF SyncGet, Report
    <3>5. QED
      BY <2>2, <3>4, StepTyped DEF SyncGet, TypeOK
  <2>3. CASE SyncCreate(n)
    <3>1. uids' \in [Names -> [cr : UID, ob : UID]]
      BY <2>3 DEF SyncCreate, TypeOK, UID, MaxOpUID
    <3>2. op' \in [Names -> OpBackup]
      <4>0. /\ uids[n].ob < MaxOpUID => uids[n].ob + 1 \in UID
            /\ work[n].cr.uid \in UID /\ 0 \in UID
            /\ work[n].cr.storage \in Storages \cup {NoStorage}
            /\ (~work[n].cr.retain) \in BOOLEAN
        BY <2>0 DEF TypeOK, UID, MaxOpUID, BackupCR
      <4>1. uids[n].ob < MaxOpUID => newOpBackup(work[n].cr, uids[n].ob + 1) \in OpBackup
        BY <4>0 DEF newOpBackup, OpBackup, NoOp, OpState
      <4>2. QED
        BY <2>3, <4>1 DEF SyncCreate, TypeOK
    <3>3. /\ [work[n] EXCEPT !.pc = "patch", !.ob = op'[n]] \in Work
          /\ [work[n] EXCEPT !.pc = "patch", !.ob = Get(n)] \in Work
      BY <2>0, <3>2 DEF Work
    <3>4. \E w \in Work : Step(n, w)
      BY <2>3, <3>3, ConstantsTyped DEF SyncCreate
    <3>5. QED
      BY <2>3, <3>1, <3>2, <3>4, StepTyped DEF SyncCreate, TypeOK
  <2>4. CASE SyncPatch(n)
    <3>0. Patched(op[n], work[n].ob, work[n].cr) \in OpBackup
      BY <2>0, PatchedTyped
    <3>1. op' \in [Names -> OpBackup]
      BY <2>4, <3>0 DEF SyncPatch, TypeOK
    <3>2. [work[n] EXCEPT !.pc = "report", !.state = backupState(op[n].state)] \in Work
      <4>1. backupState(op[n].state) \in BackupState
        BY <2>0, BackupStateTyped DEF OpBackup
      <4>2. QED
        BY <2>0, <4>1 DEF Work
    <3>3. \E w \in Work : Step(n, w)
      BY <2>4, <3>2, ConstantsTyped DEF SyncPatch, Report
    <3>4. QED
      BY <2>4, <3>1, <3>3, StepTyped DEF SyncPatch, TypeOK
  <2>5. CASE SyncReport(n)
    <3>1. backup' \in [Names -> BackupCR]
      BY <2>0, <2>5 DEF SyncReport, TypeOK, BackupCR
    <3>2. QED
      BY <2>5, <3>1, ConstantsTyped, StepTyped DEF SyncReport, TypeOK
  <2>6. CASE CleanupBackup(n)
    <3>1. [NoWork EXCEPT !.pc = "cleanupGet", !.cr = backup[n]] \in Work
      BY <2>0, ConstantsTyped DEF Work, NoWork
    <3>2. QED
      BY <2>6, <3>1, StepTyped DEF CleanupBackup, TypeOK
  <2>7. CASE CleanupGet(n)
    <3>1. /\ [work[n] EXCEPT !.pc = "cleaned"] \in Work
          /\ [work[n] EXCEPT !.pc = "removeFinalizer", !.ob = Get(n)] \in Work
          /\ [work[n] EXCEPT !.pc = "delete"] \in Work
      BY <2>0 DEF Work
    <3>2. \E w \in Work : Step(n, w)
      BY <2>7, <3>1, ConstantsTyped DEF CleanupGet
    <3>3. QED
      BY <2>7, <3>2, StepTyped DEF CleanupGet, TypeOK
  <2>8. CASE CleanupRemoveFinalizer(n)
    <3>1. op' \in [Names -> OpBackup]
      BY <2>0, <2>8, WithFinalizerTyped DEF CleanupRemoveFinalizer, TypeOK
    <3>2. QED
      BY <2>8, <3>1, ConstantsTyped, StepTyped DEF CleanupRemoveFinalizer, TypeOK
  <2>9. CASE CleanupDelete(n)
    <3>1. op' \in [Names -> OpBackup]
      BY <2>0, <2>9, DeletedTyped DEF CleanupDelete, TypeOK
    <3>2. QED
      BY <2>9, <3>1, ConstantsTyped, StepTyped DEF CleanupDelete, TypeOK
  <2>10. CASE CleanupDone(n)
    <3>1. backup' \in [Names -> BackupCR]
      BY <2>10, ConstantsTyped DEF CleanupDone, TypeOK
    <3>2. QED
      BY <2>10, <3>1, ConstantsTyped, StepTyped DEF CleanupDone, TypeOK
  <2>11. QED
    BY <1>15, <2>1, <2>2, <2>3, <2>4, <2>5, <2>6, <2>7, <2>8, <2>9, <2>10 DEF Handler
<1>16. CASE UNCHANGED vars
  BY <1>16 DEF vars, TypeOK
<1>17. CASE ChangeClass
  BY <1>17 DEF ChangeClass, TypeOK, historyVars
<1>18. QED
  BY <1>1, <1>2, <1>3, <1>4, <1>5, <1>6, <1>7, <1>8, <1>9, <1>9a, <1>10, <1>11, <1>12,
     <1>13, <1>13a, <1>14, <1>15, <1>16, <1>17 DEF Next, Users, Operator

(* Every variable of Backups keeps its type, whatever the constants.          *)
THEOREM TypeCorrect == Spec => []TypeOK
  BY TypeInit, TypeStep, PTL DEF Spec

-----------------------------------------------------------------------------
(* With reads that do not lag, three facts tie a handler to its Backup: the   *)
(* Backup it works on is the one that exists, a clean-up works on a deleted   *)
(* Backup and sees its final policy, and a clean-up that is done has seen its *)
(* operator backup gone. Data that is to be retained belongs to an operator   *)
(* backup whose Backup is deleted with Retain; nobody has begun to delete it, *)
(* and nobody will while its finalizer is on.                                 *)
Shape(n) ==
    /\ ~Exists(op[n]) => op[n] = NoOp
    /\ ~Exists(backup[n]) => backup[n] = NoBackup

Fresh(n) ==
    /\ op[n].uid <= uids[n].ob
    /\ \A u \in Stamp : <<n, u>> \in stored => u <= uids[n].ob

Snapshot(n) ==
    work[n].pc # "idle" => Exists(backup[n]) /\ work[n].cr.uid = backup[n].uid

CleanupSnapshot(n) ==
    work[n].pc \in {"cleanupGet", "removeFinalizer", "delete", "cleaned"} =>
       backup[n].deleting /\ work[n].cr.retain = backup[n].retain

Kept(n) == <<n, op[n].uid>> \in retained

CleanedGone(n) == work[n].pc = "cleaned" => op[n].controller = 0 /\ ~Kept(n)

KeptHeld(n) == Kept(n) => backup[n].deleting /\ backup[n].retain /\ ~op[n].deleting

DeleteSafe(n) == work[n].pc = "delete" /\ Kept(n) => ~op[n].deleteData

Owned(n) == op[n].controller # 0 => op[n].controller = backup[n].uid

Inv(n) ==
    /\ Shape(n) /\ Fresh(n) /\ Snapshot(n) /\ CleanupSnapshot(n)
    /\ CleanedGone(n) /\ KeptHeld(n) /\ DeleteSafe(n) /\ Owned(n)

IndInv ==
    /\ TypeOK
    /\ \A n \in Names : Inv(n)
    /\ retained \subseteq stored

(* What a step does not touch keeps its invariant.                            *)
LEMMA Others ==
  ASSUME NEW m \in Names, Inv(m), TypeOK,
         backup'[m] = backup[m], op'[m] = op[m], uids'[m] = uids[m], work'[m] = work[m],
         \A u : <<m, u>> \in stored' => <<m, u>> \in stored,
         \A u : <<m, u>> \in retained' => <<m, u>> \in retained
  PROVE  Inv(m)'
  BY DEF Inv, Shape, Fresh, Snapshot, CleanupSnapshot, CleanedGone, Kept, KeptHeld,
         DeleteSafe, Owned, Exists

(* What a handler remembers after one of its steps.                           *)
LEMMA StepWork ==
  ASSUME NEW n \in Names, TypeOK, NEW w, Step(n, w)
  PROVE  work'[n] = w /\ stored' = stored /\ retained' = retained
  BY DEF Step, TypeOK, historyVars

(* The updates that handlers make to their memory keep the Backup they read.  *)
LEMMA WorkFields ==
  ASSUME NEW w \in Work, NEW pc
  PROVE  /\ [w EXCEPT !.pc = pc].pc = pc /\ [w EXCEPT !.pc = pc].cr = w.cr
         /\ \A ob : /\ [w EXCEPT !.pc = pc, !.ob = ob].pc = pc
                    /\ [w EXCEPT !.pc = pc, !.ob = ob].cr = w.cr
         /\ \A st : /\ [w EXCEPT !.pc = pc, !.state = st].pc = pc
                    /\ [w EXCEPT !.pc = pc, !.state = st].cr = w.cr
  BY DEF Work

(* A patch keeps an operator backup's identity, or removes the object.        *)
LEMMA PatchedFields ==
  ASSUME NEW now \in OpBackup, NEW read \in OpBackup, NEW cr \in BackupCR
  PROVE  LET b == Patched(now, read, cr) IN
         \/ /\ b.uid = now.uid /\ b.deleting = now.deleting
            /\ b.controller \in {now.controller, cr.uid}
         \/ b = NoOp
<1> DEFINE c == IF read.controller = cr.uid THEN now ELSE [now EXCEPT !.controller = cr.uid]
<1>1. /\ c \in OpBackup /\ c.uid = now.uid /\ c.deleting = now.deleting
      /\ c.controller \in {now.controller, cr.uid}
  BY DEF OpBackup, BackupCR
<1>2. \A keep : /\ [c EXCEPT !.deleteData = keep].uid = c.uid
                /\ [c EXCEPT !.deleteData = keep].deleting = c.deleting
                /\ [c EXCEPT !.deleteData = keep].controller = c.controller
  BY <1>1 DEF OpBackup
<1> HIDE DEF c
<1>3. Patched(now, read, cr) \in {c, NoOp, [c EXCEPT !.deleteData = ~cr.retain]}
  BY DEF Patched, WithFinalizer, c
<1>4. QED
  BY <1>1, <1>2, <1>3

(* No step breaks the inductive invariant while reads do not lag.             *)
LEMMA InvStep ==
  ASSUME ~StaleReads, IndInv, [Next]_vars
  PROVE  IndInv'
<1>1. TypeOK'
  BY TypeStep DEF IndInv
<1> USE DEF IndInv
<1>2. ASSUME NEW n \in Names, NEW s \in Storages, NEW retain \in BOOLEAN,
             CreateBackup(n, s, retain)
      PROVE  (\A m \in Names : Inv(m)') /\ retained' \subseteq stored'
  <2>0. /\ backup[n] \in BackupCR /\ op[n] \in OpBackup /\ work[n] \in Work
        /\ uids[n] \in [cr : UID, ob : UID] /\ Inv(n)
    BY DEF TypeOK
  <2>1. ASSUME NEW m \in Names, m # n PROVE Inv(m)'
    BY <1>2, <2>1, Others DEF CreateBackup, outsideVars, historyVars, TypeOK
  <2>2. Inv(n)'
    BY <1>1, <1>2, <2>0, BoundsAssumption DEF CreateBackup, NoBackup, outsideVars, historyVars, TypeOK, BackupCR, OpBackup,
       Inv, Shape, Fresh, Snapshot, CleanupSnapshot, CleanedGone, Kept, KeptHeld,
         DeleteSafe, Owned, Exists, UID, MaxOpUID, Stamp
  <2>3. retained' \subseteq stored'
    BY <1>2, <2>0 DEF CreateBackup, NoBackup, outsideVars, historyVars, TypeOK
  <2>4. QED
    BY <2>1, <2>2, <2>3
<1>3. ASSUME NEW n \in Names, ChangePolicy(n)
      PROVE  (\A m \in Names : Inv(m)') /\ retained' \subseteq stored'
  <2>0. /\ backup[n] \in BackupCR /\ op[n] \in OpBackup /\ work[n] \in Work
        /\ uids[n] \in [cr : UID, ob : UID] /\ Inv(n)
    BY DEF TypeOK
  <2>1. ASSUME NEW m \in Names, m # n PROVE Inv(m)'
    BY <1>3, <2>1, Others DEF ChangePolicy, outsideVars, historyVars, TypeOK
  <2>2. Inv(n)'
    BY <1>1, <1>3, <2>0, BoundsAssumption DEF ChangePolicy, outsideVars, historyVars, TypeOK, BackupCR, OpBackup,
       Inv, Shape, Fresh, Snapshot, CleanupSnapshot, CleanedGone, Kept, KeptHeld,
         DeleteSafe, Owned, Exists, UID, MaxOpUID, Stamp
  <2>3. retained' \subseteq stored'
    BY <1>3, <2>0 DEF ChangePolicy, outsideVars, historyVars, TypeOK
  <2>4. QED
    BY <2>1, <2>2, <2>3
<1>4. ASSUME NEW n \in Names, DeleteBackup(n)
      PROVE  (\A m \in Names : Inv(m)') /\ retained' \subseteq stored'
  <2>0. /\ backup[n] \in BackupCR /\ op[n] \in OpBackup /\ work[n] \in Work
        /\ uids[n] \in [cr : UID, ob : UID] /\ Inv(n)
    BY DEF TypeOK
  <2>1. ASSUME NEW m \in Names, m # n PROVE Inv(m)'
    BY <1>4, <2>1, Others DEF DeleteBackup, DataOf, outsideVars, historyVars, TypeOK
  <2>2. Inv(n)'
    BY <1>1, <1>4, <2>0, BoundsAssumption DEF DeleteBackup, DataOf, outsideVars, historyVars, TypeOK, BackupCR, OpBackup,
       Inv, Shape, Fresh, Snapshot, CleanupSnapshot, CleanedGone, Kept, KeptHeld,
         DeleteSafe, Owned, Exists, UID, MaxOpUID, Stamp
  <2>3. retained' \subseteq stored'
    BY <1>4, <2>0 DEF DeleteBackup, DataOf, outsideVars, historyVars, TypeOK
  <2>4. QED
    BY <2>1, <2>2, <2>3
<1>5. ASSUME NEW n \in Names, NEW s \in Storages, NEW d \in BOOLEAN,
             NEW nm \in BOOLEAN, CronBackup(n, s, d, nm)
      PROVE  (\A m \in Names : Inv(m)') /\ retained' \subseteq stored'
  <2>0. /\ backup[n] \in BackupCR /\ op[n] \in OpBackup /\ work[n] \in Work
        /\ uids[n] \in [cr : UID, ob : UID] /\ Inv(n)
    BY DEF TypeOK
  <2>1. ASSUME NEW m \in Names, m # n PROVE Inv(m)'
    BY <1>5, <2>1, Others DEF CronBackup, outsideVars, historyVars, TypeOK
  <2>2. Inv(n)'
    BY <1>1, <1>5, <2>0, BoundsAssumption DEF CronBackup, NoOp, outsideVars, historyVars, TypeOK, BackupCR, OpBackup,
       Inv, Shape, Fresh, Snapshot, CleanupSnapshot, CleanedGone, Kept, KeptHeld,
         DeleteSafe, Owned, Exists, UID, MaxOpUID, Stamp
  <2>3. retained' \subseteq stored'
    BY <1>5, <2>0 DEF CronBackup, NoOp, outsideVars, historyVars, TypeOK
  <2>4. QED
    BY <2>1, <2>2, <2>3
<1>6. ASSUME NEW n \in Names, OperatorRuns(n)
      PROVE  (\A m \in Names : Inv(m)') /\ retained' \subseteq stored'
  <2>0. /\ backup[n] \in BackupCR /\ op[n] \in OpBackup /\ work[n] \in Work
        /\ uids[n] \in [cr : UID, ob : UID] /\ Inv(n)
    BY DEF TypeOK
  <2>1. ASSUME NEW m \in Names, m # n PROVE Inv(m)'
    BY <1>6, <2>1, Others DEF OperatorRuns, outsideVars, historyVars, TypeOK
  <2>2. Inv(n)'
    BY <1>1, <1>6, <2>0, BoundsAssumption DEF OperatorRuns, outsideVars, historyVars, TypeOK, BackupCR, OpBackup,
       Inv, Shape, Fresh, Snapshot, CleanupSnapshot, CleanedGone, Kept, KeptHeld,
         DeleteSafe, Owned, Exists, UID, MaxOpUID, Stamp
  <2>3. retained' \subseteq stored'
    BY <1>6, <2>0 DEF OperatorRuns, outsideVars, historyVars, TypeOK
  <2>4. QED
    BY <2>1, <2>2, <2>3
<1>7. ASSUME NEW n \in Names, OperatorPurges(n)
      PROVE  (\A m \in Names : Inv(m)') /\ retained' \subseteq stored'
  <2>0. /\ backup[n] \in BackupCR /\ op[n] \in OpBackup /\ work[n] \in Work
        /\ uids[n] \in [cr : UID, ob : UID] /\ Inv(n)
    BY DEF TypeOK
  <2>1. ASSUME NEW m \in Names, m # n PROVE Inv(m)'
    BY <1>7, <2>1, Others DEF OperatorPurges, outsideVars, historyVars, TypeOK
  <2>2. Inv(n)'
    BY <1>1, <1>7, <2>0, BoundsAssumption DEF OperatorPurges, NoOp, outsideVars, historyVars, TypeOK, BackupCR, OpBackup,
       Inv, Shape, Fresh, Snapshot, CleanupSnapshot, CleanedGone, Kept, KeptHeld,
         DeleteSafe, Owned, Exists, UID, MaxOpUID, Stamp
  <2>3. retained' \subseteq stored'
    BY <1>7, <2>0 DEF OperatorPurges, Inv, KeptHeld, Kept, historyVars
  <2>4. QED
    BY <2>1, <2>2, <2>3
<1>8. ASSUME NEW n \in Names, OperatorPrunes(n)
      PROVE  (\A m \in Names : Inv(m)') /\ retained' \subseteq stored'
  <2>0. /\ backup[n] \in BackupCR /\ op[n] \in OpBackup /\ work[n] \in Work
        /\ uids[n] \in [cr : UID, ob : UID] /\ Inv(n)
    BY DEF TypeOK
  <2>1. ASSUME NEW m \in Names, m # n PROVE Inv(m)'
    BY <1>8, <2>1, Others DEF OperatorPrunes, outsideVars, historyVars, TypeOK
  <2>2. Inv(n)'
    BY <1>1, <1>8, <2>0, BoundsAssumption DEF OperatorPrunes, Deleted, NoOp, outsideVars, historyVars, TypeOK, BackupCR, OpBackup,
       Inv, Shape, Fresh, Snapshot, CleanupSnapshot, CleanedGone, Kept, KeptHeld,
         DeleteSafe, Owned, Exists, UID, MaxOpUID, Stamp
  <2>3. retained' \subseteq stored'
    BY <1>8, <2>0 DEF OperatorPrunes, Deleted, NoOp, outsideVars, historyVars, TypeOK
  <2>4. QED
    BY <2>1, <2>2, <2>3
<1>8a. ASSUME NEW n \in Names, DeleteOpBackup(n)
      PROVE  (\A m \in Names : Inv(m)') /\ retained' \subseteq stored'
  <2>0. /\ backup[n] \in BackupCR /\ op[n] \in OpBackup /\ work[n] \in Work
        /\ uids[n] \in [cr : UID, ob : UID] /\ Inv(n)
    BY DEF TypeOK
  <2>1. ASSUME NEW m \in Names, m # n PROVE Inv(m)'
    BY <1>8a, <2>1, Others DEF DeleteOpBackup, outsideVars, TypeOK
  <2>2. Inv(n)'
    BY <1>1, <1>8a, <2>0, BoundsAssumption DEF DeleteOpBackup, Deleted, NoOp, outsideVars, TypeOK, BackupCR, OpBackup,
       Inv, Shape, Fresh, Snapshot, CleanupSnapshot, CleanedGone, Kept, KeptHeld,
         DeleteSafe, Owned, Exists, UID, MaxOpUID, Stamp
  <2>3. retained' \subseteq stored'
    BY <1>8a, <2>0 DEF DeleteOpBackup, Deleted, NoOp, outsideVars, TypeOK
  <2>4. QED
    BY <2>1, <2>2, <2>3
<1>9. ASSUME NEW n \in Names, CollectOp(n)
      PROVE  (\A m \in Names : Inv(m)') /\ retained' \subseteq stored'
  <2>0. /\ backup[n] \in BackupCR /\ op[n] \in OpBackup /\ work[n] \in Work
        /\ uids[n] \in [cr : UID, ob : UID] /\ Inv(n)
    BY DEF TypeOK
  <2>1. ASSUME NEW m \in Names, m # n PROVE Inv(m)'
    BY <1>9, <2>1, Others DEF CollectOp, outsideVars, historyVars, TypeOK
  <2>2. Inv(n)'
    BY <1>1, <1>9, <2>0, BoundsAssumption DEF CollectOp, Deleted, NoOp, outsideVars, historyVars, TypeOK, BackupCR, OpBackup,
       Inv, Shape, Fresh, Snapshot, CleanupSnapshot, CleanedGone, Kept, KeptHeld,
         DeleteSafe, Owned, Exists, UID, MaxOpUID, Stamp
  <2>3. retained' \subseteq stored'
    BY <1>9, <2>0 DEF CollectOp, Deleted, NoOp, outsideVars, historyVars, TypeOK
  <2>4. QED
    BY <2>1, <2>2, <2>3
<1>10. ASSUME NEW n \in Names, CollectBackup(n)
      PROVE  (\A m \in Names : Inv(m)') /\ retained' \subseteq stored'
  <2>0. /\ backup[n] \in BackupCR /\ op[n] \in OpBackup /\ work[n] \in Work
        /\ uids[n] \in [cr : UID, ob : UID] /\ Inv(n)
    BY DEF TypeOK
  <2>1. ASSUME NEW m \in Names, m # n PROVE Inv(m)'
    BY <1>10, <2>1, Others DEF CollectBackup, outsideVars, historyVars, TypeOK
  <2>2. Inv(n)'
    BY <1>1, <1>10, <2>0, BoundsAssumption DEF CollectBackup, outsideVars, historyVars, TypeOK, BackupCR, OpBackup,
       Inv, Shape, Fresh, Snapshot, CleanupSnapshot, CleanedGone, Kept, KeptHeld,
         DeleteSafe, Owned, Exists, UID, MaxOpUID, Stamp
  <2>3. retained' \subseteq stored'
    BY <1>10, <2>0 DEF CollectBackup, outsideVars, historyVars, TypeOK
  <2>4. QED
    BY <2>1, <2>2, <2>3
<1>11. ASSUME NEW n \in Names, MirrorCreates(n)
      PROVE  (\A m \in Names : Inv(m)') /\ retained' \subseteq stored'
  <2>0. /\ backup[n] \in BackupCR /\ op[n] \in OpBackup /\ work[n] \in Work
        /\ uids[n] \in [cr : UID, ob : UID] /\ Inv(n) /\ mirror[n] \in BackupCR
    BY DEF TypeOK
  <2>1. ASSUME NEW m \in Names, m # n PROVE Inv(m)'
    BY <1>11, <2>1, Others DEF MirrorCreates, historyVars, TypeOK
  <2>a. UNCHANGED <<op, work, stored, retained>>
    BY <1>11 DEF MirrorCreates, historyVars
  <2>2. CASE UNCHANGED <<uids, backup>>
    BY <1>1, <2>1, <2>2, <2>a, Others
  <2>3. CASE /\ ~Exists(backup[n]) /\ uids[n].cr < MaxUID
             /\ uids' = [uids EXCEPT ![n].cr = @ + 1]
             /\ backup' = [backup EXCEPT ![n] = [mirror[n] EXCEPT !.uid = uids[n].cr + 1]]
    <3>1. backup'[n] = [mirror[n] EXCEPT !.uid = uids[n].cr + 1]
      BY <2>3 DEF TypeOK
    <3>2. backup'[n].uid # 0 /\ uids'[n].ob = uids[n].ob
      BY <2>0, <2>3, <3>1, BoundsAssumption DEF TypeOK, BackupCR, UID, MaxOpUID
    <3>3. /\ backup[n] = NoBackup /\ ~Kept(n)
          /\ work[n].pc = "idle" /\ op[n].controller = 0
      BY <2>0, <2>3 DEF Inv, Shape, KeptHeld, Snapshot, Owned, NoBackup, Exists
    <3>4. Inv(n)'
      BY <2>0, <2>a, <3>2, <3>3 DEF Inv, Shape, Fresh, Snapshot, CleanupSnapshot, CleanedGone,
         Kept, KeptHeld, DeleteSafe, Owned, Exists
    <3>5. QED
      BY <2>1, <2>a, <3>4
  <2>4. QED
    BY <1>11, <2>2, <2>3 DEF MirrorCreates
<1>12. ASSUME NEW n \in Names, SyncBackup(n)
      PROVE  (\A m \in Names : Inv(m)') /\ retained' \subseteq stored'
  <2>0. /\ backup[n] \in BackupCR /\ op[n] \in OpBackup /\ work[n] \in Work
        /\ uids[n] \in [cr : UID, ob : UID] /\ Inv(n)
    BY DEF TypeOK
  <2>1. ASSUME NEW m \in Names, m # n PROVE Inv(m)'
    BY <1>12, <2>1, Others DEF SyncBackup, Step, outsideVars, historyVars, TypeOK
  <2>2. Inv(n)'
    BY <1>1, <1>12, <2>0, BoundsAssumption DEF SyncBackup, Step, NoWork, outsideVars, historyVars, TypeOK, BackupCR, OpBackup,
       Inv, Shape, Fresh, Snapshot, CleanupSnapshot, CleanedGone, Kept, KeptHeld,
         DeleteSafe, Owned, Exists, UID, MaxOpUID, Stamp
  <2>3. retained' \subseteq stored'
    BY <1>12, <2>0 DEF SyncBackup, Step, NoWork, outsideVars, historyVars, TypeOK
  <2>4. QED
    BY <2>1, <2>2, <2>3
<1>13. ASSUME NEW n \in Names, SyncGet(n)
      PROVE  (\A m \in Names : Inv(m)') /\ retained' \subseteq stored'
  <2>0. /\ backup[n] \in BackupCR /\ op[n] \in OpBackup /\ work[n] \in Work
        /\ uids[n] \in [cr : UID, ob : UID] /\ Inv(n)
    BY DEF TypeOK
  <2>1. ASSUME NEW m \in Names, m # n PROVE Inv(m)'
    BY <1>13, <2>1, Others DEF SyncGet, Step, Report, outsideVars, historyVars, TypeOK
  <2>a. /\ work[n].pc = "get" /\ work'[n].pc \in {"report", "create", "patch"}
        /\ work'[n].cr = work[n].cr
        /\ UNCHANGED <<backup, op, uids, stored, retained>>
    <3>1. /\ [work[n] EXCEPT !.pc = "create"].pc = "create"
          /\ [work[n] EXCEPT !.pc = "create"].cr = work[n].cr
          /\ [work[n] EXCEPT !.pc = "patch", !.ob = Get(n)].pc = "patch"
          /\ [work[n] EXCEPT !.pc = "patch", !.ob = Get(n)].cr = work[n].cr
          /\ \A st : /\ [work[n] EXCEPT !.pc = "report", !.state = st].pc = "report"
                     /\ [work[n] EXCEPT !.pc = "report", !.state = st].cr = work[n].cr
      BY <2>0, WorkFields
    <3>2. /\ work[n].pc = "get" /\ UNCHANGED <<backup, op, uids>>
          /\ \/ Step(n, [work[n] EXCEPT !.pc = "create"])
             \/ Step(n, [work[n] EXCEPT !.pc = "patch", !.ob = Get(n)])
             \/ Step(n, [work[n] EXCEPT !.pc = "report", !.state = "Pending"])
             \/ Step(n, [work[n] EXCEPT !.pc = "report",
                                        !.state = backupState(Get(n).state)])
      BY <1>13 DEF SyncGet, Report
    <3>3. CASE Step(n, [work[n] EXCEPT !.pc = "create"])
      BY <3>1, <3>2, <3>3, StepWork
    <3>4. CASE Step(n, [work[n] EXCEPT !.pc = "patch", !.ob = Get(n)])
      BY <3>1, <3>2, <3>4, StepWork
    <3>5. CASE Step(n, [work[n] EXCEPT !.pc = "report", !.state = "Pending"])
      <4>1. work'[n] = [work[n] EXCEPT !.pc = "report", !.state = "Pending"] /\ stored' = stored /\ retained' = retained
        BY <3>5, StepWork
      <4>2. QED
        BY <3>1, <3>2, <4>1
    <3>6. CASE Step(n, [work[n] EXCEPT !.pc = "report",
                                      !.state = backupState(Get(n).state)])
      <4>1. work'[n] = [work[n] EXCEPT !.pc = "report", !.state = backupState(Get(n).state)]
            /\ stored' = stored /\ retained' = retained
        BY <3>6, StepWork
      <4>2. QED
        BY <3>1, <3>2, <4>1
    <3>7. QED
      BY <3>2, <3>3, <3>4, <3>5, <3>6
  <2>2. Inv(n)'
    BY <1>1, <2>0, <2>a, BoundsAssumption DEF TypeOK, BackupCR, OpBackup,
       Inv, Shape, Fresh, Snapshot, CleanupSnapshot, CleanedGone, Kept, KeptHeld,
       DeleteSafe, Owned, Exists, UID, MaxOpUID, Stamp
  <2>3. retained' \subseteq stored'
    BY <1>13, <2>0 DEF SyncGet, Step, Report, Get, outsideVars, historyVars, TypeOK
  <2>4. QED
    BY <2>1, <2>2, <2>3
<1>14. ASSUME NEW n \in Names, SyncCreate(n)
      PROVE  (\A m \in Names : Inv(m)') /\ retained' \subseteq stored'
  <2>0. /\ backup[n] \in BackupCR /\ op[n] \in OpBackup /\ work[n] \in Work
        /\ uids[n] \in [cr : UID, ob : UID] /\ Inv(n)
    BY DEF TypeOK
  <2>1. ASSUME NEW m \in Names, m # n PROVE Inv(m)'
    BY <1>14, <2>1, Others DEF SyncCreate, Step, outsideVars, historyVars, TypeOK
  <2>a. /\ work[n].pc = "create" /\ work'[n].pc \in {"patch", "idle"}
        /\ work'[n].cr = work[n].cr \/ work'[n].pc = "idle"
        /\ UNCHANGED <<backup, stored, retained>>
        /\ \/ op'[n] = op[n] /\ uids'[n] = uids[n]
           \/ /\ op'[n] = newOpBackup(work[n].cr, uids[n].ob + 1)
              /\ uids'[n].ob = uids[n].ob + 1
    <3>1. /\ work[n].pc = "create" /\ work'[n].pc \in {"patch", "idle"}
          /\ work'[n].cr = work[n].cr \/ work'[n].pc = "idle"
          /\ UNCHANGED <<backup, stored, retained>>
      <4>1. \A ob : /\ [work[n] EXCEPT !.pc = "patch", !.ob = ob].pc = "patch"
                    /\ [work[n] EXCEPT !.pc = "patch", !.ob = ob].cr = work[n].cr
        BY <2>0, WorkFields
      <4>2. /\ work[n].pc = "create" /\ UNCHANGED backup
            /\ \/ Step(n, NoWork)
               \/ Step(n, [work[n] EXCEPT !.pc = "patch", !.ob = op'[n]])
               \/ Step(n, [work[n] EXCEPT !.pc = "patch", !.ob = Get(n)])
        BY <1>14 DEF SyncCreate
      <4>3. CASE Step(n, NoWork)
        BY <4>2, <4>3, StepWork DEF NoWork
      <4>4. CASE Step(n, [work[n] EXCEPT !.pc = "patch", !.ob = op'[n]])
        BY <4>1, <4>2, <4>4, StepWork
      <4>5. CASE Step(n, [work[n] EXCEPT !.pc = "patch", !.ob = Get(n)])
        BY <4>1, <4>2, <4>5, StepWork
      <4>6. QED
        BY <4>2, <4>3, <4>4, <4>5
    <3>2. \/ op'[n] = op[n] /\ uids'[n] = uids[n]
          \/ /\ op'[n] = newOpBackup(work[n].cr, uids[n].ob + 1)
             /\ uids'[n].ob = uids[n].ob + 1
      BY <1>14 DEF SyncCreate, TypeOK
    <3>3. QED
      BY <3>1, <3>2
  <2>2. ASSUME op'[n] = op[n], uids'[n] = uids[n] PROVE Inv(n)'
    BY <1>1, <2>0, <2>2, <2>a, BoundsAssumption DEF TypeOK, BackupCR, OpBackup, Work,
       Inv, Shape, Fresh, Snapshot, CleanupSnapshot, CleanedGone, Kept, KeptHeld,
       DeleteSafe, Owned, Exists, UID, MaxOpUID, Stamp
  <2>b. ASSUME op'[n] = newOpBackup(work[n].cr, uids[n].ob + 1),
               uids'[n].ob = uids[n].ob + 1
        PROVE  Inv(n)'
    <3>1. /\ op'[n].uid = uids[n].ob + 1 /\ op'[n].controller = work[n].cr.uid
      BY <2>b DEF newOpBackup, NoOp
    <3>2. uids[n].ob \in Nat /\ uids[n].ob + 1 # 0
      BY <2>0, BoundsAssumption DEF UID, MaxOpUID
    <3>3. work[n].cr.uid = backup[n].uid
      BY <2>0, <2>a DEF Inv, Snapshot
    <3>4. <<n, uids[n].ob + 1>> \notin retained
      BY <2>0, <3>2 DEF Inv, Fresh, TypeOK
    <3>5. Shape(n)' /\ Owned(n)'
      BY <2>0, <2>a, <3>1, <3>2, <3>3 DEF Shape, Owned, Exists, Inv
    <3>6. Fresh(n)'
      BY <2>0, <2>a, <2>b, <3>1, <3>2 DEF Fresh, Inv, Stamp
    <3>7. Snapshot(n)' /\ CleanupSnapshot(n)'
      BY <2>0, <2>a DEF Inv, Snapshot, CleanupSnapshot, Exists
    <3>8. ~Kept(n)'
      BY <2>a, <3>1, <3>4 DEF Kept
    <3>9. QED
      BY <2>a, <3>5, <3>6, <3>7, <3>8 DEF Inv, CleanedGone, KeptHeld, DeleteSafe
  <2>3. retained' \subseteq stored'
    BY <1>14, <2>0 DEF SyncCreate, Step, newOpBackup, NoOp, NoWork, Get, outsideVars, historyVars, TypeOK
  <2>4. QED
    BY <2>1, <2>2, <2>3, <2>a, <2>b
<1>15. ASSUME NEW n \in Names, SyncPatch(n)
      PROVE  (\A m \in Names : Inv(m)') /\ retained' \subseteq stored'
  <2>0. /\ backup[n] \in BackupCR /\ op[n] \in OpBackup /\ work[n] \in Work
        /\ uids[n] \in [cr : UID, ob : UID] /\ Inv(n)
    BY DEF TypeOK
  <2>1. ASSUME NEW m \in Names, m # n PROVE Inv(m)'
    BY <1>15, <2>1, Others DEF SyncPatch, Step, Report, outsideVars, historyVars, TypeOK
  <2>a. /\ work[n].pc = "patch" /\ work'[n].pc \in {"report", "idle"}
        /\ work'[n].cr = work[n].cr \/ work'[n].pc = "idle"
        /\ UNCHANGED <<backup, uids, stored, retained>>
        /\ \/ op'[n] = op[n]
           \/ op'[n] = Patched(op[n], work[n].ob, work[n].cr) /\ Exists(op[n])
    <3>1. /\ work[n].pc = "patch" /\ work'[n].pc \in {"report", "idle"}
          /\ work'[n].cr = work[n].cr \/ work'[n].pc = "idle"
          /\ UNCHANGED <<backup, uids, stored, retained>>
      <4>1. \A st : /\ [work[n] EXCEPT !.pc = "report", !.state = st].pc = "report"
                    /\ [work[n] EXCEPT !.pc = "report", !.state = st].cr = work[n].cr
        BY <2>0, WorkFields
      <4>2. /\ work[n].pc = "patch" /\ UNCHANGED <<backup, uids>>
            /\ \/ Step(n, NoWork)
               \/ Step(n, [work[n] EXCEPT !.pc = "report",
                                          !.state = backupState(op[n].state)])
        BY <1>15 DEF SyncPatch, Report
      <4>3. CASE Step(n, NoWork)
        BY <4>2, <4>3, StepWork DEF NoWork
      <4>4. CASE Step(n, [work[n] EXCEPT !.pc = "report",
                                        !.state = backupState(op[n].state)])
        BY <4>1, <4>2, <4>4, StepWork
      <4>5. QED
        BY <4>2, <4>3, <4>4
    <3>2. \/ op'[n] = op[n]
          \/ op'[n] = Patched(op[n], work[n].ob, work[n].cr) /\ Exists(op[n])
      BY <1>15 DEF SyncPatch, PatchFails, TypeOK
    <3>3. QED
      BY <3>1, <3>2
  <2>b. \/ op'[n].uid = op[n].uid /\ op'[n].deleting = op[n].deleting
           /\ op'[n].controller \in {op[n].controller, work[n].cr.uid}
           /\ (~Exists(op[n]) => op'[n] = op[n])
        \/ op'[n] = NoOp
    BY <2>0, <2>a, PatchedFields DEF Work
  <2>c. work[n].cr.uid = backup[n].uid
    BY <2>0, <2>a DEF Inv, Snapshot
  <2>d. <<n, 0>> \notin retained
    BY DEF TypeOK, Stamp
  <2>e. Shape(n)' /\ Owned(n)' /\ Fresh(n)'
    BY <2>0, <2>a, <2>b, <2>c, BoundsAssumption
    DEF Inv, Shape, Owned, Fresh, Exists, NoOp, UID, MaxOpUID, Stamp, OpBackup
  <2>f. Snapshot(n)' /\ CleanupSnapshot(n)'
    BY <2>0, <2>a DEF Inv, Snapshot, CleanupSnapshot, Exists
  <2>g. KeptHeld(n)'
    BY <2>0, <2>a, <2>b, <2>d DEF Inv, KeptHeld, Kept, NoOp
  <2>2. Inv(n)'
    BY <2>a, <2>e, <2>f, <2>g DEF Inv, CleanedGone, DeleteSafe
  <2>3. retained' \subseteq stored'
    BY <1>15, <2>0 DEF SyncPatch, Step, PatchFails, Patched, WithFinalizer, Report, NoWork, NoOp, outsideVars, historyVars, TypeOK
  <2>4. QED
    BY <2>1, <2>2, <2>3
<1>16. ASSUME NEW n \in Names, SyncReport(n)
      PROVE  (\A m \in Names : Inv(m)') /\ retained' \subseteq stored'
  <2>0. /\ backup[n] \in BackupCR /\ op[n] \in OpBackup /\ work[n] \in Work
        /\ uids[n] \in [cr : UID, ob : UID] /\ Inv(n)
    BY DEF TypeOK
  <2>1. ASSUME NEW m \in Names, m # n PROVE Inv(m)'
    BY <1>16, <2>1, Others DEF SyncReport, Step, outsideVars, historyVars, TypeOK
  <2>2. Inv(n)'
    BY <1>1, <1>16, <2>0, BoundsAssumption DEF SyncReport, Step, NoWork, outsideVars, historyVars, TypeOK, BackupCR, OpBackup,
       Inv, Shape, Fresh, Snapshot, CleanupSnapshot, CleanedGone, Kept, KeptHeld,
         DeleteSafe, Owned, Exists, UID, MaxOpUID, Stamp
  <2>3. retained' \subseteq stored'
    BY <1>16, <2>0 DEF SyncReport, Step, NoWork, outsideVars, historyVars, TypeOK
  <2>4. QED
    BY <2>1, <2>2, <2>3
<1>17. ASSUME NEW n \in Names, CleanupBackup(n)
      PROVE  (\A m \in Names : Inv(m)') /\ retained' \subseteq stored'
  <2>0. /\ backup[n] \in BackupCR /\ op[n] \in OpBackup /\ work[n] \in Work
        /\ uids[n] \in [cr : UID, ob : UID] /\ Inv(n)
    BY DEF TypeOK
  <2>1. ASSUME NEW m \in Names, m # n PROVE Inv(m)'
    BY <1>17, <2>1, Others DEF CleanupBackup, Step, outsideVars, historyVars, TypeOK
  <2>2. Inv(n)'
    BY <1>1, <1>17, <2>0, BoundsAssumption DEF CleanupBackup, Step, NoWork, outsideVars, historyVars, TypeOK, BackupCR, OpBackup,
       Inv, Shape, Fresh, Snapshot, CleanupSnapshot, CleanedGone, Kept, KeptHeld,
         DeleteSafe, Owned, Exists, UID, MaxOpUID, Stamp
  <2>3. retained' \subseteq stored'
    BY <1>17, <2>0 DEF CleanupBackup, Step, NoWork, outsideVars, historyVars, TypeOK
  <2>4. QED
    BY <2>1, <2>2, <2>3
<1>18. ASSUME NEW n \in Names, CleanupGet(n)
      PROVE  (\A m \in Names : Inv(m)') /\ retained' \subseteq stored'
  <2>0. /\ backup[n] \in BackupCR /\ op[n] \in OpBackup /\ work[n] \in Work
        /\ uids[n] \in [cr : UID, ob : UID] /\ Inv(n)
    BY DEF TypeOK
  <2>1. ASSUME NEW m \in Names, m # n PROVE Inv(m)'
    BY <1>18, <2>1, Others DEF CleanupGet, Step, outsideVars, historyVars, TypeOK
  <2>a. /\ work[n].pc = "cleanupGet"
        /\ \/ work'[n].pc = "cleaned" /\ ~Exists(op[n])
           \/ work'[n].pc = "delete" /\ ~(work[n].cr.retain /\ op[n].deleteData)
           \/ work'[n].pc \in {"idle", "removeFinalizer"}
        /\ work'[n].cr = work[n].cr \/ work'[n].pc = "idle"
        /\ UNCHANGED <<backup, op, uids, stored, retained>>
    <3>1. /\ [work[n] EXCEPT !.pc = "cleaned"].pc = "cleaned"
          /\ [work[n] EXCEPT !.pc = "cleaned"].cr = work[n].cr
          /\ [work[n] EXCEPT !.pc = "delete"].pc = "delete"
          /\ [work[n] EXCEPT !.pc = "delete"].cr = work[n].cr
          /\ [work[n] EXCEPT !.pc = "removeFinalizer", !.ob = op[n]].pc = "removeFinalizer"
          /\ [work[n] EXCEPT !.pc = "removeFinalizer", !.ob = op[n]].cr = work[n].cr
      BY <2>0, WorkFields
    <3>2. /\ work[n].pc = "cleanupGet" /\ UNCHANGED <<backup, op, uids>>
          /\ \/ Step(n, [work[n] EXCEPT !.pc = "cleaned"]) /\ ~Exists(op[n])
             \/ Step(n, [work[n] EXCEPT !.pc = "removeFinalizer", !.ob = op[n]])
             \/ Step(n, NoWork)
             \/ /\ Step(n, [work[n] EXCEPT !.pc = "delete"])
                /\ ~(work[n].cr.retain /\ op[n].deleteData)
      BY <1>18 DEF CleanupGet, Get
    <3>3. CASE Step(n, [work[n] EXCEPT !.pc = "cleaned"]) /\ ~Exists(op[n])
      <4>1. work'[n] = [work[n] EXCEPT !.pc = "cleaned"] /\ stored' = stored /\ retained' = retained
        BY <3>3, StepWork
      <4>2. QED
        BY <3>1, <3>2, <3>3, <4>1
    <3>4. CASE Step(n, [work[n] EXCEPT !.pc = "removeFinalizer", !.ob = op[n]])
      <4>1. work'[n] = [work[n] EXCEPT !.pc = "removeFinalizer", !.ob = op[n]]
            /\ stored' = stored /\ retained' = retained
        BY <3>4, StepWork
      <4>2. QED
        BY <3>1, <3>2, <4>1
    <3>5. CASE Step(n, NoWork)
      BY <3>2, <3>5, StepWork DEF NoWork
    <3>6. CASE /\ Step(n, [work[n] EXCEPT !.pc = "delete"])
               /\ ~(work[n].cr.retain /\ op[n].deleteData)
      <4>1. work'[n] = [work[n] EXCEPT !.pc = "delete"] /\ stored' = stored /\ retained' = retained
        BY <3>6, StepWork
      <4>2. QED
        BY <3>1, <3>2, <3>6, <4>1
    <3>7. QED
      BY <3>2, <3>3, <3>4, <3>5, <3>6
  <2>2. Inv(n)'
    BY <1>1, <2>0, <2>a, BoundsAssumption DEF NoOp, TypeOK, BackupCR, OpBackup,
       Inv, Shape, Fresh, Snapshot, CleanupSnapshot, CleanedGone, Kept, KeptHeld,
       DeleteSafe, Owned, Exists, UID, MaxOpUID, Stamp
  <2>3. retained' \subseteq stored'
    BY <1>18, <2>0 DEF CleanupGet, Step, Get, NoWork, outsideVars, historyVars, TypeOK
  <2>4. QED
    BY <2>1, <2>2, <2>3
<1>19. ASSUME NEW n \in Names, CleanupRemoveFinalizer(n)
      PROVE  (\A m \in Names : Inv(m)') /\ retained' \subseteq stored'
  <2>0. /\ backup[n] \in BackupCR /\ op[n] \in OpBackup /\ work[n] \in Work
        /\ uids[n] \in [cr : UID, ob : UID] /\ Inv(n)
    BY DEF TypeOK
  <2>1. ASSUME NEW m \in Names, m # n PROVE Inv(m)'
    BY <1>19, <2>1, Others DEF CleanupRemoveFinalizer, Step, outsideVars, historyVars, TypeOK
  <2>a. /\ work[n].pc = "removeFinalizer" /\ work'[n].pc = "idle"
        /\ UNCHANGED <<backup, uids, stored, retained>>
        /\ op'[n] \in {op[n], NoOp, [op[n] EXCEPT !.deleteData = FALSE]}
    BY <1>19, <2>0 DEF CleanupRemoveFinalizer, WithFinalizer, Step, NoWork, TypeOK, historyVars
  <2>b. \/ op'[n] = op[n]
        \/ op'[n] = NoOp
        \/ /\ op'[n].uid = op[n].uid /\ op'[n].deleting = op[n].deleting
           /\ op'[n].controller = op[n].controller
           /\ op'[n] = [op[n] EXCEPT !.deleteData = FALSE]
    BY <2>0, <2>a DEF OpBackup
  <2>c. <<n, 0>> \notin retained
    BY DEF TypeOK, Stamp
  <2>d. ~op[n].deleteData => op'[n] \in {op[n], NoOp}
    <3>1. [op[n] EXCEPT !.deleteData = FALSE] = op[n] \/ op[n].deleteData
      BY <2>0 DEF OpBackup
    <3>2. QED
      BY <2>a, <3>1
  <2>e. Shape(n)'
    <3>1. NoOp.uid = 0 /\ ~NoOp.deleteData
      BY DEF NoOp
    <3>2. /\ ~Exists(op[n]) => op[n] = NoOp
          /\ ~Exists(backup[n]) => backup[n] = NoBackup
      BY <2>0 DEF Inv, Shape
    <3>3. op'[n].uid = 0 => op'[n] = NoOp
      BY <2>b, <2>d, <3>1, <3>2 DEF Exists
    <3>4. QED
      BY <2>a, <3>2, <3>3 DEF Shape, Exists
  <2>f. Fresh(n)' /\ Owned(n)'
    BY <2>0, <2>a, <2>b, BoundsAssumption DEF Inv, Fresh, Owned, NoOp, UID, MaxOpUID, Stamp, OpBackup
  <2>g. KeptHeld(n)'
    BY <2>0, <2>a, <2>b, <2>c DEF Inv, KeptHeld, Kept, NoOp
  <2>2. Inv(n)'
    BY <2>a, <2>e, <2>f, <2>g DEF Inv, Snapshot, CleanupSnapshot, CleanedGone, DeleteSafe
  <2>3. retained' \subseteq stored'
    BY <1>19, <2>0 DEF CleanupRemoveFinalizer, Step, WithFinalizer, NoOp, NoWork, outsideVars, historyVars, TypeOK
  <2>4. QED
    BY <2>1, <2>2, <2>3
<1>20. ASSUME NEW n \in Names, CleanupDelete(n)
      PROVE  (\A m \in Names : Inv(m)') /\ retained' \subseteq stored'
  <2>0. /\ backup[n] \in BackupCR /\ op[n] \in OpBackup /\ work[n] \in Work
        /\ uids[n] \in [cr : UID, ob : UID] /\ Inv(n)
    BY DEF TypeOK
  <2>1. ASSUME NEW m \in Names, m # n PROVE Inv(m)'
    BY <1>20, <2>1, Others DEF CleanupDelete, Step, outsideVars, historyVars, TypeOK
  <2>a. /\ op'[n] = Deleted(op[n]) /\ work[n].pc = "delete" /\ work'[n] = NoWork
        /\ UNCHANGED <<backup, uids, stored, retained>>
    BY <1>20 DEF CleanupDelete, Step, historyVars, TypeOK
  <2>b. \/ op'[n] = NoOp
        \/ /\ op[n].deleteData /\ op'[n].uid = op[n].uid
           /\ op'[n].controller = op[n].controller
    BY <2>0, <2>a DEF Deleted, OpBackup
  <2>c. /\ NoOp.uid = 0 /\ NoOp.controller = 0 /\ ~NoOp.deleteData /\ NoWork.pc = "idle"
        /\ <<n, 0>> \notin retained
        /\ uids[n].ob \in Nat
    BY <2>0, BoundsAssumption DEF NoOp, NoWork, TypeOK, Stamp, UID, MaxOpUID
  <2>d. Shape(n)' /\ Fresh(n)' /\ Owned(n)'
    BY <2>0, <2>a, <2>b, <2>c DEF Inv, Shape, Fresh, Owned, Exists
  <2>e. ~Kept(n)'
    BY <2>0, <2>a, <2>b, <2>c DEF Inv, DeleteSafe, Kept
  <2>2. Inv(n)'
    BY <2>a, <2>c, <2>d, <2>e
    DEF Inv, Snapshot, CleanupSnapshot, CleanedGone, KeptHeld, DeleteSafe
  <2>3. retained' \subseteq stored'
    BY <1>20, <2>0 DEF CleanupDelete, Step, Deleted, NoOp, NoWork, outsideVars, historyVars, TypeOK
  <2>4. QED
    BY <2>1, <2>2, <2>3
<1>21. ASSUME NEW n \in Names, CleanupDone(n)
      PROVE  (\A m \in Names : Inv(m)') /\ retained' \subseteq stored'
  <2>0. /\ backup[n] \in BackupCR /\ op[n] \in OpBackup /\ work[n] \in Work
        /\ uids[n] \in [cr : UID, ob : UID] /\ Inv(n)
    BY DEF TypeOK
  <2>1. ASSUME NEW m \in Names, m # n PROVE Inv(m)'
    BY <1>21, <2>1, Others DEF CleanupDone, Step, outsideVars, historyVars, TypeOK
  <2>2. Inv(n)'
    BY <1>1, <1>21, <2>0, BoundsAssumption DEF CleanupDone, Step, NoBackup, NoWork, outsideVars, historyVars, TypeOK, BackupCR, OpBackup,
       Inv, Shape, Fresh, Snapshot, CleanupSnapshot, CleanedGone, Kept, KeptHeld,
         DeleteSafe, Owned, Exists, UID, MaxOpUID, Stamp
  <2>3. retained' \subseteq stored'
    BY <1>21, <2>0 DEF CleanupDone, Step, NoBackup, NoWork, outsideVars, historyVars, TypeOK
  <2>4. QED
    BY <2>1, <2>2, <2>3
<1>22. CASE ClusterAppears \/ ChangeClass \/ (\E s \in Storages : RegisterStorage(s)) \/ UNCHANGED vars
              \/ (\E n \in Names : CacheCatchesUp(n) \/ Mirror(n))
  <2>1. UNCHANGED <<backup, op, uids, work, stored, retained>>
    BY <1>22 DEF Mirror, ClusterAppears, ChangeClass, RegisterStorage, CacheCatchesUp, vars, historyVars
  <2>2. QED
    BY <1>1, <2>1, Others
<1>23. ASSUME NEW ns, Interrupt(ns)
       PROVE  (\A m \in Names : Inv(m)') /\ retained' \subseteq stored'
  <2>0. UNCHANGED <<backup, op, uids, stored, retained>>
    BY <1>23 DEF Interrupt, historyVars
  <2>1. ASSUME NEW m \in Names, work'[m] = work[m] PROVE Inv(m)'
    BY <2>0, <2>1, Others
  <2>2. ASSUME NEW m \in Names, work'[m].pc = "idle" PROVE Inv(m)'
    BY <2>0, <2>2 DEF TypeOK, Inv, Shape, Fresh, Snapshot, CleanupSnapshot, CleanedGone,
       Kept, KeptHeld, DeleteSafe, Owned, Exists
  <2>3. \A m \in Names : work'[m] = work[m] \/ work'[m].pc = "idle"
    BY <1>23 DEF Interrupt, NoWork
  <2>4. QED
    BY <2>0, <2>1, <2>2, <2>3
<1>24. QED
  BY <1>1, <1>2, <1>3, <1>4, <1>5, <1>6, <1>7, <1>8, <1>8a, <1>9, <1>10, <1>11, <1>12,
     <1>13, <1>14, <1>15, <1>16, <1>17, <1>18, <1>19, <1>20, <1>21, <1>22, <1>23
     DEF Next, Users, Operator, Handler

(* The invariant holds in the initial states.                                 *)
LEMMA InvInit == Init => IndInv
<1> SUFFICES ASSUME Init PROVE IndInv
  OBVIOUS
<1>1. TypeOK
  BY TypeInit
<1>2. ASSUME NEW n \in Names PROVE Inv(n)
  BY <1>1, BoundsAssumption
  DEF Init, NoBackup, NoOp, NoWork, Inv, Shape, Fresh, Snapshot, CleanupSnapshot,
      CleanedGone, Kept, KeptHeld, DeleteSafe, Owned, Exists, UID, MaxOpUID, Stamp
<1>3. QED
  BY <1>1, <1>2 DEF Init, IndInv

(* Data that its owner deleted with DeletionPolicy Retain stays in the bucket,*)
(* for any names, storages and bounds, while reads do not lag.                *)
THEOREM RetainKept == ASSUME ~StaleReads PROVE Spec => []RetainedDataIsKept
<1>1. IndInv /\ [Next]_vars => IndInv'
  BY InvStep
<1>2. IndInv => RetainedDataIsKept
  BY DEF IndInv, RetainedDataIsKept
<1>3. QED
  BY <1>1, <1>2, InvInit, PTL DEF Spec

(* No operator backup outlives the Backup that created it, for any names,     *)
(* storages and bounds, while reads do not lag.                               *)
THEOREM OwnerStays == ASSUME ~StaleReads PROVE Spec => []NoOrphan
<1>1. IndInv /\ [Next]_vars => IndInv'
  BY InvStep
<1>2. IndInv => NoOrphan
  BY DEF IndInv, NoOrphan, Inv, Owned
<1>3. QED
  BY <1>1, <1>2, InvInit, PTL DEF Spec
=============================================================================
