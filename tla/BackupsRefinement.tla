-------------------------- MODULE BackupsRefinement --------------------------
(* Backups implements OneShot: what users may rely on when they create a      *)
(* Backup, for every set of names and storages and every bound.               *)
EXTENDS BackupsVerdictProofs

(* Beyond the invariants of BackupsProofs and BackupsVerdictProofs the        *)
(* refinement needs to know, until somebody tampers, that an operator backup  *)
(* is deleted only after its Backup, and that the state of a Backup, the      *)
(* state about to be reported and the state of the operator backup agree      *)
(* once one of them is a verdict.                                             *)
Agreed(n) ==
    ~Tampered /\ n \notin CronNames =>
       /\ op[n].deleting => backup[n].deleting
       /\ ~backup[n].deleting =>
             /\ backup[n].state \in Terminal =>
                   Exists(op[n]) /\ op[n].state = backup[n].state
             /\ work[n].pc = "report" /\ work[n].state \in Terminal =>
                   Exists(op[n]) /\ op[n].state = work[n].state
             /\ work[n].pc = "report" /\ backup[n].state \in Terminal =>
                   work[n].state = backup[n].state

Agreement == \A n \in Names : Agreed(n)

(* The count of direct deletions changes only when there is one, and then     *)
(* somebody has tampered.                                                     *)
LEMMA DeletesLeft ==
  ASSUME TypeOK, [Next]_vars
  PROVE  \/ left'.deletes = left.deletes
         \/ left'.deletes = left.deletes - 1
<1>1. ASSUME NEW n \in Names, Handler(n) PROVE UNCHANGED left
  BY <1>1 DEF Handler, SyncBackup, SyncGet, SyncCreate, SyncPatch, SyncReport, Report,
     CleanupBackup, CleanupGet, CleanupRemoveFinalizer, CleanupDelete, CleanupDone, Step
<1>2. ASSUME NEW n \in Names, Mirror(n) \/ MirrorCreates(n) \/ Operator(n) PROVE UNCHANGED left
  BY <1>2 DEF Mirror, MirrorCreates, Operator, CronBackup, OperatorRuns, OperatorPurges, OperatorPrunes
<1>3. ASSUME NEW n \in Names, Users(n)
      PROVE  left'.deletes = left.deletes \/ left'.deletes = left.deletes - 1
  BY <1>3 DEF Users, CreateBackup, ChangePolicy, DeleteBackup, DeleteOpBackup, TypeOK
<1>4. ASSUME NEW n \in Names, CollectOp(n) \/ CollectBackup(n) \/ CacheCatchesUp(n)
      PROVE  UNCHANGED left
  BY <1>4 DEF CollectOp, CollectBackup, CacheCatchesUp
<1>5. CASE ClusterAppears \/ ChangeClass \/ (\E s \in Storages : RegisterStorage(s))
           \/ UNCHANGED vars
  BY <1>5 DEF ClusterAppears, ChangeClass, RegisterStorage, vars
<1>6. ASSUME NEW ns, Interrupt(ns) PROVE left'.deletes = left.deletes
  BY <1>6 DEF Interrupt, TypeOK
<1>7. QED
  BY <1>1, <1>2, <1>3, <1>4, <1>5, <1>6 DEF Next

(* Tampering is never forgotten.                                              *)
LEMMA TamperedStays ==
  ASSUME TypeOK, [Next]_vars, Tampered
  PROVE  Tampered'
<1>1. left.deletes \in Nat /\ MaxDirectDeletes \in Nat
  BY BoundsAssumption DEF TypeOK
<1>2. QED
  BY <1>1, DeletesLeft DEF Tampered

(* A direct deletion is tampering.                                            *)
LEMMA DirectDeletion ==
  ASSUME TypeOK, NEW n \in Names, DeleteOpBackup(n)
  PROVE  Tampered'
<1>1. left.deletes \in 0..MaxDirectDeletes /\ MaxDirectDeletes \in Nat
  BY BoundsAssumption DEF TypeOK
<1>2. left'.deletes = left.deletes - 1
  BY DEF DeleteOpBackup, TypeOK
<1>3. QED
  BY <1>1, <1>2 DEF Tampered

-----------------------------------------------------------------------------
(* One name, seen from OneShot: what may become of its job and of its run.    *)
Turn(n, j, r, j2, r2) ==
    \/ j2 = j /\ r2 = r
    \/ j = "None" /\ r = "No" /\ j2 = "Open" /\ r2 = r
    \/ j \in {"Open", "Closing"} /\ r = "No" /\ j2 = j /\ r2 = "Queued"
    \/ j \in {"Open", "Closing"} /\ r = "Queued" /\ j2 = j /\ r2 = "Running"
    \/ r = "Running" /\ j2 = j /\ r2 \in Terminal
    \/ j = "Open" /\ r \in Terminal /\ j2 = r /\ r2 = r
    \/ j \in {"Open"} \cup Terminal /\ j2 = "Closing" /\ r2 = r
    \/ j = "Closing" /\ j2 = j /\ r2 = "No"
    \/ j = "Closing" /\ r = "No" /\ j2 = "None" /\ r2 = r

(* Every step of an on-demand name keeps the agreement and is a turn of it.   *)
LEMMA TurnOfOwn ==
  ASSUME ~StaleReads, IndInv, NEW n \in Names \ CronNames, Bound(n), Agreed(n), Own(n),
         ~Tampered, ~Tampered'
  PROVE  /\ Agreed(n)'
         /\ Turn(n, JobOf(n), RanOf(n), JobOf(n)', RanOf(n)')
<1>0. /\ TypeOK
      /\ backup[n] \in BackupCR /\ op[n] \in OpBackup /\ work[n] \in Work
      /\ op[n].state \in OpState /\ backup[n].state \in BackupState
      /\ Get(n) = op[n] /\ Inv(n)
      /\ NoWork.pc = "idle"
      /\ NoOp.uid = 0 /\ ~NoOp.deleting /\ NoOp.state = "New"
      /\ NoBackup.uid = 0 /\ ~NoBackup.deleting /\ NoBackup.state = "New"
  BY DEF IndInv, TypeOK, Get, NoWork, NoOp, NoBackup, OpBackup, BackupCR
<1>1. /\ Agreed(n) <=>
           (/\ op[n].deleting => backup[n].deleting
            /\ ~backup[n].deleting =>
                  /\ backup[n].state \in Terminal =>
                        Exists(op[n]) /\ op[n].state = backup[n].state
                  /\ work[n].pc = "report" /\ work[n].state \in Terminal =>
                        Exists(op[n]) /\ op[n].state = work[n].state
                  /\ work[n].pc = "report" /\ backup[n].state \in Terminal =>
                        work[n].state = backup[n].state)
      /\ JobOf(n) = IF ~Exists(backup[n]) THEN "None"
                    ELSE IF backup[n].deleting THEN "Closing"
                    ELSE IF backup[n].state \in Terminal THEN backup[n].state ELSE "Open"
      /\ RanOf(n) = IF ~Exists(op[n]) THEN "No"
                    ELSE IF op[n].state = "New" THEN "Queued"
                    ELSE IF op[n].state = "Starting" THEN "Running" ELSE op[n].state
  BY DEF Agreed, JobOf, RanOf
<1>2. /\ Agreed(n)' <=>
           (/\ op'[n].deleting => backup'[n].deleting
            /\ ~backup'[n].deleting =>
                  /\ backup'[n].state \in Terminal =>
                        Exists(op'[n]) /\ op'[n].state = backup'[n].state
                  /\ work'[n].pc = "report" /\ work'[n].state \in Terminal =>
                        Exists(op'[n]) /\ op'[n].state = work'[n].state
                  /\ work'[n].pc = "report" /\ backup'[n].state \in Terminal =>
                        work'[n].state = backup'[n].state)
      /\ JobOf(n)' = IF ~Exists(backup'[n]) THEN "None"
                     ELSE IF backup'[n].deleting THEN "Closing"
                     ELSE IF backup'[n].state \in Terminal THEN backup'[n].state ELSE "Open"
      /\ RanOf(n)' = IF ~Exists(op'[n]) THEN "No"
                     ELSE IF op'[n].state = "New" THEN "Queued"
                     ELSE IF op'[n].state = "Starting" THEN "Running" ELSE op'[n].state
  BY DEF Agreed, JobOf, RanOf, Exists
<1>3. Exists(op[n]) => Exists(backup[n])
  BY OpHasBackup
<1> USE DEF Turn, Exists, Terminal
<1>4. CASE SyncBackup(n) \/ CleanupBackup(n)
  BY <1>0, <1>1, <1>2, <1>4, CallEffect
<1>5. CASE SyncGet(n)
  <2>1. ~work[n].cr.scheduled
    BY <1>0, <1>5, SyncGetEffect DEF Bound, Current, Kind
  <2>2. /\ UNCHANGED <<backup, op>>
        /\ \/ work'[n].pc # "report"
           \/ ~Exists(op[n]) /\ work'[n].state = "Pending"
    BY <1>0, <1>5, <2>1, SyncGetEffect
  <2>3. QED
    BY <1>1, <1>2, <2>2
<1>6. CASE SyncCreate(n)
  <2>1. CASE UNCHANGED op
    BY <1>0, <1>1, <1>2, <1>6, <2>1, SyncCreateEffect
  <2>2. CASE /\ ~Exists(op[n])
             /\ op'[n] = newOpBackup(work[n].cr, uids[n].ob + 1)
             /\ work'[n].pc = "patch"
    <3>1. /\ op'[n].uid = uids[n].ob + 1 /\ op'[n].state = "New" /\ ~op'[n].deleting
      BY <2>2 DEF newOpBackup, NoOp
    <3>2. uids[n].ob + 1 # 0
      BY <1>0, BoundsAssumption DEF TypeOK, UID, MaxOpUID
    <3>3. UNCHANGED backup /\ Exists(backup[n])
      BY <1>0, <1>6, SyncCreateEffect DEF Bound, Current
    <3>4. QED
      BY <1>0, <1>1, <1>2, <2>2, <3>1, <3>2, <3>3
  <2>3. QED
    BY <1>0, <1>6, <2>1, <2>2, SyncCreateEffect
<1>7. CASE SyncPatch(n)
  <2>1. CASE UNCHANGED op /\ work'[n] = NoWork
    BY <1>0, <1>1, <1>2, <1>7, <2>1, SyncPatchEffect
  <2>2. CASE /\ ~PatchFails(op[n], work[n].ob, work[n].cr)
             /\ op'[n] = Patched(op[n], work[n].ob, work[n].cr)
             /\ work'[n].pc = "report" /\ work'[n].cr = work[n].cr
             /\ work'[n].state = backupState(op[n].state)
    <3>1. /\ Exists(op[n])
          /\ \/ op'[n] = NoOp /\ op[n].deleting
             \/ /\ op'[n].uid = op[n].uid /\ op'[n].deleting = op[n].deleting
                /\ op'[n].state = op[n].state
      BY <1>0, <1>7, <2>2, SyncPatchEffect, PatchMeetsOwn
    <3>2. /\ work'[n].state \in Terminal <=> op[n].state \in Terminal
          /\ op[n].state \in Terminal => work'[n].state = op[n].state
      BY <1>0, <2>2, VerdictPassedOn
    <3>3. UNCHANGED backup
      BY <1>0, <1>7, SyncPatchEffect
    <3>4. QED
      BY <1>0, <1>1, <1>2, <1>3, <2>2, <3>1, <3>2, <3>3
  <2>3. QED
    BY <1>0, <1>7, <2>1, <2>2, SyncPatchEffect
<1>8. CASE SyncReport(n)
  <2>1. /\ work[n].pc = "report" /\ UNCHANGED op /\ work'[n].pc = "idle"
        /\ Exists(backup[n]) /\ backup[n].uid = work[n].cr.uid
    BY <1>0, <1>8, SyncReportEffect DEF Bound, Current
  <2>2. backup'[n] = [backup[n] EXCEPT !.state = work[n].state]
    BY <1>0, <1>8, <2>1, SyncReportEffect
  <2>3. /\ backup'[n].uid = backup[n].uid /\ backup'[n].deleting = backup[n].deleting
        /\ backup'[n].state = work[n].state
    BY <1>0, <2>2 DEF BackupCR
  <2>4. QED
    BY <1>1, <1>2, <2>1, <2>3
<1>9. CASE CleanupGet(n)
  BY <1>0, <1>1, <1>2, <1>9, CleanupGetEffect
<1>10. CASE CleanupRemoveFinalizer(n) \/ CleanupDelete(n)
  <2>1. /\ backup[n].deleting /\ UNCHANGED backup /\ work'[n].pc = "idle"
    BY <1>0, <1>10, CleanupWriteEffect DEF Inv, CleanupSnapshot
  <2>2. \/ op'[n] = op[n] \/ op'[n] = NoOp
        \/ op'[n].uid = op[n].uid /\ op'[n].state = op[n].state
    <3>1. op'[n] \in {op[n], Deleted(op[n]), WithFinalizer(op[n], FALSE)}
      BY <1>0, <1>10, CleanupWriteEffect
    <3>2. \/ Deleted(op[n]) = NoOp
          \/ Deleted(op[n]).uid = op[n].uid /\ Deleted(op[n]).state = op[n].state
      BY <1>0, DeletedFields
    <3>3. \/ WithFinalizer(op[n], FALSE) = NoOp
          \/ /\ WithFinalizer(op[n], FALSE).uid = op[n].uid
             /\ WithFinalizer(op[n], FALSE).state = op[n].state
      BY <1>0, WithFinalizerFields
    <3>4. QED
      BY <3>1, <3>2, <3>3
  <2>3. QED
    BY <1>0, <1>1, <1>2, <1>3, <2>1, <2>2
<1>11. CASE CleanupDone(n)
  <2>1. /\ work[n].pc = "cleaned" /\ work'[n].pc = "idle" /\ UNCHANGED op
        /\ backup'[n] = NoBackup
    BY <1>0, <1>11, CleanupDoneEffect
  <2>2. op[n].controller = 0 /\ backup[n].deleting
    BY <1>0, <2>1 DEF Inv, CleanedGone, CleanupSnapshot
  <2>3. ~Exists(op[n]) /\ Exists(backup[n])
    BY <2>1, <2>2 DEF Bound, Lineage, Current
  <2>4. ~op[n].deleting
    BY <1>0, <2>3 DEF Inv, Shape
  <2>5. QED
    BY <1>0, <1>1, <1>2, <2>1, <2>2, <2>3, <2>4
<1>12. CASE \E s \in Storages, retain \in BOOLEAN : CreateBackup(n, s, retain)
  <2>1. /\ ~Exists(backup[n]) /\ Exists(backup'[n]) /\ UNCHANGED <<op, work>>
        /\ backup'[n].state = "New" /\ ~backup'[n].deleting
    BY <1>0, <1>12, NewBackupEffect
  <2>2. ~Exists(op[n]) /\ ~op[n].deleting /\ work[n].pc = "idle"
    BY <1>0, <1>3, <2>1 DEF Inv, Shape, Bound, Current
  <2>3. QED
    BY <1>1, <1>2, <2>1, <2>2
<1>13. CASE ChangePolicy(n) \/ DeleteBackup(n) \/ CollectBackup(n)
  BY <1>0, <1>1, <1>2, <1>13, ChangedBackupEffect
<1>14. CASE CollectOp(n)
  BY <1>14 DEF CollectOp, IndInv, Inv, Owned
<1>15. CASE DeleteOpBackup(n)
  BY <1>0, <1>15, DirectDeletion
<1>16. CASE OperatorPrunes(n)
  BY <1>16 DEF OperatorPrunes, Bound, Kind
<1>17. CASE OperatorRuns(n)
  <2>1. /\ Exists(op[n]) /\ Exists(op'[n]) /\ op'[n].deleting = op[n].deleting
        /\ UNCHANGED <<backup, work>>
    BY <1>0, <1>17, RunsEffect
  <2>2. \/ op[n].state = "New" /\ op'[n].state = "Starting"
        \/ op[n].state = "Starting" /\ op'[n].state = "Running"
        \/ op[n].state \in {"Starting", "Running"} /\ op'[n].state \in Terminal
    BY <1>0, <1>17, RunsEffect
  <2>3. /\ ~backup[n].deleting => backup[n].state \notin Terminal
        /\ ~backup[n].deleting /\ work[n].pc = "report" => work[n].state \notin Terminal
    BY <1>1, <2>2
  <2>4. Agreed(n)'
    BY <1>1, <1>2, <2>1, <2>3
  <2>5. JobOf(n)' = JobOf(n) /\ JobOf(n) \in {"Open", "Closing"}
    BY <1>1, <1>2, <1>3, <2>1, <2>3
  <2>6. QED
    BY <1>1, <1>2, <2>1, <2>2, <2>4, <2>5
<1>18. CASE OperatorPurges(n)
  <2>1. op'[n] = NoOp /\ UNCHANGED <<backup, work>> /\ op[n].deleting
    BY <1>0, <1>18 DEF OperatorPurges, TypeOK
  <2>2. Exists(op[n])
    BY <1>0, <2>1 DEF Inv, Shape
  <2>3. QED
    BY <1>0, <1>1, <1>2, <1>3, <2>1, <2>2
<1>19. CASE CacheCatchesUp(n)
  BY <1>19 DEF CacheCatchesUp
<1>20. ASSUME NEW s \in Storages, NEW d \in BOOLEAN, NEW nm \in BOOLEAN,
              CronBackup(n, s, d, nm)
       PROVE  FALSE
  BY <1>20 DEF CronBackup
<1>21. QED
  BY MirrorLeaves, <1>0, <1>4, <1>5, <1>6, <1>7, <1>8, <1>9, <1>10, <1>11, <1>12, <1>13, <1>14, <1>15, <1>16,
     <1>17, <1>18, <1>19, <1>20 DEF Own, Handler, Users, Operator

(* A name that is left alone keeps the agreement and its place.               *)
LEMMA TurnOfStill ==
  ASSUME NEW n \in Names, Agreed(n), Still(n), work'[n] \in {work[n], NoWork},
         ~Tampered, ~Tampered'
  PROVE  Agreed(n)' /\ JobOf(n)' = JobOf(n) /\ RanOf(n)' = RanOf(n)
<1>1. NoWork.pc = "idle"
  BY DEF NoWork
<1>2. backup'[n] = backup[n] /\ op'[n] = op[n]
  BY DEF Still
<1>3. Agreed(n)'
  BY <1>1, <1>2 DEF Agreed, Exists
<1>4. JobOf(n)' = JobOf(n) /\ RanOf(n)' = RanOf(n)
  BY <1>2 DEF JobOf, RanOf, Exists
<1>5. QED
  BY <1>3, <1>4

(* Every step keeps the agreement.                                            *)
LEMMA AgreementStep ==
  ASSUME ~StaleReads, IndInv, VerdictInv, Agreement, [Next]_vars
  PROVE  Agreement'
<1> SUFFICES ASSUME NEW n \in Names PROVE Agreed(n)'
  BY DEF Agreement
<1>1. TypeOK /\ Bound(n) /\ Agreed(n)
  BY DEF IndInv, VerdictInv, Agreement
<1>2. CASE Tampered' \/ n \in CronNames
  BY <1>2 DEF Agreed
<1>3. CASE ~Tampered' /\ n \notin CronNames
  <2>1. ~Tampered
    BY <1>1, <1>3, TamperedStays
  <2>2. QED
    BY <1>1, <1>3, <2>1, OneName, TurnOfOwn, TurnOfStill
<1>4. QED
  BY <1>2, <1>3

(* A turn of one name, with nothing else moving, is a step of OneShot.        *)
LEMMA TurnIsStep ==
  ASSUME NEW n \in Names \ CronNames,
         Turn(n, JobOf(n), RanOf(n), JobOf(n)', RanOf(n)'),
         \A m \in Names \ CronNames : m # n => JobOf(m)' = JobOf(m) /\ RanOf(m)' = RanOf(m)
  PROVE  [Job!Next]_(Job!vars)
<1> DEFINE N == Names \ CronNames
           J == [m \in N |-> JobOf(m)]
           R == [m \in N |-> RanOf(m)]
<1>1. /\ J[n] = JobOf(n) /\ R[n] = RanOf(n)
      /\ J' = [J EXCEPT ![n] = JobOf(n)']
      /\ R' = [R EXCEPT ![n] = RanOf(n)']
  OBVIOUS
<1>2. /\ JobOf(n)' = JobOf(n) => J' = J
      /\ RanOf(n)' = RanOf(n) => R' = R
  OBVIOUS
<1>3. CASE JobOf(n)' = JobOf(n) /\ RanOf(n)' = RanOf(n)
  BY <1>2, <1>3 DEF Job!vars
<1>4. CASE JobOf(n) = "None" /\ RanOf(n) = "No" /\ JobOf(n)' = "Open" /\ RanOf(n)' = RanOf(n)
  BY <1>1, <1>2, <1>4 DEF Job!Next, Job!Request
<1>5. CASE /\ JobOf(n) \in {"Open", "Closing"} /\ RanOf(n) = "No"
           /\ JobOf(n)' = JobOf(n) /\ RanOf(n)' = "Queued"
  BY <1>1, <1>2, <1>5 DEF Job!Next, Job!Start
<1>6. CASE /\ JobOf(n) \in {"Open", "Closing"} /\ RanOf(n) = "Queued"
           /\ JobOf(n)' = JobOf(n) /\ RanOf(n)' = "Running"
  BY <1>1, <1>2, <1>6 DEF Job!Next, Job!Proceed
<1>7. CASE RanOf(n) = "Running" /\ JobOf(n)' = JobOf(n) /\ RanOf(n)' \in Terminal
  BY <1>1, <1>2, <1>7 DEF Job!Next, Job!End, Job!Verdict, Terminal
<1>8. CASE /\ JobOf(n) = "Open" /\ RanOf(n) \in Terminal
           /\ JobOf(n)' = RanOf(n) /\ RanOf(n)' = RanOf(n)
  BY <1>1, <1>2, <1>8 DEF Job!Next, Job!Report, Job!Verdict, Terminal
<1>9. CASE JobOf(n) \in {"Open"} \cup Terminal /\ JobOf(n)' = "Closing" /\ RanOf(n)' = RanOf(n)
  BY <1>1, <1>2, <1>9 DEF Job!Next, Job!Close, Job!Verdict, Terminal
<1>10. CASE JobOf(n) = "Closing" /\ JobOf(n)' = JobOf(n) /\ RanOf(n)' = "No"
  BY <1>1, <1>2, <1>10 DEF Job!Next, Job!Drop
<1>11. CASE JobOf(n) = "Closing" /\ RanOf(n) = "No" /\ JobOf(n)' = "None" /\ RanOf(n)' = RanOf(n)
  BY <1>1, <1>2, <1>11 DEF Job!Next, Job!Forget
<1>12. QED
  BY <1>3, <1>4, <1>5, <1>6, <1>7, <1>8, <1>9, <1>10, <1>11 DEF Turn

(* Every step of Backups is a step of OneShot or leaves it where it is.       *)
LEMMA StepImplements ==
  ASSUME ~StaleReads, IndInv, VerdictInv, Agreement, [Next]_vars
  PROVE  [Job!Next]_(Job!vars)
<1>0. TypeOK
  BY DEF IndInv
<1>1. CASE Tampered
  <2>1. Tampered'
    BY <1>0, <1>1, TamperedStays
  <2>2. \A n \in Names \ CronNames : JobOf(n)' = JobOf(n) /\ RanOf(n)' = RanOf(n)
    BY <1>1, <2>1 DEF JobOf, RanOf
  <2>3. QED
    BY <2>2 DEF Job!vars
<1>2. CASE ~Tampered /\ Tampered'
  <2>1. \A n \in Names \ CronNames : JobOf(n)' = "Void" /\ RanOf(n)' = "No"
    BY <1>2 DEF JobOf, RanOf
  <2>2. Job!Tamper
    BY <2>1 DEF Job!Tamper
  <2>3. QED
    BY <2>2 DEF Job!Next
<1>3. CASE ~Tampered /\ ~Tampered'
  <2>1. \A n \in Names : Bound(n) /\ Agreed(n)
    BY DEF VerdictInv, Agreement
  <2>2. CASE \E n \in Names \ CronNames : Own(n)
    <3>1. PICK n \in Names \ CronNames : Own(n)
      BY <2>2
    <3>2. Turn(n, JobOf(n), RanOf(n), JobOf(n)', RanOf(n)')
      BY <1>3, <2>1, <3>1, TurnOfOwn
    <3>3. ASSUME NEW m \in Names \ CronNames, m # n
          PROVE  JobOf(m)' = JobOf(m) /\ RanOf(m)' = RanOf(m)
      BY <1>0, <1>3, <2>1, <3>1, <3>3, OwnFrame, TurnOfStill
    <3>4. QED
      BY <3>2, <3>3, TurnIsStep
  <2>3. CASE ~\E n \in Names \ CronNames : Own(n)
    <3>1. \A n \in Names \ CronNames : JobOf(n)' = JobOf(n) /\ RanOf(n)' = RanOf(n)
      BY <1>0, <1>3, <2>1, <2>3, OneName, TurnOfStill
    <3>2. QED
      BY <3>1 DEF Job!vars
  <2>4. QED
    BY <2>2, <2>3
<1>4. QED
  BY <1>1, <1>2, <1>3

(* On-demand Backups keep the promise of OneShot, for any number of names,    *)
(* storages, reuses of a name, policy changes and restarts of the provider,   *)
(* beside any scheduled Backups, as long as reads do not lag: an operator     *)
(* backup runs at most once for a Backup, its end is what is reported, the    *)
(* report is final, and the Backup goes only when the operator's is gone.     *)
THEOREM BackupsImplementOneShot ==
  ASSUME ~StaleReads PROVE Spec => BackupIsOneShot
<1>1. Init => Job!Init
  <2> SUFFICES ASSUME Init PROVE Job!Init
    OBVIOUS
  <2>1. ~Tampered
    BY BoundsAssumption DEF Init, Tampered
  <2>2. NoBackup.uid = 0 /\ NoOp.uid = 0
    BY DEF NoBackup, NoOp
  <2>3. ASSUME NEW n \in Names \ CronNames PROVE JobOf(n) = "None" /\ RanOf(n) = "No"
    BY <2>1, <2>2 DEF Init, JobOf, RanOf, Exists
  <2>4. QED
    BY <2>3 DEF Job!Init
<1>2. Init => Agreement
  <2> SUFFICES ASSUME Init, NEW n \in Names PROVE Agreed(n)
    BY DEF Agreement
  <2>1. backup[n] = NoBackup /\ op[n] = NoOp /\ work[n] = NoWork
    BY DEF Init
  <2>2. NoWork.pc = "idle" /\ ~NoOp.deleting /\ NoBackup.state \notin Terminal
    BY DEF NoWork, NoOp, NoBackup, Terminal
  <2>3. QED
    BY <2>1, <2>2 DEF Agreed
<1>3. IndInv /\ TypeOK /\ VerdictInv /\ Agreement /\ [Next]_vars => Agreement'
  BY AgreementStep
<1>4. IndInv /\ TypeOK /\ VerdictInv /\ Agreement /\ [Next]_vars => [Job!Next]_(Job!vars)
  BY StepImplements
<1>5. QED
  BY <1>1, <1>2, <1>3, <1>4, IndInvariant, VerdictInvariant, PTL DEF Spec, BackupIsOneShot, Job!Spec
=============================================================================
