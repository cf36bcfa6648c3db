------------------------ MODULE BackupsVerdictProofs ------------------------
(* What Backups reports is what the operator did, for every set of names and  *)
(* storages, every bound, and with a cache that lags or does not. The first   *)
(* part says what each step does to one name: the proofs of this module and   *)
(* of BackupsRefinement rest on it.                                           *)
EXTENDS BackupsProofs

(* A name that a step leaves alone.                                           *)
Still(n) ==
    /\ backup'[n] = backup[n] /\ op'[n] = op[n] /\ seen'[n] = seen[n]
    /\ uids'[n] = uids[n] /\ mirror'[n] \in {mirror[n], NoBackup}
    /\ \A u : /\ <<n, u>> \in stored' <=> <<n, u>> \in stored
              /\ <<n, u>> \in doomed' <=> <<n, u>> \in doomed

(* The steps that are about one name.                                         *)
Own(n) ==
    \/ Handler(n) \/ Mirror(n) \/ MirrorCreates(n) \/ Users(n) \/ Operator(n)
    \/ CollectOp(n) \/ CollectBackup(n) \/ CacheCatchesUp(n)

(* A step of one name leaves every other name alone.                          *)
LEMMA OwnFrame ==
  ASSUME TypeOK, NEW n \in Names, NEW m \in Names, m # n, Own(m)
  PROVE  Still(n) /\ work'[n] = work[n]
<1>1. CASE Handler(m)
  BY <1>1 DEF Handler, SyncBackup, SyncGet, SyncCreate, SyncPatch, SyncReport, Report,
     CleanupBackup, CleanupGet, CleanupRemoveFinalizer, CleanupDelete, CleanupDone,
     Step, Still, TypeOK, outsideVars, historyVars
<1>2. CASE Mirror(m) \/ MirrorCreates(m)
  BY <1>2 DEF Mirror, MirrorCreates, Still, TypeOK, historyVars
<1>3. CASE Users(m)
  <2>1. ASSUME NEW s \in Storages, NEW retain \in BOOLEAN, CreateBackup(m, s, retain)
        PROVE  Still(n) /\ work'[n] = work[n]
    BY <2>1 DEF CreateBackup, Still, TypeOK, outsideVars, historyVars
  <2>2. CASE ChangePolicy(m)
    BY <2>2 DEF ChangePolicy, Still, TypeOK, outsideVars, historyVars
  <2>3. CASE DeleteBackup(m)
    BY <2>3 DEF DeleteBackup, DataOf, Still, TypeOK, outsideVars, historyVars
  <2>4. CASE DeleteOpBackup(m)
    BY <2>4 DEF DeleteOpBackup, Still, TypeOK, outsideVars, historyVars
  <2>5. QED
    BY <1>3, <2>1, <2>2, <2>3, <2>4 DEF Users
<1>4. CASE Operator(m)
  BY <1>4 DEF Operator, CronBackup, OperatorRuns, OperatorPurges, OperatorPrunes,
     Still, TypeOK, outsideVars, historyVars
<1>5. CASE CollectOp(m) \/ CollectBackup(m) \/ CacheCatchesUp(m)
  BY <1>5 DEF CollectOp, CollectBackup, CacheCatchesUp, Still, TypeOK, outsideVars, historyVars
<1>6. QED
  BY <1>1, <1>2, <1>3, <1>4, <1>5 DEF Own

(* Whatever happens, one name sees a step of its own, nothing, or the end of  *)
(* its handler.                                                               *)
LEMMA OneName ==
  ASSUME TypeOK, [Next]_vars, NEW n \in Names
  PROVE  Own(n) \/ (Still(n) /\ work'[n] \in {work[n], NoWork})
<1>1. CASE ClusterAppears \/ ChangeClass \/ (\E s \in Storages : RegisterStorage(s))
           \/ UNCHANGED vars
  BY <1>1 DEF ClusterAppears, ChangeClass, RegisterStorage, vars, historyVars, Still
<1>2. ASSUME NEW ns, Interrupt(ns) PROVE Still(n) /\ work'[n] \in {work[n], NoWork}
  BY <1>2 DEF Interrupt, historyVars, Still
<1>3. ASSUME NEW m \in Names, Own(m) PROVE Own(n) \/ (Still(n) /\ work'[n] = work[n])
  BY <1>3, OwnFrame
<1>4. QED
  BY <1>1, <1>2, <1>3 DEF Next, Own

(* The records of operator backups that ended are never lost.                 *)
LEMMA EndedGrows ==
  ASSUME [Next]_vars
  PROVE  ended \subseteq ended'
<1>1. ASSUME NEW n \in Names, Handler(n) PROVE UNCHANGED ended
  BY <1>1 DEF Handler, SyncBackup, SyncGet, SyncCreate, SyncPatch, SyncReport, Report,
     CleanupBackup, CleanupGet, CleanupRemoveFinalizer, CleanupDelete, CleanupDone,
     Step, historyVars
<1>2. ASSUME NEW n \in Names, Users(n) \/ Mirror(n) \/ MirrorCreates(n) PROVE UNCHANGED ended
  BY <1>2 DEF Users, CreateBackup, ChangePolicy, DeleteBackup, DeleteOpBackup, Mirror,
     MirrorCreates, historyVars
<1>3. ASSUME NEW n \in Names, Operator(n) PROVE ended \subseteq ended'
  BY <1>3 DEF Operator, CronBackup, OperatorRuns, OperatorPurges, OperatorPrunes, historyVars
<1>4. ASSUME NEW n \in Names, CollectOp(n) \/ CollectBackup(n) \/ CacheCatchesUp(n)
      PROVE  UNCHANGED ended
  BY <1>4 DEF CollectOp, CollectBackup, CacheCatchesUp, historyVars
<1>5. CASE ClusterAppears \/ ChangeClass \/ (\E s \in Storages : RegisterStorage(s))
           \/ UNCHANGED vars \/ (\E ns \in {Names} \cup {{n} : n \in Names} : Interrupt(ns))
  BY <1>5 DEF ClusterAppears, ChangeClass, RegisterStorage, Interrupt, vars, historyVars
<1>6. QED
  BY <1>1, <1>2, <1>3, <1>4, <1>5 DEF Next

-----------------------------------------------------------------------------
(* What each request of a handler does to its name.                           *)

(* A handler's memory, field by field.                                        *)
LEMMA MemoryFields ==
  ASSUME NEW w \in Work, NEW pc
  PROVE  /\ LET v == [w EXCEPT !.pc = pc] IN v.pc = pc /\ v.cr = w.cr
         /\ \A b : LET v == [w EXCEPT !.pc = pc, !.ob = b]
                   IN  v.pc = pc /\ v.cr = w.cr /\ v.ob = b
         /\ \A s : LET v == [w EXCEPT !.pc = pc, !.state = s]
                   IN  v.pc = pc /\ v.cr = w.cr /\ v.state = s
         /\ \A cr : LET v == [NoWork EXCEPT !.pc = pc, !.cr = cr]
                    IN  v.pc = pc /\ v.cr = cr
  BY DEF Work, NoWork

(* A request changes its own memory and neither cache, data nor history.      *)
LEMMA StepEffect ==
  ASSUME TypeOK, NEW n \in Names, NEW w, Step(n, w)
  PROVE  work'[n] = w /\ seen' = seen /\ stored' = stored /\ doomed' = doomed
         /\ ended' = ended /\ left' = left /\ mirror' = mirror
  BY DEF Step, TypeOK, outsideVars, historyVars

(* The Get of SyncBackup is followed by a report, a Create or a Patch.        *)
LEMMA SyncGetEffect ==
  ASSUME TypeOK, NEW n \in Names, SyncGet(n)
  PROVE  /\ work[n].pc = "get"
         /\ UNCHANGED <<backup, op, seen, uids, stored, mirror, doomed, ended, left>>
         /\ work'[n].cr = work[n].cr
         /\ \/ /\ ~Exists(Get(n))
               /\ work'[n].pc = "report" /\ work'[n].state = "Pending"
            \/ /\ ~Exists(Get(n)) /\ ~work[n].cr.scheduled
               /\ work'[n].pc = "create"
            \/ /\ Exists(Get(n)) /\ ~work[n].cr.scheduled
               /\ work'[n].pc = "patch" /\ work'[n].ob = Get(n)
            \/ /\ Exists(Get(n)) /\ work[n].cr.scheduled
               /\ work'[n].pc = "report" /\ work'[n].state = backupState(Get(n).state)
<1>0. work[n] \in Work
  BY DEF TypeOK
<1>1. work[n].pc = "get" /\ UNCHANGED <<backup, op, uids>>
  BY DEF SyncGet
<1>2. CASE /\ ~Exists(Get(n))
           /\ Step(n, [work[n] EXCEPT !.pc = "report", !.state = "Pending"])
  <2>1. /\ work'[n] = [work[n] EXCEPT !.pc = "report", !.state = "Pending"]
        /\ UNCHANGED <<seen, stored, mirror, doomed, ended, left>>
    BY <1>2, StepEffect
  <2>2. work'[n].pc = "report" /\ work'[n].state = "Pending" /\ work'[n].cr = work[n].cr
    BY <1>0, <2>1, MemoryFields
  <2>3. QED
    BY <1>1, <1>2, <2>1, <2>2
<1>3. CASE /\ ~Exists(Get(n)) /\ ~work[n].cr.scheduled
           /\ Step(n, [work[n] EXCEPT !.pc = "create"])
  <2>1. /\ work'[n] = [work[n] EXCEPT !.pc = "create"]
        /\ UNCHANGED <<seen, stored, mirror, doomed, ended, left>>
    BY <1>3, StepEffect
  <2>2. work'[n].pc = "create" /\ work'[n].cr = work[n].cr
    BY <1>0, <2>1, MemoryFields
  <2>3. QED
    BY <1>1, <1>3, <2>1, <2>2
<1>4. CASE /\ Exists(Get(n)) /\ ~work[n].cr.scheduled
           /\ Step(n, [work[n] EXCEPT !.pc = "patch", !.ob = Get(n)])
  <2>1. /\ work'[n] = [work[n] EXCEPT !.pc = "patch", !.ob = Get(n)]
        /\ UNCHANGED <<seen, stored, mirror, doomed, ended, left>>
    BY <1>4, StepEffect
  <2>2. work'[n].pc = "patch" /\ work'[n].ob = Get(n) /\ work'[n].cr = work[n].cr
    BY <1>0, <2>1, MemoryFields
  <2>3. QED
    BY <1>1, <1>4, <2>1, <2>2
<1>5. CASE /\ Exists(Get(n)) /\ work[n].cr.scheduled
           /\ Step(n, [work[n] EXCEPT !.pc = "report", !.state = backupState(Get(n).state)])
  <2>1. /\ work'[n] = [work[n] EXCEPT !.pc = "report", !.state = backupState(Get(n).state)]
        /\ UNCHANGED <<seen, stored, mirror, doomed, ended, left>>
    BY <1>5, StepEffect
  <2>2. work'[n].pc = "report" /\ work'[n].state = backupState(Get(n).state) /\ work'[n].cr = work[n].cr
    BY <1>0, <2>1, MemoryFields
  <2>3. QED
    BY <1>1, <1>5, <2>1, <2>2
<1>6. QED
  BY <1>2, <1>3, <1>4, <1>5 DEF SyncGet, Report, managedByRuntime

(* Create makes a new operator backup, or finds one, or gives up.             *)
LEMMA SyncCreateEffect ==
  ASSUME TypeOK, NEW n \in Names, SyncCreate(n)
  PROVE  /\ work[n].pc = "create"
         /\ UNCHANGED <<backup, seen, stored, mirror, doomed, ended, left>>
         /\ \/ /\ ~Exists(op[n])
               /\ op'[n] = newOpBackup(work[n].cr, uids[n].ob + 1)
               /\ uids'[n].cr = uids[n].cr /\ uids'[n].ob = uids[n].ob + 1
               /\ work'[n].pc = "patch" /\ work'[n].cr = work[n].cr /\ work'[n].ob = op'[n]
            \/ /\ UNCHANGED <<op, uids>>
               /\ Exists(Get(n))
               /\ work'[n].pc = "patch" /\ work'[n].cr = work[n].cr /\ work'[n].ob = Get(n)
            \/ /\ UNCHANGED <<op, uids>>
               /\ work'[n] = NoWork
<1>0. work[n] \in Work
  BY DEF TypeOK
<1>1. work[n].pc = "create" /\ UNCHANGED backup
  BY DEF SyncCreate
<1>2. CASE /\ ~Exists(op[n])
           /\ uids' = [uids EXCEPT ![n].ob = @ + 1]
           /\ op' = [op EXCEPT ![n] = newOpBackup(work[n].cr, uids[n].ob + 1)]
           /\ Step(n, [work[n] EXCEPT !.pc = "patch", !.ob = op'[n]])
  <2>1. op'[n] = newOpBackup(work[n].cr, uids[n].ob + 1)
    BY <1>2 DEF TypeOK
  <2>2. uids'[n].cr = uids[n].cr /\ uids'[n].ob = uids[n].ob + 1
    BY <1>2 DEF TypeOK
  <2>3. /\ work'[n] = [work[n] EXCEPT !.pc = "patch", !.ob = op'[n]]
        /\ UNCHANGED <<seen, stored, mirror, doomed, ended, left>>
    BY <1>2, StepEffect
  <2>4. work'[n].pc = "patch" /\ work'[n].cr = work[n].cr /\ work'[n].ob = op'[n]
    BY <1>0, <2>3, MemoryFields
  <2>5. QED
    BY <1>1, <1>2, <2>1, <2>2, <2>3, <2>4
<1>3. CASE /\ Exists(Get(n)) /\ UNCHANGED <<op, uids>>
           /\ Step(n, [work[n] EXCEPT !.pc = "patch", !.ob = Get(n)])
  <2>1. /\ work'[n] = [work[n] EXCEPT !.pc = "patch", !.ob = Get(n)]
        /\ UNCHANGED <<seen, stored, mirror, doomed, ended, left>>
    BY <1>3, StepEffect
  <2>2. work'[n].pc = "patch" /\ work'[n].ob = Get(n) /\ work'[n].cr = work[n].cr
    BY <1>0, <2>1, MemoryFields
  <2>3. QED
    BY <1>1, <1>3, <2>1, <2>2
<1>4. CASE Step(n, NoWork) /\ UNCHANGED <<op, uids>>
  BY <1>1, <1>4, StepEffect
<1>5. QED
  BY <1>2, <1>3, <1>4 DEF SyncCreate

(* The Patch fails, or its answer is reported.                                *)
LEMMA SyncPatchEffect ==
  ASSUME TypeOK, NEW n \in Names, SyncPatch(n)
  PROVE  /\ work[n].pc = "patch"
         /\ UNCHANGED <<backup, seen, uids, stored, mirror, doomed, ended, left>>
         /\ \/ UNCHANGED op /\ work'[n] = NoWork
            \/ /\ ~PatchFails(op[n], work[n].ob, work[n].cr)
               /\ op'[n] = Patched(op[n], work[n].ob, work[n].cr)
               /\ work'[n].pc = "report" /\ work'[n].cr = work[n].cr
               /\ work'[n].state = backupState(op[n].state)
<1>0. work[n] \in Work
  BY DEF TypeOK
<1>1. work[n].pc = "patch" /\ UNCHANGED <<backup, uids>>
  BY DEF SyncPatch
<1>2. CASE Step(n, NoWork) /\ UNCHANGED op
  BY <1>1, <1>2, StepEffect
<1>3. CASE /\ ~PatchFails(op[n], work[n].ob, work[n].cr)
           /\ op' = [op EXCEPT ![n] = Patched(op[n], work[n].ob, work[n].cr)]
           /\ Step(n, [work[n] EXCEPT !.pc = "report", !.state = backupState(op[n].state)])
  <2>1. op'[n] = Patched(op[n], work[n].ob, work[n].cr)
    BY <1>3 DEF TypeOK
  <2>2. /\ work'[n] = [work[n] EXCEPT !.pc = "report", !.state = backupState(op[n].state)]
        /\ UNCHANGED <<seen, stored, mirror, doomed, ended, left>>
    BY <1>3, StepEffect
  <2>3. /\ work'[n].pc = "report" /\ work'[n].cr = work[n].cr
        /\ work'[n].state = backupState(op[n].state)
    BY <1>0, <2>2, MemoryFields
  <2>4. QED
    BY <1>1, <1>3, <2>1, <2>2, <2>3
<1>4. QED
  BY <1>2, <1>3 DEF SyncPatch, Report

(* The runtime stores the reported state on the Backup it was computed for.   *)
LEMMA SyncReportEffect ==
  ASSUME TypeOK, NEW n \in Names, SyncReport(n)
  PROVE  /\ work[n].pc = "report" /\ work'[n] = NoWork
         /\ UNCHANGED <<op, seen, uids, stored, mirror, doomed, ended, left>>
         /\ backup'[n] = IF backup[n].uid = work[n].cr.uid
                         THEN [backup[n] EXCEPT !.state = work[n].state]
                         ELSE backup[n]
  BY StepEffect DEF SyncReport, TypeOK

(* The first request of either handler remembers the Backup it is called for. *)
LEMMA CallEffect ==
  ASSUME TypeOK, NEW n \in Names, SyncBackup(n) \/ CleanupBackup(n)
  PROVE  /\ work[n].pc = "idle" /\ Exists(backup[n])
         /\ work'[n].cr = backup[n]
         /\ \/ work'[n].pc = "get" /\ ~backup[n].deleting
            \/ work'[n].pc = "cleanupGet" /\ backup[n].deleting
         /\ UNCHANGED <<backup, op, seen, uids, stored, mirror, doomed, ended, left>>
<1>0. work[n] \in Work
  BY DEF TypeOK
<1>1. CASE SyncBackup(n)
  <2>1. Step(n, [NoWork EXCEPT !.pc = "get", !.cr = backup[n]])
    BY <1>1 DEF SyncBackup
  <2>2. /\ work'[n] = [NoWork EXCEPT !.pc = "get", !.cr = backup[n]]
        /\ UNCHANGED <<seen, stored, mirror, doomed, ended, left>>
    BY <2>1, StepEffect
  <2>3. work'[n].pc = "get" /\ work'[n].cr = backup[n]
    BY <1>0, <2>2, MemoryFields
  <2>4. QED
    BY <1>1, <2>2, <2>3 DEF SyncBackup
<1>2. CASE CleanupBackup(n)
  <2>1. Step(n, [NoWork EXCEPT !.pc = "cleanupGet", !.cr = backup[n]])
    BY <1>2 DEF CleanupBackup
  <2>2. /\ work'[n] = [NoWork EXCEPT !.pc = "cleanupGet", !.cr = backup[n]]
        /\ UNCHANGED <<seen, stored, mirror, doomed, ended, left>>
    BY <2>1, StepEffect
  <2>3. work'[n].pc = "cleanupGet" /\ work'[n].cr = backup[n]
    BY <1>0, <2>2, MemoryFields
  <2>4. QED
    BY <1>2, <2>2, <2>3 DEF CleanupBackup
<1>3. QED
  BY <1>1, <1>2

(* The Get of CleanupBackup decides how the operator backup goes.             *)
LEMMA CleanupGetEffect ==
  ASSUME TypeOK, NEW n \in Names, CleanupGet(n)
  PROVE  /\ work[n].pc = "cleanupGet"
         /\ UNCHANGED <<backup, op, seen, uids, stored, mirror, doomed, ended, left>>
         /\ \/ work'[n] = NoWork
            \/ /\ work'[n].cr = work[n].cr
               /\ \/ work'[n].pc = "cleaned" /\ ~Exists(Get(n))
                  \/ /\ work'[n].pc = "removeFinalizer" /\ work'[n].ob = Get(n)
                     /\ work[n].cr.retain /\ Get(n).deleteData /\ Exists(Get(n))
                  \/ work'[n].pc = "delete" /\ Exists(Get(n)) /\ ~Get(n).deleting
<1>0. work[n] \in Work
  BY DEF TypeOK
<1>1. work[n].pc = "cleanupGet" /\ UNCHANGED <<backup, op, uids>>
  BY DEF CleanupGet
<1>2. CASE ~Exists(Get(n)) /\ Step(n, [work[n] EXCEPT !.pc = "cleaned"])
  <2>1. /\ work'[n] = [work[n] EXCEPT !.pc = "cleaned"]
        /\ UNCHANGED <<seen, stored, mirror, doomed, ended, left>>
    BY <1>2, StepEffect
  <2>2. work'[n].pc = "cleaned" /\ work'[n].cr = work[n].cr
    BY <1>0, <2>1, MemoryFields
  <2>3. QED
    BY <1>1, <1>2, <2>1, <2>2
<1>3. CASE /\ work[n].cr.retain /\ Get(n).deleteData /\ Exists(Get(n))
           /\ Step(n, [work[n] EXCEPT !.pc = "removeFinalizer", !.ob = Get(n)])
  <2>1. /\ work'[n] = [work[n] EXCEPT !.pc = "removeFinalizer", !.ob = Get(n)]
        /\ UNCHANGED <<seen, stored, mirror, doomed, ended, left>>
    BY <1>3, StepEffect
  <2>2. work'[n].pc = "removeFinalizer" /\ work'[n].ob = Get(n) /\ work'[n].cr = work[n].cr
    BY <1>0, <2>1, MemoryFields
  <2>3. QED
    BY <1>1, <1>3, <2>1, <2>2
<1>4. CASE Step(n, NoWork)
  BY <1>1, <1>4, StepEffect
<1>5. CASE /\ Exists(Get(n)) /\ ~Get(n).deleting
           /\ Step(n, [work[n] EXCEPT !.pc = "delete"])
  <2>1. /\ work'[n] = [work[n] EXCEPT !.pc = "delete"]
        /\ UNCHANGED <<seen, stored, mirror, doomed, ended, left>>
    BY <1>5, StepEffect
  <2>2. work'[n].pc = "delete" /\ work'[n].cr = work[n].cr
    BY <1>0, <2>1, MemoryFields
  <2>3. QED
    BY <1>1, <1>5, <2>1, <2>2
<1>6. QED
  BY <1>2, <1>3, <1>4, <1>5 DEF CleanupGet

(* The writes of CleanupBackup.                                               *)
LEMMA CleanupWriteEffect ==
  ASSUME TypeOK, NEW n \in Names, CleanupRemoveFinalizer(n) \/ CleanupDelete(n)
  PROVE  /\ work'[n] = NoWork
         /\ UNCHANGED <<backup, seen, uids, stored, mirror, doomed, ended, left>>
         /\ \/ /\ work[n].pc = "removeFinalizer"
               /\ op'[n] \in {op[n], WithFinalizer(op[n], FALSE)}
            \/ work[n].pc = "delete" /\ op'[n] = Deleted(op[n])
<1>1. CASE CleanupRemoveFinalizer(n)
  BY <1>1, StepEffect DEF CleanupRemoveFinalizer, TypeOK
<1>2. CASE CleanupDelete(n)
  BY <1>2, StepEffect DEF CleanupDelete, TypeOK
<1>3. QED
  BY <1>1, <1>2

(* The end of CleanupBackup.                                                  *)
LEMMA CleanupDoneEffect ==
  ASSUME TypeOK, NEW n \in Names, CleanupDone(n)
  PROVE  /\ work[n].pc = "cleaned" /\ work'[n] = NoWork
         /\ backup'[n] = NoBackup
         /\ UNCHANGED <<op, seen, uids, stored, mirror, doomed, ended, left>>
  BY StepEffect DEF CleanupDone, TypeOK

-----------------------------------------------------------------------------
(* What the other actors do to one name.                                      *)

(* A deletion takes the object, or marks it while its finalizer is on.        *)
LEMMA DeletedFields ==
  ASSUME NEW b \in OpBackup
  PROVE  \/ Deleted(b) = NoOp /\ ~b.deleteData
         \/ /\ b.deleteData /\ Deleted(b).deleteData /\ Deleted(b).deleting
            /\ Deleted(b).uid = b.uid /\ Deleted(b).cron = b.cron
            /\ Deleted(b).controller = b.controller /\ Deleted(b).state = b.state
  BY DEF Deleted, OpBackup

(* A change of the finalizer takes a deleted object, or changes just that.    *)
LEMMA WithFinalizerFields ==
  ASSUME NEW b \in OpBackup, NEW keep \in BOOLEAN
  PROVE  \/ WithFinalizer(b, keep) = NoOp /\ b.deleting
         \/ /\ WithFinalizer(b, keep).deleting = b.deleting
            /\ WithFinalizer(b, keep).uid = b.uid /\ WithFinalizer(b, keep).cron = b.cron
            /\ WithFinalizer(b, keep).controller = b.controller
            /\ WithFinalizer(b, keep).state = b.state
  BY DEF WithFinalizer, OpBackup

(* Deletions by the garbage collector, users and the retention of a schedule. *)
LEMMA DeletionEffect ==
  ASSUME TypeOK, NEW n \in Names,
         CollectOp(n) \/ DeleteOpBackup(n) \/ OperatorPrunes(n)
  PROVE  /\ (Exists(op[n]) /\ ~op[n].deleting) \/ op[n].cron
         /\ op'[n] = Deleted(op[n])
         /\ UNCHANGED <<backup, seen, uids, work, mirror, stored, ended>>
         /\ \/ CollectOp(n) /\ UNCHANGED <<left, doomed>>
            \/ DeleteOpBackup(n) /\ doomed' = doomed \ {<<n, op[n].uid>>}
            \/ op[n].cron /\ UNCHANGED left
<1>1. CASE CollectOp(n)
  BY <1>1 DEF CollectOp, TypeOK, outsideVars, historyVars
<1>2. CASE DeleteOpBackup(n)
  BY <1>2 DEF DeleteOpBackup, TypeOK, outsideVars
<1>3. CASE OperatorPrunes(n)
  BY <1>3 DEF OperatorPrunes, TypeOK, outsideVars
<1>4. QED
  BY <1>1, <1>2, <1>3

(* The operator changes nothing of an operator backup but its state, and      *)
(* keeps a record of the end.                                                 *)
LEMMA RunsEffect ==
  ASSUME TypeOK, NEW n \in Names, OperatorRuns(n)
  PROVE  /\ Exists(op[n]) /\ ~op[n].deleting
         /\ op'[n].uid = op[n].uid /\ op'[n].cron = op[n].cron
         /\ op'[n].controller = op[n].controller
         /\ op'[n].deleteData = op[n].deleteData /\ op'[n].deleting = op[n].deleting
         /\ \/ op[n].state = "New" /\ op'[n].state = "Starting"
            \/ op[n].state = "Starting" /\ op'[n].state = "Running"
            \/ op[n].state \in {"Starting", "Running"} /\ op'[n].state = "Failed"
            \/ op[n].state = "Running" /\ op'[n].state = "Succeeded"
         /\ \/ UNCHANGED stored
            \/ op'[n].state = "Succeeded" /\ stored' = stored \cup {<<n, op[n].uid>>}
         /\ op'[n].state \in Terminal =>
               [name |-> n, uid |-> op[n].uid, cr |-> op[n].controller,
                state |-> op'[n].state] \in ended'
         /\ UNCHANGED <<backup, seen, uids, work, mirror, left, doomed>>
<1>0. op[n] \in OpBackup /\ op \in [Names -> OpBackup]
  BY DEF TypeOK
<1>1. \A s : [op EXCEPT ![n].state = s][n] = [op[n] EXCEPT !.state = s]
  BY <1>0
<1>2. \A s : LET b == [op[n] EXCEPT !.state = s]
             IN  /\ b.uid = op[n].uid /\ b.cron = op[n].cron
                 /\ b.controller = op[n].controller /\ b.deleteData = op[n].deleteData
                 /\ b.deleting = op[n].deleting /\ b.state = s
  BY <1>0 DEF OpBackup
<1>3. /\ Exists(op[n]) /\ ~op[n].deleting
      /\ UNCHANGED <<backup, seen, uids, work, mirror, left, doomed>>
      /\ op'[n].state \in Terminal =>
            [name |-> n, uid |-> op[n].uid, cr |-> op[n].controller,
             state |-> op'[n].state] \in ended'
  BY DEF OperatorRuns, outsideVars
<1>4. PICK s : /\ op' = [op EXCEPT ![n].state = s]
               /\ \/ op[n].state = "New" /\ s = "Starting"
                  \/ op[n].state = "Starting" /\ s = "Running"
                  \/ op[n].state \in {"Starting", "Running"} /\ s = "Failed"
                  \/ op[n].state = "Running" /\ s = "Succeeded"
               /\ \/ UNCHANGED stored
                  \/ s = "Succeeded" /\ stored' = stored \cup {<<n, op[n].uid>>}
  BY DEF OperatorRuns
<1>5. op'[n] = [op[n] EXCEPT !.state = s]
  BY <1>1, <1>4
<1>6. /\ op'[n].uid = op[n].uid /\ op'[n].cron = op[n].cron
      /\ op'[n].controller = op[n].controller
      /\ op'[n].deleteData = op[n].deleteData /\ op'[n].deleting = op[n].deleting
      /\ op'[n].state = s
  BY <1>2, <1>5
<1>7. QED
  BY <1>3, <1>4, <1>6

(* New Backups of users.                                                      *)
LEMMA NewBackupEffect ==
  ASSUME TypeOK, NEW n \in Names,
         \E s \in Storages, retain \in BOOLEAN : CreateBackup(n, s, retain)
  PROVE  /\ ~Exists(backup[n])
         /\ backup'[n].uid = uids[n].cr + 1 /\ Exists(backup[n])'
         /\ backup'[n].state = "New" /\ ~backup'[n].deleting
         /\ uids'[n].cr = uids[n].cr + 1 /\ uids'[n].ob = uids[n].ob
         /\ n \notin CronNames /\ ~backup'[n].scheduled /\ backup'[n].owner = 0
         /\ UNCHANGED <<op, seen, work, mirror, stored, left, doomed, ended>>
<1>0. uids[n].cr \in Nat /\ uids[n].cr + 1 # 0
  BY BoundsAssumption DEF TypeOK, UID, MaxOpUID
<1>2. ASSUME NEW s \in Storages, NEW retain \in BOOLEAN, CreateBackup(n, s, retain)
      PROVE  /\ ~Exists(backup[n]) /\ n \notin CronNames
             /\ uids'[n].cr = uids[n].cr + 1 /\ uids'[n].ob = uids[n].ob
             /\ UNCHANGED <<op, seen, work, mirror, stored, left, doomed, ended>>
             /\ backup'[n].uid = uids[n].cr + 1 /\ backup'[n].state = "New"
             /\ ~backup'[n].scheduled /\ ~backup'[n].deleting /\ backup'[n].owner = 0
  <2>1. /\ ~Exists(backup[n]) /\ n \notin CronNames
        /\ UNCHANGED <<op, seen, work, mirror, stored, left, doomed, ended>>
    BY <1>2 DEF CreateBackup, outsideVars, historyVars
  <2>2. uids'[n].cr = uids[n].cr + 1 /\ uids'[n].ob = uids[n].ob
    <3>1. uids' = [uids EXCEPT ![n].cr = uids[n].cr + 1]
      BY <1>2 DEF CreateBackup
    <3>2. uids \in [Names -> [cr : UID, ob : UID]]
      BY DEF TypeOK
    <3>3. QED
      BY <3>1, <3>2
  <2>3. /\ backup'[n].uid = uids[n].cr + 1 /\ backup'[n].state = "New"
        /\ ~backup'[n].scheduled /\ ~backup'[n].deleting /\ backup'[n].owner = 0
    <3> DEFINE b == [NoBackup EXCEPT !.uid = uids[n].cr + 1, !.storage = s, !.retain = retain]
    <3>1. /\ b.uid = uids[n].cr + 1 /\ b.state = "New" /\ ~b.scheduled /\ ~b.deleting
          /\ b.owner = 0
      BY DEF NoBackup
    <3> HIDE DEF b
    <3>2. backup' = [backup EXCEPT ![n] = b]
      BY <1>2 DEF CreateBackup, b
    <3>3. backup'[n] = b
      BY <3>2 DEF TypeOK
    <3>4. QED
      BY <3>1, <3>3
  <2>4. QED
    BY <2>1, <2>2, <2>3
<1>3. QED
  BY <1>0, <1>2 DEF Exists

(* What Mirror has returned becomes a Backup, or there is one already.        *)
LEMMA MirrorCreatesEffect ==
  ASSUME TypeOK, NEW n \in Names, MirrorCreates(n)
  PROVE  /\ \/ /\ ~Exists(backup[n]) /\ Exists(backup[n])'
               /\ backup'[n].uid = uids[n].cr + 1 /\ uids'[n].cr = uids[n].cr + 1
            \/ Exists(backup[n]) /\ UNCHANGED <<uids, backup>>
         /\ UNCHANGED work
<1>0. uids[n].cr \in Nat /\ uids[n].cr + 1 # 0
  BY BoundsAssumption DEF TypeOK, UID, MaxOpUID
<1>1. CASE /\ ~Exists(backup[n])
           /\ uids' = [uids EXCEPT ![n].cr = @ + 1]
           /\ backup' = [backup EXCEPT ![n] = [mirror[n] EXCEPT !.uid = uids[n].cr + 1]]
  <2>1. backup'[n] = [mirror[n] EXCEPT !.uid = uids[n].cr + 1] /\ mirror[n] \in BackupCR
    BY <1>1 DEF TypeOK
  <2>2. backup'[n].uid = uids[n].cr + 1
    BY <2>1 DEF BackupCR
  <2>3. uids'[n].cr = uids[n].cr + 1
    BY <1>1 DEF TypeOK
  <2>4. QED
    BY <1>0, <1>1, <2>2, <2>3 DEF MirrorCreates, Exists
<1>2. CASE Exists(backup[n]) /\ UNCHANGED <<uids, backup>>
  BY <1>2 DEF MirrorCreates
<1>3. QED
  BY <1>1, <1>2 DEF MirrorCreates

(* Changes of a Backup that exists: its policy, or the mark of its deletion.  *)
LEMMA ChangedBackupEffect ==
  ASSUME TypeOK, NEW n \in Names, ChangePolicy(n) \/ DeleteBackup(n) \/ CollectBackup(n)
  PROVE  /\ Exists(backup[n]) /\ ~backup[n].deleting
         /\ backup'[n].uid = backup[n].uid /\ backup'[n].scheduled = backup[n].scheduled
         /\ backup'[n].owner = backup[n].owner /\ backup'[n].state = backup[n].state
         /\ \/ backup'[n].deleting = backup[n].deleting /\ ChangePolicy(n)
            \/ backup'[n].deleting /\ backup'[n].retain = backup[n].retain
         /\ UNCHANGED <<op, seen, uids, work, mirror, stored, ended>>
         /\ left'.deletes = left.deletes
<1>0. backup[n] \in BackupCR /\ backup \in [Names -> BackupCR]
  BY DEF TypeOK
<1>1. CASE ChangePolicy(n)
  <2>1. backup'[n] = [backup[n] EXCEPT !.retain = ~backup[n].retain]
    BY <1>0, <1>1 DEF ChangePolicy
  <2>2. /\ backup'[n].uid = backup[n].uid /\ backup'[n].scheduled = backup[n].scheduled
        /\ backup'[n].owner = backup[n].owner /\ backup'[n].state = backup[n].state
        /\ backup'[n].deleting = backup[n].deleting
    BY <1>0, <2>1 DEF BackupCR
  <2>3. left'.deletes = left.deletes
    BY <1>1 DEF ChangePolicy, TypeOK
  <2>4. QED
    BY <1>1, <2>2, <2>3 DEF ChangePolicy, outsideVars, historyVars
<1>2. CASE DeleteBackup(n) \/ CollectBackup(n)
  <2>1. backup'[n] = [backup[n] EXCEPT !.deleting = TRUE]
    BY <1>0, <1>2 DEF DeleteBackup, CollectBackup
  <2>2. /\ backup'[n].uid = backup[n].uid /\ backup'[n].scheduled = backup[n].scheduled
        /\ backup'[n].owner = backup[n].owner /\ backup'[n].state = backup[n].state
        /\ backup'[n].deleting /\ backup'[n].retain = backup[n].retain
    BY <1>0, <2>1 DEF BackupCR
  <2>3. QED
    BY <1>2, <2>2 DEF DeleteBackup, CollectBackup, outsideVars, historyVars
<1>3. QED
  BY <1>1, <1>2

(* A scheduled operator backup.                                               *)
LEMMA CronEffect ==
  ASSUME TypeOK, NEW n \in Names, NEW s \in Storages, NEW d \in BOOLEAN, NEW nm \in BOOLEAN,
         CronBackup(n, s, d, nm)
  PROVE  n \in CronNames /\ UNCHANGED <<backup, work>> /\ uids'[n].cr = uids[n].cr
<1>1. /\ uids' = [uids EXCEPT ![n].ob = uids[n].ob + 1]
      /\ n \in CronNames /\ UNCHANGED <<backup, work>>
  BY DEF CronBackup
<1>2. uids \in [Names -> [cr : UID, ob : UID]]
  BY DEF TypeOK
<1>3. QED
  BY <1>1, <1>2

-----------------------------------------------------------------------------
(* The invariant. A handler works on the Backup that exists. What users have  *)
(* named is never mirrored: such a Backup has no owner. For those names the   *)
(* controllers grow: what the cache holds, or a handler has read, was created *)
(* for this Backup or for an earlier one, never for a later one. So a Patch   *)
(* that is not refused meets the operator backup of its own Backup, and every *)
(* verdict on its way to the user has a record of the end it comes from.      *)
Current(n) ==
    /\ ~Exists(backup[n]) => backup[n] = NoBackup
    /\ Exists(backup[n]) => backup[n].uid = uids[n].cr
    /\ work[n].pc # "idle" => /\ Exists(backup[n])
                              /\ work[n].cr.uid = backup[n].uid
                              /\ work[n].cr.scheduled = backup[n].scheduled

Kind(n) ==
    n \notin CronNames =>
       /\ ~backup[n].scheduled /\ backup[n].owner = 0 /\ mirror[n] = NoBackup
       /\ ~op[n].cron /\ ~seen[n].cron

Lineage(n) ==
    n \notin CronNames =>
       /\ Exists(op[n]) => op[n].controller \in 1..uids[n].cr
       /\ Exists(seen[n]) => /\ seen[n].controller \in 1..uids[n].cr
                             /\ Exists(op[n]) => seen[n].controller <= op[n].controller
       /\ work[n].pc = "patch" =>
             /\ work[n].ob.controller \in 1..uids[n].cr
             /\ Exists(op[n]) => work[n].ob.controller <= op[n].controller

Ends == {<<e.name, e.cr, e.state>> : e \in ended}

Reported(n) ==
    n \notin CronNames =>
       /\ Exists(op[n]) /\ op[n].state \in Terminal =>
             <<n, op[n].controller, op[n].state>> \in Ends
       /\ work[n].pc = "report" /\ work[n].state \in Terminal =>
             <<n, work[n].cr.uid, work[n].state>> \in Ends
       /\ backup[n].state \in Terminal => <<n, backup[n].uid, backup[n].state>> \in Ends

Bound(n) == Current(n) /\ Kind(n) /\ Lineage(n)

VerdictInv == \A n \in Names : Bound(n) /\ Reported(n)

(* What is read is bound like what is there.                                  *)
LEMMA ReadBound ==
  ASSUME TypeOK, NEW n \in Names, Bound(n)
  PROVE  /\ Get(n) \in OpBackup
         /\ n \notin CronNames => ~Get(n).cron
         /\ n \notin CronNames /\ Exists(Get(n)) =>
               /\ Get(n).controller \in 1..uids[n].cr
               /\ Exists(op[n]) => Get(n).controller <= op[n].controller
<1>1. op[n] \in OpBackup /\ seen[n] \in OpBackup
  BY DEF TypeOK
<1>2. op[n].controller \in Int
  BY <1>1 DEF OpBackup, UID
<1>3. QED
  BY <1>1, <1>2 DEF Get, Bound, Kind, Lineage

(* Mirror has no business with the names of users.                            *)
LEMMA MirrorLeaves ==
  ASSUME TypeOK, NEW n \in Names \ CronNames, Bound(n)
  PROVE  ~Mirror(n) /\ ~MirrorCreates(n)
  BY ReadBound DEF Mirror, MirrorCreates, Bound, Kind

(* A Patch that is not refused meets the operator backup of this very Backup  *)
(* and leaves its identity alone.                                             *)
LEMMA PatchMeetsOwn ==
  ASSUME TypeOK, NEW n \in Names \ CronNames, Bound(n), work[n].pc = "patch",
         ~PatchFails(op[n], work[n].ob, work[n].cr)
  PROVE  /\ Exists(op[n])
         /\ op[n].controller = work[n].cr.uid
         /\ \/ Patched(op[n], work[n].ob, work[n].cr) = NoOp /\ op[n].deleting
            \/ LET b == Patched(op[n], work[n].ob, work[n].cr)
               IN  /\ b.uid = op[n].uid /\ b.cron = op[n].cron
                   /\ b.controller = op[n].controller
                   /\ b.deleting = op[n].deleting /\ b.state = op[n].state
<1>0. /\ op[n] \in OpBackup /\ work[n].ob \in OpBackup /\ work[n].cr \in BackupCR
      /\ op[n].controller \in Int /\ uids[n].cr \in Int
  BY DEF TypeOK, Work, OpBackup, UID
<1>1. n \notin CronNames
  OBVIOUS
<1>2. Exists(op[n]) /\ work[n].ob.controller = work[n].cr.uid
  <2>1. work[n].ob.controller # 0
    BY <1>1 DEF Bound, Lineage
  <2>2. QED
    BY <2>1 DEF PatchFails
<1>3. op[n].controller = work[n].cr.uid
  BY <1>0, <1>1, <1>2 DEF Bound, Current, Lineage
<1>4. Patched(op[n], work[n].ob, work[n].cr) \in {op[n], WithFinalizer(op[n], ~work[n].cr.retain)}
  BY <1>2 DEF Patched
<1>5. (~work[n].cr.retain) \in BOOLEAN
  BY <1>0 DEF BackupCR
<1>6. CASE Patched(op[n], work[n].ob, work[n].cr) = op[n]
  BY <1>2, <1>3, <1>6
<1>7. CASE Patched(op[n], work[n].ob, work[n].cr) = WithFinalizer(op[n], ~work[n].cr.retain)
  <2> DEFINE b == WithFinalizer(op[n], ~work[n].cr.retain)
  <2>1. \/ b = NoOp /\ op[n].deleting
        \/ /\ b.uid = op[n].uid /\ b.cron = op[n].cron /\ b.controller = op[n].controller
           /\ b.deleting = op[n].deleting /\ b.state = op[n].state
    BY <1>0, <1>5, WithFinalizerFields
  <2> HIDE DEF b
  <2>2. Patched(op[n], work[n].ob, work[n].cr) = b
    BY <1>7 DEF b
  <2>3. QED
    BY <1>2, <1>3, <2>1, <2>2
<1>8. QED
  BY <1>4, <1>6, <1>7

(* The bonds hold in every step of the name itself.                           *)
LEMMA BoundStep ==
  ASSUME TypeOK, NEW n \in Names, Bound(n), Own(n)
  PROVE  Bound(n)'
<1>0. /\ backup[n] \in BackupCR /\ op[n] \in OpBackup /\ seen[n] \in OpBackup
      /\ work[n] \in Work
      /\ uids[n].cr \in Nat /\ op[n].controller \in Int /\ seen[n].controller \in Int
      /\ work[n].ob.controller \in Int
      /\ NoWork.pc = "idle"
  BY BoundsAssumption DEF TypeOK, Work, OpBackup, UID, MaxOpUID, NoWork
<1> USE DEF Bound, Current, Kind, Lineage, Exists
<1>1. CASE SyncBackup(n) \/ CleanupBackup(n)
  BY <1>0, <1>1, CallEffect
<1>2. CASE SyncGet(n)
  <2>1. PICK b \in OpBackup : b = Get(n)
    BY ReadBound
  <2>2. QED
    BY <1>0, <1>2, SyncGetEffect, ReadBound
<1>3. CASE SyncCreate(n)
  <2>1. ASSUME op'[n] = newOpBackup(work[n].cr, uids[n].ob + 1)
        PROVE  op'[n].controller = work[n].cr.uid /\ ~op'[n].cron
    BY <2>1 DEF newOpBackup, NoOp
  <2>2. QED
    BY <1>0, <1>3, <2>1, SyncCreateEffect, ReadBound
<1>4. CASE SyncPatch(n)
  <2>1. CASE n \in CronNames
    BY <1>0, <1>4, <2>1, SyncPatchEffect
  <2>2. CASE n \notin CronNames
    BY <1>0, <1>4, <2>2, SyncPatchEffect, PatchMeetsOwn DEF NoOp
  <2>3. QED
    BY <2>1, <2>2
<1>5. CASE SyncReport(n)
  <2>1. /\ backup'[n].uid = backup[n].uid /\ backup'[n].scheduled = backup[n].scheduled
        /\ backup'[n].owner = backup[n].owner
    <3>1. backup'[n] \in {backup[n], [backup[n] EXCEPT !.state = work[n].state]}
      BY <1>5, SyncReportEffect
    <3>2. backup[n] \in BackupCR
      BY <1>0
    <3>3. QED
      BY <3>1, <3>2 DEF BackupCR
  <2>2. /\ Exists(backup[n]) /\ work'[n].pc = "idle"
        /\ UNCHANGED <<op, seen, uids, mirror>>
    BY <1>0, <1>5, SyncReportEffect
  <2>3. QED
    BY <1>0, <2>1, <2>2
<1>6. CASE CleanupGet(n)
  BY <1>0, <1>6, CleanupGetEffect
<1>7. CASE CleanupRemoveFinalizer(n) \/ CleanupDelete(n)
  <2>1. \/ op'[n] = op[n] \/ op'[n] = NoOp
        \/ /\ op'[n].uid = op[n].uid /\ op'[n].cron = op[n].cron
           /\ op'[n].controller = op[n].controller
    <3>1. op'[n] \in {op[n], Deleted(op[n]), WithFinalizer(op[n], FALSE)}
      BY <1>7, CleanupWriteEffect
    <3>2. \/ Deleted(op[n]) = NoOp
          \/ /\ Deleted(op[n]).uid = op[n].uid /\ Deleted(op[n]).cron = op[n].cron
             /\ Deleted(op[n]).controller = op[n].controller
      BY <1>0, DeletedFields
    <3>3. \/ WithFinalizer(op[n], FALSE) = NoOp
          \/ /\ WithFinalizer(op[n], FALSE).uid = op[n].uid
             /\ WithFinalizer(op[n], FALSE).cron = op[n].cron
             /\ WithFinalizer(op[n], FALSE).controller = op[n].controller
      BY <1>0, WithFinalizerFields
    <3>4. QED
      BY <3>1, <3>2, <3>3
  <2>2. UNCHANGED <<backup, seen, uids, mirror>> /\ work'[n].pc = "idle"
    BY <1>0, <1>7, CleanupWriteEffect
  <2>3. QED
    BY <1>0, <2>1, <2>2 DEF NoOp
<1>8. CASE CleanupDone(n)
  <2>1. NoBackup.uid = 0 /\ NoBackup.owner = 0 /\ ~NoBackup.scheduled
    BY DEF NoBackup
  <2>2. QED
    BY <1>0, <1>8, <2>1, CleanupDoneEffect
<1>9. CASE \E s \in Storages, retain \in BOOLEAN : CreateBackup(n, s, retain)
  BY <1>0, <1>9, NewBackupEffect
<1>9a. CASE Mirror(n) \/ MirrorCreates(n)
  <2>1. n \in CronNames
    BY <1>9a, MirrorLeaves
  <2>2. CASE Mirror(n)
    BY <2>1, <2>2 DEF Mirror
  <2>3. CASE MirrorCreates(n)
    BY <1>0, <2>1, <2>3, MirrorCreatesEffect
  <2>4. QED
    BY <1>9a, <2>2, <2>3
<1>10. CASE ChangePolicy(n) \/ DeleteBackup(n) \/ CollectBackup(n)
  BY <1>0, <1>10, ChangedBackupEffect
<1>11. CASE CollectOp(n) \/ DeleteOpBackup(n) \/ OperatorPrunes(n)
  BY <1>0, <1>11, DeletionEffect, DeletedFields DEF NoOp
<1>12. CASE OperatorRuns(n)
  BY <1>0, <1>12, RunsEffect
<1>13. CASE OperatorPurges(n)
  BY <1>0, <1>13 DEF OperatorPurges, NoOp, TypeOK, outsideVars
<1>14. CASE CacheCatchesUp(n)
  BY <1>0, <1>14 DEF CacheCatchesUp, TypeOK, outsideVars
<1>15. ASSUME NEW s \in Storages, NEW d \in BOOLEAN, NEW nm \in BOOLEAN,
              CronBackup(n, s, d, nm)
       PROVE  Bound(n)'
  BY <1>0, <1>15, CronEffect
<1>16. QED
  BY <1>1, <1>2, <1>3, <1>4, <1>5, <1>6, <1>7, <1>8, <1>9, <1>9a, <1>10, <1>11, <1>12, <1>13,
     <1>14, <1>15 DEF Own, Handler, Users, Operator

(* Of the operator's states, the terminal ones are passed on as they are.     *)
LEMMA VerdictPassedOn ==
  ASSUME NEW s \in OpState
  PROVE  /\ backupState(s) \in Terminal <=> s \in Terminal
         /\ s \in Terminal => backupState(s) = s
  BY DEF backupState, OpState, Terminal

(* Every verdict keeps its record in every step of the name itself.           *)
LEMMA ReportedStep ==
  ASSUME TypeOK, NEW n \in Names, Bound(n), Reported(n), Own(n), ended \subseteq ended'
  PROVE  Reported(n)'
<1>0. /\ backup[n] \in BackupCR /\ op[n] \in OpBackup /\ work[n] \in Work
      /\ op[n].state \in OpState
      /\ NoWork.pc = "idle" /\ NoOp.uid = 0 /\ NoBackup.state \notin Terminal
  BY DEF TypeOK, OpBackup, NoWork, NoOp, NoBackup, Terminal
<1>1. Ends \subseteq Ends'
  BY DEF Ends
<1> SUFFICES ASSUME n \notin CronNames PROVE Reported(n)'
  BY DEF Reported
<1> USE DEF Reported, Exists
<1>2. CASE SyncBackup(n) \/ CleanupBackup(n)
  BY <1>0, <1>1, <1>2, CallEffect
<1>3. CASE SyncGet(n)
  <2>1. ~work[n].cr.scheduled
    BY <1>3, SyncGetEffect DEF Bound, Current, Kind
  <2>2. /\ work'[n].pc # "report" \/ work'[n].state = "Pending"
        /\ UNCHANGED <<backup, op>>
    BY <1>3, <2>1, SyncGetEffect
  <2>3. QED
    BY <1>1, <2>2 DEF Terminal
<1>4. CASE SyncCreate(n)
  <2>1. newOpBackup(work[n].cr, uids[n].ob + 1).state = "New"
    BY DEF newOpBackup, NoOp
  <2>2. /\ work'[n].pc # "report" /\ UNCHANGED backup
        /\ op'[n].state = "New" \/ UNCHANGED op
    BY <1>0, <1>4, <2>1, SyncCreateEffect
  <2>3. QED
    BY <1>1, <2>2 DEF Terminal
<1>5. CASE SyncPatch(n)
  <2>1. CASE UNCHANGED op /\ work'[n] = NoWork
    BY <1>0, <1>1, <1>5, <2>1, SyncPatchEffect
  <2>2. CASE /\ ~PatchFails(op[n], work[n].ob, work[n].cr)
             /\ op'[n] = Patched(op[n], work[n].ob, work[n].cr)
             /\ work'[n].pc = "report" /\ work'[n].cr = work[n].cr
             /\ work'[n].state = backupState(op[n].state)
    <3>1. /\ Exists(op[n]) /\ op[n].controller = work'[n].cr.uid
          /\ \/ op'[n].uid = 0
             \/ op'[n].controller = op[n].controller /\ op'[n].state = op[n].state
      BY <1>0, <1>5, <2>2, SyncPatchEffect, PatchMeetsOwn
    <3>2. work'[n].state \in Terminal =>
             op[n].state \in Terminal /\ work'[n].state = op[n].state
      BY <1>0, <2>2, VerdictPassedOn
    <3>3. UNCHANGED backup
      BY <1>5, SyncPatchEffect
    <3>4. QED
      BY <1>1, <3>1, <3>2, <3>3
  <2>3. QED
    BY <1>5, <2>1, <2>2, SyncPatchEffect
<1>6. CASE SyncReport(n)
  <2>1. backup[n].uid = work[n].cr.uid
    BY <1>6, SyncReportEffect DEF Bound, Current
  <2>2. backup'[n] = [backup[n] EXCEPT !.state = work[n].state]
    BY <1>6, <2>1, SyncReportEffect
  <2>3. backup'[n].uid = backup[n].uid /\ backup'[n].state = work[n].state
    BY <1>0, <2>2 DEF BackupCR
  <2>4. work[n].pc = "report" /\ UNCHANGED op /\ work'[n].pc = "idle"
    BY <1>0, <1>6, SyncReportEffect
  <2>5. QED
    BY <1>1, <2>1, <2>3, <2>4
<1>7. CASE CleanupGet(n)
  BY <1>0, <1>1, <1>7, CleanupGetEffect
<1>8. CASE CleanupRemoveFinalizer(n) \/ CleanupDelete(n)
  <2>1. \/ op'[n] = op[n] \/ op'[n] = NoOp
        \/ /\ op'[n].uid = op[n].uid /\ op'[n].state = op[n].state
           /\ op'[n].controller = op[n].controller
    <3>1. op'[n] \in {op[n], Deleted(op[n]), WithFinalizer(op[n], FALSE)}
      BY <1>8, CleanupWriteEffect
    <3>2. \/ Deleted(op[n]) = NoOp
          \/ /\ Deleted(op[n]).uid = op[n].uid /\ Deleted(op[n]).state = op[n].state
             /\ Deleted(op[n]).controller = op[n].controller
      BY <1>0, DeletedFields
    <3>3. \/ WithFinalizer(op[n], FALSE) = NoOp
          \/ /\ WithFinalizer(op[n], FALSE).uid = op[n].uid
             /\ WithFinalizer(op[n], FALSE).state = op[n].state
             /\ WithFinalizer(op[n], FALSE).controller = op[n].controller
      BY <1>0, WithFinalizerFields
    <3>4. QED
      BY <3>1, <3>2, <3>3
  <2>2. UNCHANGED backup /\ work'[n].pc = "idle"
    BY <1>0, <1>8, CleanupWriteEffect
  <2>3. QED
    BY <1>0, <1>1, <2>1, <2>2
<1>9. CASE CleanupDone(n)
  BY <1>0, <1>1, <1>9, CleanupDoneEffect
<1>10. CASE \E s \in Storages, retain \in BOOLEAN : CreateBackup(n, s, retain)
  BY <1>0, <1>1, <1>10, NewBackupEffect DEF Terminal
<1>11. CASE ChangePolicy(n) \/ DeleteBackup(n) \/ CollectBackup(n)
  BY <1>0, <1>1, <1>11, ChangedBackupEffect
<1>12. CASE CollectOp(n) \/ DeleteOpBackup(n) \/ OperatorPrunes(n)
  BY <1>0, <1>1, <1>12, DeletionEffect, DeletedFields
<1>13. CASE OperatorRuns(n)
  <2>1. op'[n].state \in Terminal => <<n, op'[n].controller, op'[n].state>> \in Ends'
    <3>1. SUFFICES ASSUME op'[n].state \in Terminal
                   PROVE  <<n, op'[n].controller, op'[n].state>> \in Ends'
      OBVIOUS
    <3>2. [name |-> n, uid |-> op[n].uid, cr |-> op[n].controller,
           state |-> op'[n].state] \in ended'
      BY <1>13, <3>1, RunsEffect
    <3>3. <<n, op[n].controller, op'[n].state>> \in Ends'
      BY <3>2 DEF Ends
    <3>4. QED
      BY <1>13, <3>3, RunsEffect
  <2>2. UNCHANGED <<backup, work>>
    BY <1>13, RunsEffect
  <2>3. QED
    BY <1>1, <2>1, <2>2
<1>14. CASE OperatorPurges(n)
  BY <1>0, <1>1, <1>14 DEF OperatorPurges, TypeOK
<1>15. CASE CacheCatchesUp(n)
  BY <1>0, <1>1, <1>15 DEF CacheCatchesUp
<1>16. ASSUME NEW s \in Storages, NEW d \in BOOLEAN, NEW nm \in BOOLEAN,
              CronBackup(n, s, d, nm)
       PROVE  FALSE
  BY <1>16 DEF CronBackup
<1>17. QED
  BY MirrorLeaves, <1>2, <1>3, <1>4, <1>5, <1>6, <1>7, <1>8, <1>9, <1>10, <1>11, <1>12, <1>13,
     <1>14, <1>15, <1>16 DEF Own, Handler, Users, Operator

(* A name that is left alone, or whose handler ends, keeps its invariant.     *)
LEMMA VerdictStill ==
  ASSUME NEW n \in Names, Bound(n), Reported(n), Still(n), work'[n] \in {work[n], NoWork},
         ended \subseteq ended'
  PROVE  Bound(n)' /\ Reported(n)'
<1>1. NoWork.pc = "idle"
  BY DEF NoWork
<1>2. Ends \subseteq Ends'
  BY DEF Ends
<1>3. Bound(n)'
  BY <1>1 DEF Still, Bound, Current, Kind, Lineage, Exists
<1>4. Reported(n)'
  BY <1>1, <1>2 DEF Still, Reported, Exists
<1>5. QED
  BY <1>3, <1>4

(* The invariant of verdicts and bonds, whether the cache lags or not.        *)
LEMMA VerdictInvariant == Spec => [](TypeOK /\ VerdictInv)
<1>1. Init => VerdictInv
  <2> SUFFICES ASSUME Init, NEW n \in Names PROVE Bound(n) /\ Reported(n)
    BY DEF VerdictInv
  <2>2. /\ backup[n] = NoBackup /\ op[n] = NoOp /\ seen[n] = NoOp
        /\ work[n] = NoWork /\ uids[n].cr = 0 /\ mirror[n] = NoBackup
    BY DEF Init
  <2>3. /\ NoBackup.uid = 0 /\ ~NoBackup.scheduled /\ NoBackup.owner = 0 /\ NoBackup.state \notin Terminal
        /\ NoOp.uid = 0 /\ NoOp.controller = 0 /\ ~NoOp.cron /\ NoWork.pc = "idle"
    BY DEF NoBackup, NoOp, NoWork, Terminal
  <2>4. QED
    BY <2>2, <2>3 DEF Bound, Current, Kind, Lineage, Reported, Exists
<1>2. TypeOK /\ VerdictInv /\ [Next]_vars => VerdictInv'
  <2> SUFFICES ASSUME TypeOK, VerdictInv, [Next]_vars, NEW n \in Names
                 PROVE  Bound(n)' /\ Reported(n)'
    BY DEF VerdictInv
  <2>2. ended \subseteq ended'
    BY EndedGrows
  <2>3. Bound(n) /\ Reported(n)
    BY DEF VerdictInv
  <2>4. QED
    BY <2>2, <2>3, OneName, BoundStep, ReportedStep, VerdictStill
<1>3. QED
  BY <1>1, <1>2, TypeInit, TypeStep, PTL DEF Spec

(* A Backup is reported Succeeded or Failed only on the word of an operator   *)
(* backup that was created for it and ended so: for any number of names,      *)
(* reuses of a name, restarts, policy changes and deletions, and also while   *)
(* the cache that SyncBackup reads lags behind the API server.                *)
THEOREM VerdictsAreReal == Spec => []VerdictIsReal
<1>1. TypeOK /\ VerdictInv => VerdictIsReal
  <2> SUFFICES ASSUME VerdictInv, NEW n \in Names \ CronNames, backup[n].state \in Terminal
                 PROVE  \E e \in ended : /\ e.name = n /\ e.cr = backup[n].uid
                                         /\ e.state = backup[n].state
    BY DEF VerdictIsReal
  <2>2. Bound(n) /\ Reported(n)
    BY DEF VerdictInv
  <2>5. <<n, backup[n].uid, backup[n].state>> \in Ends
    BY <2>2 DEF Reported
  <2>6. QED
    BY <2>5 DEF Ends
<1>2. QED
  BY <1>1, VerdictInvariant, PTL

-----------------------------------------------------------------------------
(* Data that is to be purged. With policies that do not change, the finalizer *)
(* on an operator backup says what its Backup's policy says, in every read as *)
(* in the object itself; so a Patch never moves it, no clean-up takes it off  *)
(* against the policy, and the only way out for an operator backup whose data *)
(* is doomed leads through the operator's purge.                              *)
PolicyOnObject(n) ==
    /\ Exists(op[n]) => (op[n].deleteData <=> ~backup[n].retain)
    /\ work[n].pc # "idle" => (work[n].cr.retain <=> backup[n].retain)
    /\ work[n].pc = "patch" => (work[n].ob.deleteData <=> ~backup[n].retain)
    /\ work[n].pc # "removeFinalizer"

DoomedHeld(n) ==
    \A u \in Stamp : <<n, u>> \in doomed /\ <<n, u>> \in stored =>
       op[n].uid = u /\ Exists(backup[n]) /\ ~backup[n].retain

DoomedFresh(n) ==
    /\ \A u \in Stamp : <<n, u>> \in doomed => u <= uids[n].ob
    /\ <<n, op[n].uid>> \in doomed \/ <<n, op[n].uid>> \in stored => op[n].state = "Succeeded"

PurgeInv == \A n \in Names : PolicyOnObject(n) /\ DoomedHeld(n) /\ DoomedFresh(n)

(* The inductive invariant of BackupsProofs, as a fact about behaviours.      *)
LEMMA IndInvariant == ASSUME ~StaleReads PROVE Spec => []IndInv
<1>1. IndInv /\ [Next]_vars => IndInv'
  BY InvStep
<1>2. QED
  BY <1>1, InvInit, PTL DEF Spec

(* An operator backup of an on-demand name has its Backup beside it.          *)
LEMMA OpHasBackup ==
  ASSUME IndInv, NEW n \in Names \ CronNames, Bound(n), Exists(op[n])
  PROVE  Exists(backup[n]) /\ op[n].controller = backup[n].uid
<1>1. op[n].controller # 0
  BY DEF Bound, Lineage
<1>2. op[n].controller = backup[n].uid
  BY <1>1 DEF IndInv, Inv, Owned
<1>3. QED
  BY <1>1, <1>2 DEF Exists

(* No step of a name loses doomed data.                                       *)
LEMMA PurgeStep ==
  ASSUME ~StaleReads, CronNames = {}, MaxPolicyChanges = 0,
         IndInv, NEW n \in Names, Bound(n), Own(n),
         PolicyOnObject(n), DoomedHeld(n), DoomedFresh(n)
  PROVE  PolicyOnObject(n)' /\ DoomedHeld(n)' /\ DoomedFresh(n)'
<1> USE DEF PolicyOnObject, DoomedHeld, DoomedFresh, Exists
<1>0. /\ TypeOK
      /\ backup[n] \in BackupCR /\ op[n] \in OpBackup /\ work[n] \in Work
      /\ uids[n].ob \in Nat /\ Get(n) = op[n]
      /\ NoWork.pc = "idle" /\ NoOp.uid = 0 /\ 0 \notin Stamp
      /\ \A u : <<n, u>> \in stored \/ <<n, u>> \in doomed => u \in Stamp
  BY BoundsAssumption DEF IndInv, TypeOK, UID, MaxOpUID, Get, NoWork, NoOp, Stamp
<1>1. CASE SyncBackup(n) \/ CleanupBackup(n)
  BY <1>0, <1>1, CallEffect
<1>2. CASE SyncGet(n)
  BY <1>0, <1>2, SyncGetEffect
<1>3. CASE SyncCreate(n)
  <2>1. CASE /\ ~Exists(op[n])
             /\ op'[n] = newOpBackup(work[n].cr, uids[n].ob + 1)
             /\ uids'[n].cr = uids[n].cr /\ uids'[n].ob = uids[n].ob + 1
             /\ work'[n].pc = "patch" /\ work'[n].cr = work[n].cr /\ work'[n].ob = op'[n]
    <3>1. op'[n].uid = uids[n].ob + 1 /\ (op'[n].deleteData <=> ~work[n].cr.retain)
      BY <2>1 DEF newOpBackup, NoOp
    <3>2. UNCHANGED <<backup, stored, doomed>> /\ work[n].pc = "create"
      BY <1>0, <1>3, SyncCreateEffect
    <3>3. PolicyOnObject(n)'
      BY <2>1, <3>1, <3>2
    <3>4. <<n, uids[n].ob + 1>> \notin stored /\ <<n, uids[n].ob + 1>> \notin doomed
      BY <1>0 DEF IndInv, Inv, Fresh
    <3>5. DoomedHeld(n)' /\ DoomedFresh(n)'
      BY <1>0, <2>1, <3>1, <3>2, <3>4 DEF Stamp
    <3>6. QED
      BY <3>3, <3>5
  <2>2. CASE UNCHANGED <<op, uids>>
    BY <1>0, <1>3, <2>2, SyncCreateEffect
  <2>3. QED
    BY <1>0, <1>3, <2>1, <2>2, SyncCreateEffect
<1>4. CASE SyncPatch(n)
  <2>1. CASE UNCHANGED op /\ work'[n] = NoWork
    BY <1>0, <1>4, <2>1, SyncPatchEffect
  <2>2. CASE /\ ~PatchFails(op[n], work[n].ob, work[n].cr)
             /\ op'[n] = Patched(op[n], work[n].ob, work[n].cr)
             /\ work'[n].pc = "report" /\ work'[n].cr = work[n].cr
             /\ work'[n].state = backupState(op[n].state)
    <3>1. work[n].pc = "patch" /\ UNCHANGED <<backup, uids, stored, doomed>>
      BY <1>0, <1>4, SyncPatchEffect
    <3>2. work[n].ob.controller = work[n].cr.uid
      <4>1. work[n].ob.controller # 0
        BY <3>1 DEF Bound, Lineage
      <4>2. QED
        BY <2>2, <4>1 DEF PatchFails
    <3>3. work[n].ob.deleteData = ~work[n].cr.retain
      <4>1. work[n].ob.deleteData \in BOOLEAN /\ work[n].cr.retain \in BOOLEAN
        BY <1>0 DEF Work, OpBackup, BackupCR
      <4>2. work[n].ob.deleteData <=> ~work[n].cr.retain
        BY <3>1
      <4>3. QED
        BY <4>1, <4>2
    <3>4. op'[n] = op[n]
      BY <2>2, <3>2, <3>3 DEF Patched
    <3>5. QED
      BY <1>0, <2>2, <3>1, <3>4
  <2>3. QED
    BY <1>0, <1>4, <2>1, <2>2, SyncPatchEffect
<1>5. CASE SyncReport(n)
  <2>1. backup'[n].uid = backup[n].uid /\ backup'[n].retain = backup[n].retain
    <3>1. backup'[n] \in {backup[n], [backup[n] EXCEPT !.state = work[n].state]}
      BY <1>0, <1>5, SyncReportEffect
    <3>2. QED
      BY <1>0, <3>1 DEF BackupCR
  <2>2. UNCHANGED <<op, uids, stored, doomed>> /\ work'[n].pc = "idle"
    BY <1>0, <1>5, SyncReportEffect
  <2>3. QED
    BY <2>1, <2>2
<1>6. CASE CleanupGet(n)
  BY <1>0, <1>6, CleanupGetEffect
<1>7. CASE CleanupRemoveFinalizer(n) \/ CleanupDelete(n)
  <2>1. /\ op'[n] = Deleted(op[n]) /\ work'[n].pc = "idle"
        /\ UNCHANGED <<backup, uids, stored, doomed>>
    BY <1>0, <1>7, CleanupWriteEffect
  <2>2. QED
    BY <1>0, <2>1, DeletedFields
<1>8. CASE CleanupDone(n)
  <2>1. /\ ~Exists(op[n]) /\ work'[n].pc = "idle"
        /\ UNCHANGED <<op, uids, stored, doomed>>
    <3>1. work[n].pc = "cleaned" /\ work'[n].pc = "idle" /\ UNCHANGED <<op, uids, stored, doomed>>
      BY <1>0, <1>8, CleanupDoneEffect
    <3>2. op[n].controller = 0
      BY <3>1 DEF IndInv, Inv, CleanedGone
    <3>3. QED
      BY <3>1, <3>2 DEF Bound, Lineage
  <2>2. QED
    BY <1>0, <2>1
<1>9. CASE \E s \in Storages, retain \in BOOLEAN : CreateBackup(n, s, retain)
  <2>1. ~Exists(backup[n]) /\ UNCHANGED <<op, work, stored, doomed>> /\ uids'[n].ob = uids[n].ob
    BY <1>0, <1>9, NewBackupEffect
  <2>2. ~Exists(op[n])
    BY <2>1, OpHasBackup
  <2>3. work[n].pc = "idle"
    BY <2>1 DEF Bound, Current
  <2>4. QED
    BY <1>0, <2>1, <2>2, <2>3
<1>10. CASE ChangePolicy(n)
  BY <1>0, <1>10 DEF ChangePolicy, TypeOK
<1>11. CASE DeleteBackup(n) \/ CollectBackup(n)
  <2>1. /\ Exists(backup[n]) /\ Exists(backup[n])' /\ backup'[n].retain = backup[n].retain
        /\ UNCHANGED <<op, uids, work, stored>>
    BY <1>0, <1>11, ChangedBackupEffect DEF ChangePolicy, TypeOK
  <2>2. \A u : <<n, u>> \in doomed' =>
           <<n, u>> \in doomed \/ (u = op[n].uid /\ <<n, u>> \in stored /\ ~backup[n].retain)
    BY <1>11 DEF DeleteBackup, CollectBackup, DataOf, historyVars
  <2>3. \A u \in Stamp : <<n, u>> \in stored => u <= uids[n].ob
    BY DEF IndInv, Inv, Fresh
  <2>4. QED
    BY <1>0, <2>1, <2>2, <2>3
<1>12. CASE CollectOp(n) \/ DeleteOpBackup(n) \/ OperatorPrunes(n)
  <2>1. ~op[n].cron
    BY DEF Bound, Kind
  <2>2. /\ op'[n] = Deleted(op[n]) /\ UNCHANGED <<backup, uids, work, stored>>
        /\ doomed' \subseteq doomed
    BY <1>0, <1>12, <2>1, DeletionEffect
  <2>3. QED
    BY <1>0, <2>2, DeletedFields
<1>13. CASE OperatorRuns(n)
  <2>1. /\ Exists(op[n]) /\ op'[n].uid = op[n].uid
        /\ op[n].state # "Succeeded" /\ op'[n].deleteData = op[n].deleteData
        /\ \/ UNCHANGED stored
           \/ op'[n].state = "Succeeded" /\ stored' = stored \cup {<<n, op[n].uid>>}
        /\ UNCHANGED <<backup, uids, work, doomed>>
    BY <1>0, <1>13, RunsEffect
  <2>2. PolicyOnObject(n)'
    BY <2>1
  <2>3. DoomedHeld(n)' /\ DoomedFresh(n)'
    BY <1>0, <2>1
  <2>4. QED
    BY <2>2, <2>3
<1>14. CASE OperatorPurges(n)
  <2>1. /\ op'[n] = NoOp /\ stored' = stored \ {<<n, op[n].uid>>}
        /\ UNCHANGED <<backup, uids, work, doomed>>
    BY <1>0, <1>14 DEF OperatorPurges, TypeOK, historyVars
  <2>2. QED
    BY <1>0, <2>1
<1>15. CASE CacheCatchesUp(n)
  BY <1>15 DEF CacheCatchesUp
<1>16. ASSUME NEW s \in Storages, NEW d \in BOOLEAN, NEW nm \in BOOLEAN,
              CronBackup(n, s, d, nm)
       PROVE  FALSE
  BY <1>16 DEF CronBackup
<1>17. QED
  BY MirrorLeaves, <1>0, <1>1, <1>2, <1>3, <1>4, <1>5, <1>6, <1>7, <1>8, <1>9, <1>10, <1>11, <1>12, <1>13,
     <1>14, <1>15, <1>16 DEF Own, Handler, Users, Operator

(* Once a Backup that was deleted with policy Delete is gone, so is its data: *)
(* for on-demand Backups in any number, any storages, reuses, restarts and    *)
(* deletions of operator backups by hand, while reads do not lag and nobody   *)
(* changes a policy. Each hypothesis is needed: CleanupBackup never adds a    *)
(* finalizer, so a Backup switched from Retain to Delete just before its      *)
(* deletion, or a scheduled one without finalizer, leaves its data behind, as *)
(* does a clean-up that a stale read tells that there is nothing to delete.   *)
THEOREM DoomedIsPurged ==
  ASSUME ~StaleReads, CronNames = {}, MaxPolicyChanges = 0
  PROVE  Spec => []DeletedDataIsPurged
<1>1. Init => PurgeInv
  <2> SUFFICES ASSUME Init, NEW n \in Names
               PROVE  PolicyOnObject(n) /\ DoomedHeld(n) /\ DoomedFresh(n)
    BY DEF PurgeInv
  <2>1. op[n] = NoOp /\ work[n] = NoWork /\ doomed = {} /\ stored = {}
    BY DEF Init
  <2>2. NoOp.uid = 0 /\ NoWork.pc = "idle"
    BY DEF NoOp, NoWork
  <2>3. QED
    BY <2>1, <2>2 DEF PolicyOnObject, DoomedHeld, DoomedFresh, Exists
<1>2. /\ IndInv /\ TypeOK /\ VerdictInv
      /\ PurgeInv /\ [Next]_vars
      => PurgeInv'
  <2> SUFFICES ASSUME IndInv, TypeOK, VerdictInv, PurgeInv, [Next]_vars, NEW n \in Names
               PROVE  PolicyOnObject(n)' /\ DoomedHeld(n)' /\ DoomedFresh(n)'
    BY DEF PurgeInv
  <2>1. Bound(n) /\ PolicyOnObject(n) /\ DoomedHeld(n) /\ DoomedFresh(n)
    BY DEF VerdictInv, PurgeInv
  <2>2. CASE Own(n)
    BY <2>1, <2>2, PurgeStep
  <2>3. CASE Still(n) /\ work'[n] \in {work[n], NoWork}
    <3>1. NoWork.pc = "idle"
      BY DEF NoWork
    <3>2. QED
      BY <2>1, <2>3, <3>1 DEF Still, PolicyOnObject, DoomedHeld, DoomedFresh, Exists
  <2>4. QED
    BY <2>2, <2>3, OneName
<1>3. PurgeInv => DeletedDataIsPurged
  BY DEF PurgeInv, DoomedHeld, DeletedDataIsPurged
<1>4. QED
  BY <1>1, <1>2, <1>3, IndInvariant, VerdictInvariant, PTL DEF Spec
=============================================================================
