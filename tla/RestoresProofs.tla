--------------------------- MODULE RestoresProofs ---------------------------
(* Theorems about Restores, for every set of names, instances and (finitely   *)
(* many) sources and every bound.                                             *)
EXTENDS Restores, FiniteSetTheorems, TLAPS

(* A step of Restores, or one of a component beside it that uses up a restart *)
(* and leaves everything else alone. InstanceSync takes such steps.           *)
RestoreMoves ==
    \/ RestoreNext
    \/ /\ UNCHANGED <<sourceVars, restore, op, seen, uids, work, applied>>
       /\ restarts' \in 0..MaxRestarts

(* Handlers at work, by what they work at.                                    *)
SyncPCs == {"resolve", "base", "get", "create", "patch", "report"}
CleanupPCs == {"cleanupGet", "delete", "cleaned"}

(* The Backups a Restore may start from: completion comes with success, and   *)
(* an operator backup that nobody deletes has ended as its Backup says.       *)
SourceShape(b) ==
    /\ source[b].state = "Pending" => source[b].completedAt = NoTime
    /\ source[b].state = "Absent" => sourceOp[b] = "Absent"
    /\ ~SourcesMayGo /\ source[b].state \in Terminal => sourceOp[b] = source[b].state

TypeInv ==
    /\ RestoreTypeOK
    /\ \A b \in Sources : SourceShape(b)

-----------------------------------------------------------------------------
(* Types.                                                                     *)

(* What stands for an absent object is typed like a present one.              *)
LEMMA ConstantsTyped ==
    /\ 0 \in UID
    /\ NoDataSource \in DataSource
    /\ NoRestore \in RestoreCR
    /\ NoOp \in OpRestore
    /\ NoWork \in Work
<1>1. 0 \in UID
  BY RestoreBounds DEF UID
<1>2. NoDataSource \in DataSource
  BY DEF NoDataSource, DataSource
<1>3. NoRestore \in RestoreCR /\ NoOp \in OpRestore
  BY <1>1, <1>2 DEF NoRestore, RestoreCR, RestoreState, NoOp, OpRestore, OpState
<1>4. NoWork \in Work
  BY <1>3 DEF NoWork, Work, RestoreState
<1>5. QED
  BY <1>1, <1>2, <1>3, <1>4

(* The fields of what stands for an absent object.                            *)
LEMMA AbsentFields ==
    /\ NoRestore.uid = 0 /\ ~NoRestore.deleting /\ NoRestore.state = "New"
    /\ NoOp.uid = 0 /\ ~NoOp.deleting /\ NoOp.state = "New" /\ NoOp.controller = 0
    /\ NoWork.pc = "idle"
  BY DEF NoRestore, NoOp, NoWork

(* A data source names the parts that its type calls for.                     *)
LEMMA DataSourceFields ==
  ASSUME NEW ds \in DataSource
  PROVE  /\ ds.type \in {"Backup", "PointInTime", "Invalid"}
         /\ ds.type = "Backup" => ds.backup \in Sources
         /\ ds.date \in Time \cup {NoTime}
  BY DEF DataSource

(* The phases of an operator restore, one after the other.                    *)
LEMMA PhaseOrder ==
    /\ PhaseAfter("New") = "Starting"
    /\ PhaseAfter("Starting") = "StopCluster"
    /\ PhaseAfter("StopCluster") = "Restore"
    /\ PhaseAfter("Restore") = "PITR"
    /\ PhaseAfter("PITR") = "PrepareCluster"
    /\ PhaseAfter("PrepareCluster") = "StartCluster"
    /\ PhaseAfter("StartCluster") = "Succeeded"
<1>1. /\ Phases[1] = "New" /\ Phases[2] = "Starting" /\ Phases[3] = "StopCluster"
      /\ Phases[4] = "Restore" /\ Phases[5] = "PITR" /\ Phases[6] = "PrepareCluster"
      /\ Phases[7] = "StartCluster" /\ Phases[8] = "Succeeded"
      /\ DOMAIN Phases = 1..8
  BY DEF Phases
<1>2. ASSUME NEW k \in 1..7
      PROVE  (CHOOSE j \in DOMAIN Phases : Phases[j] = Phases[k]) = k
  <2>1. ASSUME NEW j \in 1..8, Phases[j] = Phases[k] PROVE j = k
    BY <1>1, <2>1
  <2>2. k \in DOMAIN Phases
    BY <1>1
  <2>3. QED
    BY <1>1, <2>1, <2>2
<1>3. \A k \in 1..7 : PhaseAfter(Phases[k]) = Phases[k + 1]
  BY <1>2 DEF PhaseAfter
<1>4. QED
  BY <1>1, <1>3

(* A phase is followed by a phase, and New only by Starting.                  *)
LEMMA FollowingPhase ==
  ASSUME NEW b \in OpRestore, b.state \notin Terminal
  PROVE  /\ Following(b) \in RunningPhases \cup {"Succeeded"}
         /\ b.state = "New" => Following(b) = "Starting"
  BY PhaseOrder DEF Following, OpRestore, OpState, RunningPhases, Terminal

(* The bases that suit a data source: the backup it names, or one that was    *)
(* complete at the point in time it names. What suits once suits for good.    *)
Suits ==
    {p \in Sources \X DataSource :
        /\ p[2].type # "Invalid"
        /\ p[2].type = "Backup" => p[1] = p[2].backup
        /\ p[2].type = "PointInTime" /\ p[2].date # NoTime =>
              /\ source[p[1]].completedAt # NoTime
              /\ source[p[1]].completedAt <= p[2].date}

(* A named Backup suits, and so does a base that is selected for a point in   *)
(* time, which has succeeded.                                                 *)
LEMMA BaseSuits ==
  ASSUME RestoreTypeOK, NEW ds \in DataSource
  PROVE  /\ ds.type = "Backup" => <<ds.backup, ds>> \in Suits
         /\ ds.type = "PointInTime" =>
               \A b \in selectPITRBaseBackup(source, ds.instance, Storage, ds.date) :
                  <<b, ds>> \in Suits /\ source[b].state = "Succeeded"
<1>1. ds.type = "Backup" => <<ds.backup, ds>> \in Suits
  BY DataSourceFields DEF Suits
<1>2. ASSUME ds.type = "PointInTime",
             NEW b \in selectPITRBaseBackup(source, ds.instance, Storage, ds.date)
      PROVE  <<b, ds>> \in Suits /\ source[b].state = "Succeeded"
  <2>1. /\ b \in DOMAIN source /\ source[b].state = "Succeeded"
        /\ source[b].completedAt # NoTime
        /\ ds.date # NoTime => source[b].completedAt <= ds.date
    BY DEF selectPITRBaseBackup, PITRCandidates
  <2>2. b \in Sources
    BY <2>1 DEF RestoreTypeOK
  <2>3. QED
    BY <1>2, <2>1, <2>2 DEF Suits
<1>3. QED
  BY <1>1, <1>2

(* There is a completion time for every source.                               *)
LEMMA TimeLeft ==
  ASSUME RestoreTypeOK, NEW b \in Sources, source[b].completedAt = NoTime
  PROVE  Cardinality(Completed) + 1 \in Time
<1>1. Completed \subseteq Sources \ {b}
  BY DEF Completed
<1>2. IsFiniteSet(Sources \ {b}) /\ Cardinality(Sources \ {b}) = Cardinality(Sources) - 1
  BY SourcesAssumption, FS_RemoveElement
<1>3. IsFiniteSet(Completed) /\ Cardinality(Completed) <= Cardinality(Sources) - 1
  BY <1>1, <1>2, FS_Subset
<1>4. Cardinality(Completed) \in Nat /\ Cardinality(Sources) \in Nat
  BY <1>3, SourcesAssumption, FS_CardinalityType
<1>5. QED
  BY <1>3, <1>4 DEF Time

(* The life of the sources: every step keeps types and shapes, and a source   *)
(* that has completed has done so for good.                                   *)
LEMMA SourceStepEffect ==
  ASSUME TypeInv, NEW b \in Sources,
         SourceAppears(b) \/ SourceOpStep(b) \/ SourceReport(b) \/ SourceOpGoes(b) \/ SourceGoes(b)
  PROVE  /\ UNCHANGED <<restore, op, seen, uids, work, restarts, applied>>
         /\ source' \in [Sources -> [instance : Instances, storage : {Storage},
                               state : {"Absent", "Pending", "Succeeded", "Failed"},
                               completedAt : Time \cup {NoTime}]]
         /\ sourceOp' \in [Sources -> {"Absent", "Running", "Succeeded", "Failed"}]
         /\ \A c \in Sources : SourceShape(c)'
         /\ \A c \in Sources : source[c].completedAt # NoTime =>
               source'[c].completedAt = source[c].completedAt
<1> DEFINE S == [instance : Instances, storage : {Storage},
                 state : {"Absent", "Pending", "Succeeded", "Failed"},
                 completedAt : Time \cup {NoTime}]
<1>0. /\ RestoreTypeOK
      /\ source \in [Sources -> S] /\ source[b] \in S
      /\ sourceOp \in [Sources -> {"Absent", "Running", "Succeeded", "Failed"}]
      /\ \A c \in Sources : SourceShape(c)
  BY DEF TypeInv, RestoreTypeOK
<1>1. ASSUME source'[b] \in S, SourceShape(b)',
             \A c \in Sources : c # b => source'[c] = source[c] /\ sourceOp'[c] = sourceOp[c]
      PROVE  \A c \in Sources : SourceShape(c)'
  BY <1>0, <1>1 DEF SourceShape
<1>2. CASE SourceAppears(b)
  <2>1. /\ source' = [source EXCEPT ![b] = [source[b] EXCEPT !.state = "Pending"]]
        /\ source[b].state = "Absent" /\ source[b].completedAt = NoTime
        /\ UNCHANGED <<sourceOp, restore, op, seen, uids, work, restarts, applied>>
    BY <1>0, <1>2 DEF SourceAppears
  <2>2. source'[b] \in S /\ source'[b].state = "Pending" /\ source'[b].completedAt = NoTime
    BY <1>0, <2>1
  <2>3. source' \in [Sources -> S]
    BY <1>0, <2>1, <2>2
  <2>4. SourceShape(b)'
    BY <2>2 DEF SourceShape, Terminal
  <2>5. QED
    BY <1>0, <1>1, <2>1, <2>2, <2>3, <2>4
<1>3. CASE SourceOpStep(b)
  <2>1. /\ sourceOp[b] \in {"Absent", "Running"} /\ source[b].state # "Absent"
        /\ sourceOp' \in [Sources -> {"Absent", "Running", "Succeeded", "Failed"}]
        /\ \A c \in Sources : c # b => sourceOp'[c] = sourceOp[c]
        /\ UNCHANGED <<source, restore, op, seen, uids, work, restarts, applied>>
    BY <1>0, <1>3 DEF SourceOpStep
  <2>2. SourceShape(b)'
    BY <1>0, <2>1 DEF SourceShape, Terminal
  <2>3. QED
    BY <1>0, <1>1, <2>1, <2>2
<1>4. CASE SourceReport(b)
  <2>1. /\ source[b].state = "Pending" /\ source[b].completedAt = NoTime
        /\ UNCHANGED <<sourceOp, restore, op, seen, uids, work, restarts, applied>>
    BY <1>0, <1>4 DEF SourceReport, SourceShape
  <2>2. Cardinality(Completed) + 1 \in Time
    BY <1>0, <2>1, TimeLeft
  <2>3. CASE sourceOp[b] = "Failed" /\ source' = [source EXCEPT ![b].state = "Failed"]
    <3>1. /\ source' \in [Sources -> S] /\ source'[b].state = "Failed"
          /\ \A c \in Sources : c # b => source'[c] = source[c]
      BY <1>0, <2>3
    <3>2. SourceShape(b)'
      BY <2>1, <2>3, <3>1 DEF SourceShape, Terminal
    <3>3. QED
      BY <1>0, <1>1, <2>1, <3>1, <3>2
  <2>4. CASE /\ sourceOp[b] = "Succeeded"
             /\ source' = [source EXCEPT ![b].state = "Succeeded",
                                         ![b].completedAt = Cardinality(Completed) + 1]
    <3>1. /\ source' \in [Sources -> S] /\ source'[b].state = "Succeeded"
          /\ \A c \in Sources : c # b => source'[c] = source[c]
      BY <1>0, <2>2, <2>4
    <3>2. SourceShape(b)'
      BY <2>1, <2>4, <3>1 DEF SourceShape, Terminal
    <3>3. QED
      BY <1>0, <1>1, <2>1, <3>1, <3>2
  <2>5. QED
    BY <1>4, <2>3, <2>4 DEF SourceReport
<1>5. CASE SourceOpGoes(b)
  <2>1. /\ SourcesMayGo /\ source[b].state \in Terminal
        /\ sourceOp' = [sourceOp EXCEPT ![b] = "Absent"]
        /\ UNCHANGED <<source, restore, op, seen, uids, work, restarts, applied>>
    BY <1>5 DEF SourceOpGoes
  <2>2. SourceShape(b)'
    BY <1>0, <2>1 DEF SourceShape, Terminal
  <2>3. QED
    BY <1>0, <1>1, <2>1, <2>2
<1>6. CASE SourceGoes(b)
  <2>1. /\ source' = [source EXCEPT ![b].state = "Absent"] /\ sourceOp[b] = "Absent"
        /\ UNCHANGED <<sourceOp, restore, op, seen, uids, work, restarts, applied>>
    BY <1>6 DEF SourceGoes
  <2>2. /\ source' \in [Sources -> S] /\ source'[b].state = "Absent"
        /\ source'[b].completedAt = source[b].completedAt
        /\ \A c \in Sources : c # b => source'[c] = source[c]
    BY <1>0, <2>1
  <2>3. SourceShape(b)'
    BY <2>1, <2>2 DEF SourceShape, Terminal
  <2>4. QED
    BY <1>0, <1>1, <2>1, <2>2, <2>3
<1>7. QED
  BY <1>2, <1>3, <1>4, <1>5, <1>6

-----------------------------------------------------------------------------
(* What each step does to one name.                                           *)

Typed(r) ==
    /\ restore[r] \in RestoreCR /\ op[r] \in OpRestore /\ seen[r] \in OpRestore
    /\ uids[r] \in [cr : UID, ob : UID] /\ work[r] \in Work

(* A name that a step leaves alone.                                           *)
Still(r) ==
    restore'[r] = restore[r] /\ op'[r] = op[r] /\ seen'[r] = seen[r] /\ uids'[r] = uids[r]

(* The steps that are about one name.                                         *)
Own(r) ==
    \/ Handler(r) \/ DeleteRestore(r) \/ OperatorAdvances(r) \/ OperatorFails(r)
    \/ OperatorReleases(r) \/ CollectOp(r) \/ CacheCatchesUp(r)
    \/ \E i \in Instances, ds \in DataSource : CreateRestore(r, i, ds)

(* A handler's memory, field by field.                                        *)
LEMMA MemoryFields ==
  ASSUME NEW w \in Work, NEW pc
  PROVE  /\ LET v == [w EXCEPT !.pc = pc] IN v.pc = pc /\ v.cr = w.cr /\ v.base = w.base
         /\ \A b : LET v == [w EXCEPT !.pc = pc, !.base = b]
                   IN  v.pc = pc /\ v.cr = w.cr /\ v.base = b
         /\ \A b : LET v == [w EXCEPT !.pc = pc, !.ob = b]
                   IN  v.pc = pc /\ v.cr = w.cr /\ v.ob = b
         /\ \A cr, s : LET v == [NoWork EXCEPT !.pc = pc, !.cr = cr, !.state = s]
                       IN  v.pc = pc /\ v.cr = cr /\ v.state = s
         /\ \A cr : LET v == [NoWork EXCEPT !.pc = pc, !.cr = cr]
                    IN  v.pc = pc /\ v.cr = cr
  BY DEF Work, NoWork

(* A request changes its own memory and neither cache nor history.            *)
LEMMA StepEffect ==
  ASSUME RestoreTypeOK, NEW r \in Names, NEW w, Step(r, w)
  PROVE  work'[r] = w /\ UNCHANGED <<source, sourceOp, seen, restarts, applied>>
  BY DEF Step, RestoreTypeOK, sourceVars

(* The types, for one name.                                                   *)
LEMMA TypedName ==
  ASSUME RestoreTypeOK, NEW r \in Names
  PROVE  /\ Typed(r) /\ Get(r) \in OpRestore
         /\ work[r].cr \in RestoreCR /\ work[r].ob \in OpRestore
         /\ work[r].cr.dataSource \in DataSource /\ restore[r].dataSource \in DataSource
         /\ uids[r].cr \in Nat /\ uids[r].ob \in Nat
         /\ op[r].controller \in Int /\ op[r].state \in OpState
         /\ work[r].base \in Sources \cup {NoSource}
  BY RestoreBounds DEF RestoreTypeOK, Typed, Get, Work, RestoreCR, OpRestore, UID

(* The first request of either handler remembers the Restore it is called for.*)
LEMMA CallEffect ==
  ASSUME RestoreTypeOK, NEW r \in Names, SyncRestore(r) \/ CleanupRestore(r)
  PROVE  /\ work[r].pc = "idle" /\ Exists(restore[r])
         /\ work'[r] \in Work /\ work'[r].cr = restore[r]
         /\ \/ /\ work'[r].pc = "resolve" /\ ~restore[r].deleting
               /\ restore[r].state \notin Terminal
            \/ work'[r].pc = "cleanupGet" /\ restore[r].deleting
         /\ UNCHANGED <<source, sourceOp, restore, op, seen, uids, applied>>
<1>0. restore[r] \in RestoreCR
  BY TypedName DEF Typed
<1>1. CASE SyncRestore(r)
  <2>1. Step(r, [NoWork EXCEPT !.pc = "resolve", !.cr = restore[r]])
    BY <1>1 DEF SyncRestore
  <2>2. work'[r] = [NoWork EXCEPT !.pc = "resolve", !.cr = restore[r]]
        /\ UNCHANGED <<source, sourceOp, seen, applied>>
    BY <2>1, StepEffect
  <2>3. work'[r] \in Work /\ work'[r].pc = "resolve" /\ work'[r].cr = restore[r]
    BY <1>0, <2>2, ConstantsTyped DEF Work, NoWork
  <2>4. QED
    BY <1>1, <2>2, <2>3 DEF SyncRestore
<1>2. CASE CleanupRestore(r)
  <2>1. Step(r, [NoWork EXCEPT !.pc = "cleanupGet", !.cr = restore[r]])
    BY <1>2 DEF CleanupRestore
  <2>2. work'[r] = [NoWork EXCEPT !.pc = "cleanupGet", !.cr = restore[r]]
        /\ UNCHANGED <<source, sourceOp, seen, applied>>
    BY <2>1, StepEffect
  <2>3. work'[r] \in Work /\ work'[r].pc = "cleanupGet" /\ work'[r].cr = restore[r]
    BY <1>0, <2>2, ConstantsTyped DEF Work, NoWork
  <2>4. QED
    BY <1>2, <2>2, <2>3 DEF CleanupRestore
<1>3. QED
  BY <1>1, <1>2

(* A handler that ends remembers what to report, and of which Restore.        *)
LEMMA ReportEffect ==
  ASSUME RestoreTypeOK, NEW r \in Names, NEW s \in RestoreState, Report(r, s)
  PROVE  /\ work'[r] \in Work /\ work'[r].cr = work[r].cr
         /\ work'[r].pc = "report" /\ work'[r].state = s
         /\ UNCHANGED <<source, sourceOp, seen, applied>>
<1>1. work[r] \in Work /\ work[r].cr \in RestoreCR
  BY TypedName DEF Typed
<1>2. /\ work'[r] = [NoWork EXCEPT !.pc = "report", !.cr = work[r].cr, !.state = s]
      /\ UNCHANGED <<source, sourceOp, seen, applied>>
  BY StepEffect DEF Report
<1>3. work'[r] \in Work
  BY <1>1, <1>2, ConstantsTyped DEF Work, NoWork
<1>4. QED
  BY <1>1, <1>2, <1>3, MemoryFields

(* A handler goes on with a base.                                             *)
LEMMA BaseEffect ==
  ASSUME RestoreTypeOK, NEW r \in Names, NEW b \in Sources, NEW pc \in {"base", "get"},
         Step(r, [work[r] EXCEPT !.pc = pc, !.base = b])
  PROVE  /\ work'[r] \in Work /\ work'[r].cr = work[r].cr
         /\ work'[r].pc = pc /\ work'[r].base = b
         /\ UNCHANGED <<source, sourceOp, seen, applied>>
<1>1. work[r] \in Work
  BY TypedName DEF Typed
<1>2. /\ work'[r] = [work[r] EXCEPT !.pc = pc, !.base = b]
      /\ UNCHANGED <<source, sourceOp, seen, applied>>
  BY StepEffect
<1>3. work'[r] \in Work
  BY <1>1, <1>2 DEF Work
<1>4. QED
  BY <1>1, <1>2, <1>3, MemoryFields

(* The source is resolved to a base, or to a state to report.                 *)
LEMMA ResolveEffect ==
  ASSUME TypeInv, NEW r \in Names, SyncResolve(r)
  PROVE  /\ work[r].pc = "resolve"
         /\ work'[r] \in Work /\ work'[r].cr = work[r].cr
         /\ \/ /\ work'[r].pc = "get"
               /\ <<work'[r].base, work[r].cr.dataSource>> \in Suits
            \/ /\ work'[r].pc = "base"
               /\ <<work'[r].base, work[r].cr.dataSource>> \in Suits
               /\ source[work'[r].base].state = "Succeeded"
            \/ work'[r].pc = "report" /\ work'[r].state = "Pending"
            \/ /\ work'[r].pc = "report" /\ work'[r].state = "Failed"
               /\ \/ /\ work[r].cr.dataSource.type = "Backup"
                     /\ source[work[r].cr.dataSource.backup].state = "Failed"
                  \/ work[r].cr.dataSource.type = "Invalid"
         /\ UNCHANGED <<source, sourceOp, restore, op, seen, uids, applied>>
<1> DEFINE ds == work[r].cr.dataSource
<1>0. /\ RestoreTypeOK /\ ds \in DataSource
      /\ {"Pending", "Failed"} \subseteq RestoreState
      /\ \A b : <<b, ds>> \in Suits => b \in Sources
  BY TypedName DEF TypeInv, RestoreState, Suits
<1>1. work[r].pc = "resolve" /\ UNCHANGED <<restore, op, uids>> /\ resolveRestoreSource(r, ds)
  BY DEF SyncResolve
<1> HIDE DEF ds
<1>2. CASE ds.type = "Backup"
  <2>1. <<ds.backup, ds>> \in Suits
    BY <1>0, <1>2, BaseSuits
  <2>2. \/ Report(r, "Pending")
        \/ Report(r, "Failed") /\ source[ds.backup].state = "Failed"
        \/ Step(r, [work[r] EXCEPT !.pc = "get", !.base = ds.backup])
    BY <1>1, <1>2 DEF resolveRestoreSource, resolveBackupSource
  <2>3. CASE Report(r, "Pending")
    BY <1>0, <1>1, <2>3, ReportEffect DEF ds
  <2>4. CASE Report(r, "Failed") /\ source[ds.backup].state = "Failed"
    BY <1>0, <1>1, <1>2, <2>4, ReportEffect DEF ds
  <2>5. CASE Step(r, [work[r] EXCEPT !.pc = "get", !.base = ds.backup])
    BY <1>0, <1>1, <2>1, <2>5, BaseEffect DEF ds
  <2>6. QED
    BY <2>2, <2>3, <2>4, <2>5
<1>3. CASE ds.type = "PointInTime"
  <2> DEFINE bases == selectPITRBaseBackup(source, ds.instance, Storage, ds.date)
  <2>1. \A b \in bases : <<b, ds>> \in Suits /\ source[b].state = "Succeeded"
    BY <1>0, <1>3, BaseSuits
  <2>2. \/ Report(r, "Pending")
        \/ \E b \in bases : Step(r, [work[r] EXCEPT !.pc = "base", !.base = b])
    BY <1>1, <1>3 DEF resolveRestoreSource, resolvePointInTimeSource
  <2> HIDE DEF bases
  <2>3. CASE Report(r, "Pending")
    BY <1>0, <1>1, <2>3, ReportEffect DEF ds
  <2>4. ASSUME NEW b \in bases, Step(r, [work[r] EXCEPT !.pc = "base", !.base = b])
        PROVE  /\ work'[r] \in Work /\ work'[r].cr = work[r].cr
               /\ work'[r].pc = "base" /\ work'[r].base = b
               /\ UNCHANGED <<source, sourceOp, seen, applied>>
    BY <1>0, <2>1, <2>4, BaseEffect
  <2>5. QED
    BY <1>1, <2>1, <2>2, <2>3, <2>4 DEF ds
<1>4. CASE ds.type = "Invalid"
  <2>1. Report(r, "Failed")
    BY <1>1, <1>4 DEF resolveRestoreSource
  <2>2. QED
    BY <1>0, <1>1, <1>4, <2>1, ReportEffect DEF ds
<1>5. QED
  BY <1>0, <1>2, <1>3, <1>4, DataSourceFields

(* The operator backup of the base that was selected is read.                 *)
LEMMA SyncGetBaseEffect ==
  ASSUME RestoreTypeOK, NEW r \in Names, SyncGetBase(r)
  PROVE  /\ work[r].pc = "base"
         /\ work'[r] \in Work /\ work'[r].cr = work[r].cr
         /\ \/ work'[r].pc = "get" /\ work'[r].base = work[r].base
            \/ work'[r].pc = "report" /\ work'[r].state = "Pending"
            \/ /\ work'[r].pc = "report" /\ work'[r].state = "Failed"
               /\ sourceOp[work[r].base] = "Failed"
         /\ UNCHANGED <<source, sourceOp, restore, op, seen, uids, applied>>
<1>0. work[r] \in Work /\ {"Pending", "Failed"} \subseteq RestoreState
  BY TypedName DEF Typed, RestoreState
<1>1. work[r].pc = "base" /\ UNCHANGED <<restore, op, uids>>
  BY DEF SyncGetBase
<1>2. \/ Step(r, [work[r] EXCEPT !.pc = "get"])
      \/ Report(r, "Pending")
      \/ Report(r, "Failed") /\ sourceOp[work[r].base] = "Failed"
  BY DEF SyncGetBase
<1>3. CASE Step(r, [work[r] EXCEPT !.pc = "get"])
  <2>1. work'[r] = [work[r] EXCEPT !.pc = "get"] /\ UNCHANGED <<source, sourceOp, seen, applied>>
    BY <1>3, StepEffect
  <2>2. work'[r] \in Work
    BY <1>0, <2>1 DEF Work
  <2>3. QED
    BY <1>0, <1>1, <2>1, <2>2, MemoryFields
<1>4. CASE Report(r, "Pending")
  BY <1>0, <1>1, <1>4, ReportEffect
<1>5. CASE Report(r, "Failed") /\ sourceOp[work[r].base] = "Failed"
  BY <1>0, <1>1, <1>5, ReportEffect
<1>6. QED
  BY <1>2, <1>3, <1>4, <1>5

(* The Get of SyncRestore is followed by a Create or a Patch.                 *)
LEMMA SyncGetEffect ==
  ASSUME RestoreTypeOK, NEW r \in Names, SyncGet(r)
  PROVE  /\ work[r].pc = "get"
         /\ work'[r] \in Work /\ work'[r].cr = work[r].cr
         /\ \/ Exists(Get(r)) /\ work'[r].pc = "patch" /\ work'[r].ob = Get(r)
            \/ ~Exists(Get(r)) /\ work'[r].pc = "create" /\ work'[r].base = work[r].base
         /\ UNCHANGED <<source, sourceOp, restore, op, seen, uids, applied>>
<1>0. work[r] \in Work /\ Get(r) \in OpRestore
  BY TypedName DEF Typed
<1>1. work[r].pc = "get" /\ UNCHANGED <<restore, op, uids>>
  BY DEF SyncGet
<1>2. /\ work'[r] = IF Exists(Get(r))
                    THEN [work[r] EXCEPT !.pc = "patch", !.ob = Get(r)]
                    ELSE [work[r] EXCEPT !.pc = "create"]
      /\ UNCHANGED <<source, sourceOp, seen, applied>>
  BY StepEffect DEF SyncGet
<1>3. CASE Exists(Get(r))
  <2>1. work'[r] = [work[r] EXCEPT !.pc = "patch", !.ob = Get(r)]
    BY <1>2, <1>3
  <2>2. /\ work'[r] \in Work /\ work'[r].pc = "patch" /\ work'[r].cr = work[r].cr
        /\ work'[r].ob = Get(r)
    BY <1>0, <2>1 DEF Work
  <2>3. QED
    BY <1>1, <1>2, <1>3, <2>2
<1>4. CASE ~Exists(Get(r))
  <2>1. work'[r] = [work[r] EXCEPT !.pc = "create"]
    BY <1>2, <1>4
  <2>2. /\ work'[r] \in Work /\ work'[r].pc = "create" /\ work'[r].cr = work[r].cr
        /\ work'[r].base = work[r].base
    BY <1>0, <2>1 DEF Work
  <2>3. QED
    BY <1>1, <1>2, <1>4, <2>2
<1>5. QED
  BY <1>3, <1>4

(* Create makes a new operator restore, or finds one, or gives up.            *)
LEMMA SyncCreateEffect ==
  ASSUME RestoreTypeOK, NEW r \in Names, SyncCreate(r)
  PROVE  /\ work[r].pc = "create"
         /\ work'[r] \in Work /\ op'[r] \in OpRestore /\ uids'[r] \in [cr : UID, ob : UID]
         /\ uids'[r].cr = uids[r].cr
         /\ \/ /\ ~Exists(op[r]) /\ Exists(op'[r])
               /\ op'[r].pxcCluster = work[r].cr.instance
               /\ op'[r].backupName = work[r].base
               /\ op'[r].pitr = (work[r].cr.dataSource.type = "PointInTime")
               /\ op'[r].date = work[r].cr.dataSource.date
               /\ op'[r].controller = work[r].cr.uid
               /\ op'[r].state = "New" /\ ~op'[r].deleting
               /\ work'[r].pc = "patch" /\ work'[r].cr = work[r].cr /\ work'[r].ob = op'[r]
            \/ /\ UNCHANGED <<op, uids>>
               /\ Exists(Get(r))
               /\ work'[r].pc = "patch" /\ work'[r].cr = work[r].cr /\ work'[r].ob = Get(r)
            \/ UNCHANGED <<op, uids>> /\ work'[r] = NoWork
         /\ UNCHANGED <<source, sourceOp, restore, seen, applied>>
<1>0. /\ work[r] \in Work /\ Get(r) \in OpRestore /\ op[r] \in OpRestore
      /\ uids[r] \in [cr : UID, ob : UID] /\ work[r].cr \in RestoreCR
      /\ work[r].base \in Sources \cup {NoSource}
      /\ work[r].cr.dataSource.date \in Time \cup {NoTime}
      /\ work[r].cr.uid \in UID /\ work[r].cr.instance \in Instances \cup {NoSource}
  BY TypedName, DataSourceFields DEF Typed, RestoreCR
<1>1. work[r].pc = "create" /\ UNCHANGED restore
  BY DEF SyncCreate
<1>2. CASE /\ ~Exists(op[r])
           /\ uids[r].ob < MaxUID
           /\ uids' = [uids EXCEPT ![r].ob = @ + 1]
           /\ op' = [op EXCEPT ![r] = newOpRestore(work[r], uids[r].ob + 1)]
           /\ Step(r, [work[r] EXCEPT !.pc = "patch", !.ob = op'[r]])
  <2>1. uids[r].ob + 1 \in UID /\ uids[r].ob + 1 # 0
    BY <1>0, <1>2, RestoreBounds DEF UID
  <2>2. uids'[r] \in [cr : UID, ob : UID] /\ uids'[r].cr = uids[r].cr
    BY <1>0, <1>2, <2>1 DEF RestoreTypeOK
  <2>3. op'[r] = newOpRestore(work[r], uids[r].ob + 1)
    BY <1>2 DEF RestoreTypeOK
  <2>4. /\ op'[r].uid = uids[r].ob + 1
        /\ op'[r].pxcCluster = work[r].cr.instance
        /\ op'[r].backupName = work[r].base
        /\ op'[r].pitr = (work[r].cr.dataSource.type = "PointInTime")
        /\ op'[r].date = work[r].cr.dataSource.date
        /\ op'[r].controller = work[r].cr.uid
        /\ op'[r].state = "New" /\ ~op'[r].deleting
    BY <2>3 DEF newOpRestore, NoOp
  <2>5. op'[r] \in OpRestore
    BY <1>0, <2>1, <2>3 DEF newOpRestore, NoOp, OpRestore, OpState
  <2>6. /\ work'[r] = [work[r] EXCEPT !.pc = "patch", !.ob = op'[r]]
        /\ UNCHANGED <<source, sourceOp, seen, applied>>
    BY <1>2, StepEffect
  <2>7. /\ work'[r] \in Work /\ work'[r].pc = "patch" /\ work'[r].cr = work[r].cr
        /\ work'[r].ob = op'[r]
    BY <1>0, <2>5, <2>6 DEF Work
  <2>8. QED
    BY <1>1, <1>2, <2>1, <2>2, <2>4, <2>5, <2>6, <2>7 DEF Exists
<1>3. CASE /\ Exists(Get(r)) /\ UNCHANGED <<op, uids>>
           /\ Step(r, [work[r] EXCEPT !.pc = "patch", !.ob = Get(r)])
  <2>1. /\ work'[r] = [work[r] EXCEPT !.pc = "patch", !.ob = Get(r)]
        /\ UNCHANGED <<source, sourceOp, seen, applied>>
    BY <1>3, StepEffect
  <2>2. /\ work'[r] \in Work /\ work'[r].pc = "patch" /\ work'[r].cr = work[r].cr
        /\ work'[r].ob = Get(r)
    BY <1>0, <2>1 DEF Work
  <2>3. QED
    BY <1>0, <1>1, <1>3, <2>1, <2>2
<1>4. CASE Step(r, NoWork) /\ UNCHANGED <<op, uids>>
  BY <1>0, <1>1, <1>4, StepEffect, ConstantsTyped
<1>5. QED
  BY <1>2, <1>3, <1>4 DEF SyncCreate

(* Operator states and Restore states agree about the end.                    *)
LEMMA StatePassedOn ==
  ASSUME NEW s \in OpState
  PROVE  /\ restoreState(s) \in RestoreState
         /\ restoreState(s) \in Terminal => s = restoreState(s)
         /\ s \in Terminal => restoreState(s) = s
  BY DEF restoreState, OpState, RestoreState, RunningPhases, Terminal

(* The Patch fails, or its answer is reported. It writes the controller only  *)
(* when the object that was read had none.                                    *)
LEMMA SyncPatchEffect ==
  ASSUME RestoreTypeOK, NEW r \in Names, SyncPatch(r), work[r].ob.controller # 0
  PROVE  /\ work[r].pc = "patch"
         /\ work'[r] \in Work
         /\ op'[r] = op[r]
         /\ \/ work'[r] = NoWork
            \/ /\ work[r].ob.controller = work[r].cr.uid /\ Exists(op[r])
               /\ work'[r].pc = "report" /\ work'[r].cr = work[r].cr
               /\ work'[r].state = restoreState(op[r].state)
         /\ UNCHANGED <<source, sourceOp, restore, seen, uids, applied>>
<1>0. work[r] \in Work /\ op[r] \in OpRestore /\ op[r].state \in OpState
  BY TypedName DEF Typed
<1>1. work[r].pc = "patch" /\ UNCHANGED <<restore, uids>>
  BY DEF SyncPatch
<1>2. CASE Step(r, NoWork) /\ UNCHANGED op
  BY <1>1, <1>2, StepEffect, ConstantsTyped
<1>3. CASE /\ ~PatchFails(op[r], work[r].ob, work[r].cr)
           /\ op' = [op EXCEPT ![r] = Patched(op[r], work[r])]
           /\ Report(r, restoreState(op[r].state))
  <2>1. work[r].ob.controller = work[r].cr.uid /\ Exists(op[r])
    BY <1>3 DEF PatchFails
  <2>2. Patched(op[r], work[r]) = op[r]
    BY <1>0 DEF Patched, OpRestore
  <2>3. op'[r] = op[r]
    BY <1>3, <2>2 DEF RestoreTypeOK
  <2>4. restoreState(op[r].state) \in RestoreState
    BY <1>0, StatePassedOn
  <2>5. QED
    BY <1>1, <1>3, <2>1, <2>3, <2>4, ReportEffect
<1>4. QED
  BY <1>2, <1>3 DEF SyncPatch

(* The runtime stores the reported state on the Restore it was computed for.  *)
LEMMA SyncReportEffect ==
  ASSUME RestoreTypeOK, NEW r \in Names, SyncReport(r), work[r].cr.uid = restore[r].uid
  PROVE  /\ work[r].pc = "report" /\ work'[r] = NoWork
         /\ restore'[r] \in RestoreCR
         /\ restore'[r].uid = restore[r].uid /\ restore'[r].instance = restore[r].instance
         /\ restore'[r].dataSource = restore[r].dataSource
         /\ restore'[r].deleting = restore[r].deleting
         /\ restore'[r].state = work[r].state
         /\ UNCHANGED <<source, sourceOp, op, seen, uids, applied>>
<1>0. restore[r] \in RestoreCR /\ work[r].state \in RestoreState
  BY TypedName DEF Typed, Work
<1>1. restore'[r] = [restore[r] EXCEPT !.state = work[r].state]
  BY DEF SyncReport, RestoreTypeOK
<1>2. /\ restore'[r] \in RestoreCR
      /\ restore'[r].uid = restore[r].uid /\ restore'[r].instance = restore[r].instance
      /\ restore'[r].dataSource = restore[r].dataSource
      /\ restore'[r].deleting = restore[r].deleting
      /\ restore'[r].state = work[r].state
  BY <1>0, <1>1 DEF RestoreCR
<1>3. QED
  BY <1>2, StepEffect DEF SyncReport

(* The Get of CleanupRestore: done, waiting, or a deletion.                   *)
LEMMA CleanupGetEffect ==
  ASSUME RestoreTypeOK, NEW r \in Names, CleanupGet(r)
  PROVE  /\ work[r].pc = "cleanupGet" /\ work'[r] \in Work
         /\ \/ work'[r] = NoWork
            \/ /\ work'[r].cr = work[r].cr
               /\ \/ work'[r].pc = "cleaned" /\ ~Exists(Get(r))
                  \/ work'[r].pc = "delete"
         /\ UNCHANGED <<source, sourceOp, restore, op, seen, uids, applied>>
<1>0. work[r] \in Work /\ NoWork \in Work
  BY TypedName, ConstantsTyped DEF Typed
<1>1. work[r].pc = "cleanupGet" /\ UNCHANGED <<restore, op, uids>>
  BY DEF CleanupGet
<1>2. /\ \/ work'[r] = NoWork
         \/ work'[r] = [work[r] EXCEPT !.pc = "cleaned"] /\ ~Exists(Get(r))
         \/ work'[r] = [work[r] EXCEPT !.pc = "delete"]
      /\ UNCHANGED <<source, sourceOp, seen, applied>>
  BY StepEffect DEF CleanupGet
<1>3. \A pc : LET v == [work[r] EXCEPT !.pc = pc] IN v.pc = pc /\ v.cr = work[r].cr
  BY <1>0, MemoryFields
<1>4. [work[r] EXCEPT !.pc = "cleaned"] \in Work /\ [work[r] EXCEPT !.pc = "delete"] \in Work
  BY <1>0 DEF Work
<1>5. QED
  BY <1>0, <1>1, <1>2, <1>3, <1>4

(* A mark of deletion changes nothing else of an operator restore.            *)
LEMMA MarkedFields ==
  ASSUME NEW b \in OpRestore
  PROVE  LET m == [b EXCEPT !.deleting = TRUE]
         IN  /\ m \in OpRestore /\ m.deleting
             /\ m.uid = b.uid /\ m.pxcCluster = b.pxcCluster /\ m.backupName = b.backupName
             /\ m.pitr = b.pitr /\ m.date = b.date
             /\ m.controller = b.controller /\ m.state = b.state
  BY DEF OpRestore

(* Deletions, by CleanupRestore or by the garbage collector.                  *)
LEMMA DeletionEffect ==
  ASSUME RestoreTypeOK, NEW r \in Names, CleanupDelete(r) \/ CollectOp(r)
  PROVE  /\ op'[r] \in OpRestore
         /\ op'[r].uid = op[r].uid /\ op'[r].pxcCluster = op[r].pxcCluster
         /\ op'[r].backupName = op[r].backupName
         /\ op'[r].pitr = op[r].pitr /\ op'[r].date = op[r].date
         /\ op'[r].controller = op[r].controller /\ op'[r].state = op[r].state
         /\ \/ work[r].pc = "delete" /\ work'[r] = NoWork /\ (Exists(op[r]) \/ op'[r] = op[r])
            \/ /\ Exists(op[r]) /\ op[r].controller # restore[r].uid
               /\ UNCHANGED work
         /\ UNCHANGED <<source, sourceOp, restore, seen, uids, applied>>
<1>0. op[r] \in OpRestore
  BY TypedName DEF Typed
<1>1. CASE CleanupDelete(r)
  <2>1. op'[r] \in {op[r], [op[r] EXCEPT !.deleting = TRUE]} /\ (Exists(op[r]) \/ op'[r] = op[r])
    BY <1>1 DEF CleanupDelete, RestoreTypeOK
  <2>2. /\ work[r].pc = "delete" /\ work'[r] = NoWork
        /\ UNCHANGED <<source, sourceOp, restore, seen, uids, applied>>
    BY <1>1, StepEffect DEF CleanupDelete
  <2>3. QED
    BY <1>0, <2>1, <2>2, MarkedFields
<1>2. CASE CollectOp(r)
  <2>1. op'[r] = [op[r] EXCEPT !.deleting = TRUE]
    BY <1>2 DEF CollectOp, RestoreTypeOK
  <2>2. /\ Exists(op[r]) /\ op[r].controller # restore[r].uid
        /\ UNCHANGED <<source, sourceOp, restore, seen, uids, work, applied>>
    BY <1>2 DEF CollectOp, sourceVars
  <2>3. QED
    BY <1>0, <2>1, <2>2, MarkedFields
<1>3. QED
  BY <1>1, <1>2

(* The end of CleanupRestore.                                                 *)
LEMMA CleanupDoneEffect ==
  ASSUME RestoreTypeOK, NEW r \in Names, CleanupDone(r)
  PROVE  /\ work[r].pc = "cleaned" /\ work'[r] = NoWork
         /\ restore'[r] = NoRestore
         /\ UNCHANGED <<source, sourceOp, op, seen, uids, applied>>
  BY StepEffect DEF CleanupDone, RestoreTypeOK

(* A new Restore.                                                             *)
LEMMA CreateRestoreEffect ==
  ASSUME RestoreTypeOK, NEW r \in Names, NEW i \in Instances, NEW ds \in DataSource,
         CreateRestore(r, i, ds)
  PROVE  /\ ~Exists(restore[r]) /\ Exists(restore'[r])
         /\ restore'[r] \in RestoreCR /\ uids'[r] \in [cr : UID, ob : UID]
         /\ restore'[r].uid = uids[r].cr + 1 /\ uids'[r].cr = uids[r].cr + 1
         /\ ~restore'[r].deleting /\ restore'[r].state = "New"
         /\ restore'[r].instance = i /\ restore'[r].dataSource = ds
         /\ UNCHANGED <<source, sourceOp, op, seen, work, applied>>
<1>0. uids[r] \in [cr : UID, ob : UID]
  BY TypedName DEF Typed
<1>1. uids[r].cr + 1 \in UID /\ uids[r].cr + 1 # 0
  BY <1>0, RestoreBounds DEF CreateRestore, UID
<1>2. restore'[r] = [NoRestore EXCEPT !.uid = uids[r].cr + 1, !.instance = i, !.dataSource = ds]
  BY DEF CreateRestore, RestoreTypeOK
<1>3. /\ restore'[r].uid = uids[r].cr + 1
      /\ ~restore'[r].deleting /\ restore'[r].state = "New"
      /\ restore'[r].instance = i /\ restore'[r].dataSource = ds
  BY <1>2 DEF NoRestore
<1>4. restore'[r] \in RestoreCR
  BY <1>1, <1>2 DEF NoRestore, RestoreCR, RestoreState
<1>5. uids'[r] \in [cr : UID, ob : UID] /\ uids'[r].cr = uids[r].cr + 1
  BY <1>0, <1>1 DEF CreateRestore, RestoreTypeOK
<1>6. QED
  BY <1>1, <1>3, <1>4, <1>5 DEF CreateRestore, Exists, sourceVars

(* The deletion of a Restore.                                                 *)
LEMMA DeleteRestoreEffect ==
  ASSUME RestoreTypeOK, NEW r \in Names, DeleteRestore(r)
  PROVE  /\ MayDelete /\ Exists(restore[r]) /\ ~restore[r].deleting
         /\ restore'[r] \in RestoreCR /\ restore'[r].deleting
         /\ restore'[r].uid = restore[r].uid /\ restore'[r].instance = restore[r].instance
         /\ restore'[r].dataSource = restore[r].dataSource
         /\ restore'[r].state = restore[r].state
         /\ UNCHANGED <<source, sourceOp, op, seen, uids, work, applied>>
<1>0. restore[r] \in RestoreCR
  BY TypedName DEF Typed
<1>1. restore'[r] = [restore[r] EXCEPT !.deleting = TRUE]
  BY DEF DeleteRestore, RestoreTypeOK
<1>2. /\ restore'[r] \in RestoreCR /\ restore'[r].deleting
      /\ restore'[r].uid = restore[r].uid /\ restore'[r].instance = restore[r].instance
      /\ restore'[r].dataSource = restore[r].dataSource
      /\ restore'[r].state = restore[r].state
  BY <1>0, <1>1 DEF RestoreCR
<1>3. QED
  BY <1>2 DEF DeleteRestore, sourceVars

(* The operator changes the state of an operator restore and nothing else of  *)
(* it, and keeps a record of a success.                                       *)
LEMMA RunsEffect ==
  ASSUME RestoreTypeOK, NEW r \in Names, OperatorAdvances(r) \/ OperatorFails(r)
  PROVE  /\ Exists(op[r]) /\ op[r].state \notin Terminal
         /\ op'[r] \in OpRestore
         /\ op'[r].uid = op[r].uid /\ op'[r].pxcCluster = op[r].pxcCluster
         /\ op'[r].backupName = op[r].backupName
         /\ op'[r].pitr = op[r].pitr /\ op'[r].date = op[r].date
         /\ op'[r].controller = op[r].controller /\ op'[r].deleting = op[r].deleting
         /\ \/ op'[r].state = "Failed"
            \/ /\ op[r].state = "New" /\ op'[r].state = "Starting"
               /\ sourceOp[op[r].backupName] = "Succeeded"
            \/ op[r].state # "New" /\ op'[r].state \in RunningPhases \cup {"Succeeded"}
         /\ applied' = IF op'[r].state = "Succeeded"
                       THEN applied \cup
                              {[name |-> r, uid |-> op[r].uid, cr |-> op[r].controller,
                                backupName |-> op[r].backupName, pitr |-> op[r].pitr,
                                date |-> op[r].date]}
                       ELSE applied
         /\ UNCHANGED <<source, sourceOp, restore, seen, uids, work>>
<1>0. op[r] \in OpRestore
  BY TypedName DEF Typed
<1>1. \A s \in OpState : LET b == [op[r] EXCEPT !.state = s]
         IN  /\ b \in OpRestore /\ b.state = s
             /\ b.uid = op[r].uid /\ b.pxcCluster = op[r].pxcCluster
             /\ b.backupName = op[r].backupName
             /\ b.pitr = op[r].pitr /\ b.date = op[r].date
             /\ b.controller = op[r].controller /\ b.deleting = op[r].deleting
  BY <1>0 DEF OpRestore
<1>2. CASE OperatorAdvances(r)
  <2>1. /\ Following(op[r]) \in RunningPhases \cup {"Succeeded"}
        /\ op[r].state = "New" => Following(op[r]) = "Starting"
    BY <1>0, <1>2, FollowingPhase DEF OperatorAdvances
  <2>2. op'[r] = [op[r] EXCEPT !.state = Following(op[r])] /\ Following(op[r]) \in OpState
    BY <1>2, <2>1 DEF OperatorAdvances, RestoreTypeOK, OpState
  <2>3. /\ op'[r] \in OpRestore /\ op'[r].state = Following(op[r])
        /\ op'[r].uid = op[r].uid /\ op'[r].pxcCluster = op[r].pxcCluster
        /\ op'[r].backupName = op[r].backupName
        /\ op'[r].pitr = op[r].pitr /\ op'[r].date = op[r].date
        /\ op'[r].controller = op[r].controller /\ op'[r].deleting = op[r].deleting
    BY <1>1, <2>2
  <2>4. QED
    BY <1>2, <2>1, <2>3 DEF OperatorAdvances, sourceVars
<1>3. CASE OperatorFails(r)
  <2>1. op'[r] = [op[r] EXCEPT !.state = "Failed"] /\ "Failed" \in OpState
    BY <1>3 DEF OperatorFails, RestoreTypeOK, OpState
  <2>2. /\ op'[r] \in OpRestore /\ op'[r].state = "Failed"
        /\ op'[r].uid = op[r].uid /\ op'[r].pxcCluster = op[r].pxcCluster
        /\ op'[r].backupName = op[r].backupName
        /\ op'[r].pitr = op[r].pitr /\ op'[r].date = op[r].date
        /\ op'[r].controller = op[r].controller /\ op'[r].deleting = op[r].deleting
    BY <1>1, <2>1
  <2>3. QED
    BY <1>3, <2>2 DEF OperatorFails, sourceVars
<1>4. QED
  BY <1>2, <1>3

(* A deleted operator restore goes, and the cache catches up.                 *)
LEMMA ReleaseEffect ==
  ASSUME RestoreTypeOK, NEW r \in Names, OperatorReleases(r) \/ CacheCatchesUp(r)
  PROVE  /\ \/ op[r].deleting /\ op'[r] = NoOp /\ UNCHANGED seen
            \/ /\ StaleReads /\ UNCHANGED op
               /\ seen'[r] \in OpRestore
               /\ seen'[r].uid = op[r].uid /\ seen'[r].pxcCluster = op[r].pxcCluster
               /\ seen'[r].backupName = op[r].backupName
               /\ seen'[r].pitr = op[r].pitr /\ seen'[r].date = op[r].date
               /\ seen'[r].controller = op[r].controller
               /\ seen'[r].deleting = op[r].deleting
         /\ UNCHANGED <<source, sourceOp, restore, uids, work, applied>>
<1>1. CASE OperatorReleases(r)
  BY <1>1 DEF OperatorReleases, RestoreTypeOK, sourceVars
<1>2. CASE CacheCatchesUp(r)
  <2>1. op[r] \in OpRestore /\ "New" \in OpState
    BY DEF RestoreTypeOK, OpState
  <2>2. seen'[r] = [op[r] EXCEPT !.state = "New"]
    BY <1>2 DEF CacheCatchesUp, Cached, RestoreTypeOK
  <2>3. /\ seen'[r] \in OpRestore
        /\ seen'[r].uid = op[r].uid /\ seen'[r].pxcCluster = op[r].pxcCluster
        /\ seen'[r].backupName = op[r].backupName
        /\ seen'[r].pitr = op[r].pitr /\ seen'[r].date = op[r].date
        /\ seen'[r].controller = op[r].controller
        /\ seen'[r].deleting = op[r].deleting
    BY <2>1, <2>2 DEF OpRestore
  <2>4. QED
    BY <1>2, <2>3 DEF CacheCatchesUp, sourceVars
<1>3. QED
  BY <1>1, <1>2

-----------------------------------------------------------------------------
(* The other names, and the history.                                          *)

(* A step of one name leaves every other name and the sources alone.          *)
LEMMA OwnFrame ==
  ASSUME RestoreTypeOK, NEW r \in Names, Own(r)
  PROVE  /\ UNCHANGED <<source, sourceOp, restarts>>
         /\ \A n \in Names : n # r => Still(n) /\ work'[n] = work[n]
         /\ restore' = [n \in Names |-> restore'[n]] /\ op' = [n \in Names |-> op'[n]]
         /\ seen' = [n \in Names |-> seen'[n]] /\ uids' = [n \in Names |-> uids'[n]]
         /\ work' = [n \in Names |-> work'[n]]
<1>1. CASE Handler(r)
  BY <1>1 DEF Handler, SyncRestore, SyncResolve, resolveRestoreSource,
     resolveBackupSource, resolvePointInTimeSource, SyncGetBase, SyncGet, SyncCreate, SyncPatch, SyncReport,
     Report, CleanupRestore, CleanupGet, CleanupDelete, CleanupDone, Step, Still,
     RestoreTypeOK, sourceVars
<1>2. CASE \E i \in Instances, ds \in DataSource : CreateRestore(r, i, ds)
  BY <1>2 DEF CreateRestore, Still, RestoreTypeOK, sourceVars
<1>3. CASE \/ DeleteRestore(r) \/ OperatorAdvances(r) \/ OperatorFails(r) \/ OperatorReleases(r)
           \/ CollectOp(r) \/ CacheCatchesUp(r)
  BY <1>3 DEF DeleteRestore, OperatorAdvances, OperatorFails, OperatorReleases, CollectOp,
     CacheCatchesUp, Still, RestoreTypeOK, sourceVars
<1>4. QED
  BY <1>1, <1>2, <1>3 DEF Own

(* The history, as far as the properties look at it: what has run for which   *)
(* Restore, and from where.                                                   *)
Records == {<<a.name, a.cr, a.backupName, a.pitr, a.date>> : a \in applied}
Ran == {<<a.name, a.cr>> : a \in applied}

(* Only the operator writes history.                                          *)
LEMMA OwnHistory ==
  ASSUME RestoreTypeOK, NEW r \in Names, Own(r)
  PROVE  UNCHANGED applied \/ OperatorAdvances(r)
  BY DEF Own, Handler, SyncRestore, SyncResolve, resolveRestoreSource,
     resolveBackupSource, resolvePointInTimeSource, SyncGetBase, SyncGet, SyncCreate, SyncPatch, SyncReport,
     Report, CleanupRestore, CleanupGet, CleanupDelete, CleanupDone, Step,
     CreateRestore, DeleteRestore, OperatorFails, OperatorReleases, CollectOp, CacheCatchesUp

(* Nothing is taken from the history.                                         *)
LEMMA HistoryGrows ==
  ASSUME RestoreTypeOK, NEW r \in Names, Own(r)
  PROVE  /\ applied \subseteq applied' /\ Records \subseteq Records'
         /\ \A n \in Names : \A c : n # r /\ <<n, c>> \in Ran' => <<n, c>> \in Ran
<1>1. /\ applied \subseteq applied'
      /\ \A a \in applied' : a \in applied \/ a.name = r
  BY OwnHistory, RunsEffect
<1>2. QED
  BY <1>1 DEF Records, Ran

(* A step is about one name, about a source, or about none of them.           *)
LEMMA MoveCases ==
  ASSUME TypeInv, RestoreMoves
  PROVE  \/ \E r \in Names : Own(r)
         \/ /\ UNCHANGED <<restore, op, seen, uids, applied>>
            /\ \A r \in Names : work'[r] \in {work[r], NoWork}
            /\ TypeInv'
<1>0. RestoreTypeOK /\ \A b \in Sources : SourceShape(b)
  BY DEF TypeInv
<1>1. ASSUME NEW b \in Sources,
             SourceAppears(b) \/ SourceOpStep(b) \/ SourceReport(b) \/ SourceOpGoes(b) \/ SourceGoes(b)
      PROVE  /\ UNCHANGED <<restore, op, seen, uids, applied>>
             /\ \A r \in Names : work'[r] \in {work[r], NoWork}
             /\ TypeInv'
  <2>1. UNCHANGED <<restore, op, seen, uids, work, restarts, applied>>
    BY <1>1, SourceStepEffect
  <2>2. RestoreTypeOK'
    BY <1>0, <1>1, <2>1, SourceStepEffect DEF RestoreTypeOK
  <2>3. QED
    BY <1>1, <2>1, <2>2, SourceStepEffect DEF TypeInv
<1>2. ASSUME NEW rs, Interrupt(rs)
      PROVE  /\ UNCHANGED <<restore, op, seen, uids, applied>>
             /\ \A r \in Names : work'[r] \in {work[r], NoWork}
             /\ TypeInv'
  <2>1. /\ UNCHANGED <<source, sourceOp, restore, op, seen, uids, applied>>
        /\ work' = [r \in Names |-> IF r \in rs THEN NoWork ELSE work[r]]
        /\ restarts' \in 0..MaxRestarts
    BY <1>0, <1>2, RestoreBounds DEF Interrupt, sourceVars, RestoreTypeOK
  <2>2. work' \in [Names -> Work]
    BY <1>0, <2>1, ConstantsTyped DEF RestoreTypeOK
  <2>3. RestoreTypeOK'
    BY <1>0, <2>1, <2>2 DEF RestoreTypeOK
  <2>4. QED
    BY <1>0, <2>1, <2>3 DEF TypeInv, SourceShape
<1>3. CASE /\ UNCHANGED <<sourceVars, restore, op, seen, uids, work, applied>>
           /\ restarts' \in 0..MaxRestarts
  BY <1>0, <1>3 DEF sourceVars, TypeInv, RestoreTypeOK, SourceShape
<1>4. QED
  BY <1>1, <1>2, <1>3 DEF RestoreMoves, RestoreNext, RestoreStep, Own

(* What suits a data source suits it for good.                                *)
LEMMA SuitsGrows ==
  ASSUME TypeInv, RestoreMoves
  PROVE  Suits \subseteq Suits'
<1>1. \A b \in Sources : source[b].completedAt # NoTime =>
         source'[b].completedAt = source[b].completedAt
  <2>1. ASSUME NEW b \in Sources,
               SourceAppears(b) \/ SourceOpStep(b) \/ SourceReport(b) \/ SourceOpGoes(b) \/ SourceGoes(b)
        PROVE  \A c \in Sources : source[c].completedAt # NoTime =>
                  source'[c].completedAt = source[c].completedAt
    BY <2>1, SourceStepEffect
  <2>2. ASSUME NEW r \in Names, Own(r) PROVE source' = source
    BY <2>2, OwnFrame DEF TypeInv
  <2>3. ASSUME NEW rs, Interrupt(rs) PROVE source' = source
    BY <2>3 DEF Interrupt, sourceVars
  <2>4. CASE UNCHANGED <<sourceVars, restore, op, seen, uids, work, applied>>
    BY <2>4 DEF sourceVars
  <2>5. QED
    BY <2>1, <2>2, <2>3, <2>4 DEF RestoreMoves, RestoreNext, RestoreStep, Own
<1>2. QED
  BY <1>1 DEF Suits

-----------------------------------------------------------------------------
(* The inductive invariant. A handler works on the Restore that exists; what  *)
(* is read of an operator restore is never newer than what is there, so that  *)
(* a Patch that is not refused meets the operator restore of its own Restore; *)
(* an operator restore has the target, and a base that suits the source, of   *)
(* its Restore; a success that is on its way to the user has its record; and  *)
(* nothing has run yet for a Restore that may still create its operator       *)
(* restore.                                                                   *)
Current(r) ==
    /\ ~Exists(restore[r]) => restore[r] = NoRestore
    /\ ~Exists(op[r]) => op[r] = NoOp
    /\ Exists(restore[r]) => restore[r].uid = uids[r].cr
    /\ work[r].pc # "idle" => /\ Exists(restore[r])
                              /\ work[r].cr.uid = restore[r].uid
                              /\ work[r].cr.instance = restore[r].instance
                              /\ work[r].cr.dataSource = restore[r].dataSource
    /\ work[r].pc \in CleanupPCs => restore[r].deleting

Lineage(r) ==
    /\ Exists(op[r]) => op[r].controller \in 1..uids[r].cr
    /\ Exists(seen[r]) => /\ seen[r].controller \in 1..uids[r].cr
                          /\ Exists(op[r]) => seen[r].controller <= op[r].controller
    /\ work[r].pc = "patch" => /\ work[r].ob.controller \in 1..uids[r].cr
                               /\ Exists(op[r]) => work[r].ob.controller <= op[r].controller

Based(r) ==
    /\ Exists(op[r]) => op[r].backupName \in Sources
    /\ Exists(op[r]) /\ op[r].controller = restore[r].uid =>
          /\ op[r].pitr = (restore[r].dataSource.type = "PointInTime")
          /\ op[r].date = restore[r].dataSource.date
          /\ op[r].pxcCluster = restore[r].instance
          /\ <<op[r].backupName, restore[r].dataSource>> \in Suits
    /\ work[r].pc \in {"base", "get", "create"} => <<work[r].base, restore[r].dataSource>> \in Suits

Proven(r) ==
    \E b \in Sources :
       /\ <<r, restore[r].uid, b, restore[r].dataSource.type = "PointInTime",
            restore[r].dataSource.date>> \in Records
       /\ <<b, restore[r].dataSource>> \in Suits

Told(r) ==
    /\ Exists(op[r]) /\ op[r].state = "Succeeded" =>
          <<r, op[r].controller, op[r].backupName, op[r].pitr, op[r].date>> \in Records
    /\ work[r].pc = "report" /\ work[r].state = "Succeeded" => Proven(r)
    /\ restore[r].state = "Succeeded" => Proven(r)

Once(r) ==
    /\ \A c \in UID : <<r, c>> \in Ran => c <= uids[r].cr
    /\ Exists(op[r]) /\ op[r].controller = restore[r].uid /\ op[r].deleting =>
          restore[r].deleting /\ work[r].pc \notin SyncPCs
    /\ Exists(op[r]) /\ op[r].state # "Succeeded" => <<r, op[r].controller>> \notin Ran
    /\ /\ Exists(restore[r])
       /\ ~restore[r].deleting \/ work[r].pc \in SyncPCs
       /\ ~(Exists(op[r]) /\ op[r].controller = restore[r].uid)
       => <<r, restore[r].uid>> \notin Ran

Bound(r) == Current(r) /\ Lineage(r)

RestoreInv ==
    /\ TypeInv
    /\ \A r \in Names : Bound(r) /\ Based(r) /\ Told(r) /\ Once(r)
    /\ AppliedAtMostOnce

(* A Patch that is not refused meets the operator restore of this Restore.    *)
LEMMA PatchMeetsOwn ==
  ASSUME RestoreTypeOK, NEW r \in Names, Bound(r), work[r].pc = "patch",
         Exists(op[r]), work[r].ob.controller = work[r].cr.uid
  PROVE  op[r].controller = restore[r].uid
<1>1. op[r].controller \in Int /\ uids[r].cr \in Int
  BY TypedName
<1>2. QED
  BY <1>1 DEF Bound, Current, Lineage

(* Every step of a name keeps handler, Restore and operator restore bound.    *)
LEMMA BoundStep ==
  ASSUME TypeInv, NEW r \in Names, Bound(r), Own(r)
  PROVE  Bound(r)' /\ Typed(r)'
<1>0. /\ RestoreTypeOK /\ Typed(r) /\ uids[r].cr \in Nat
      /\ op[r].controller \in Int /\ seen[r].controller \in Int
      /\ Get(r) \in {op[r], seen[r]}
      /\ NoRestore.uid = 0 /\ NoOp.uid = 0 /\ NoWork.pc = "idle"
  BY TypedName, AbsentFields DEF TypeInv, Typed, OpRestore, UID, Get
<1>1. /\ Current(r) <=>
           (/\ ~Exists(restore[r]) => restore[r] = NoRestore
            /\ ~Exists(op[r]) => op[r] = NoOp
            /\ Exists(restore[r]) => restore[r].uid = uids[r].cr
            /\ work[r].pc # "idle" => /\ Exists(restore[r])
                                      /\ work[r].cr.uid = restore[r].uid
                                      /\ work[r].cr.instance = restore[r].instance
                                      /\ work[r].cr.dataSource = restore[r].dataSource
            /\ work[r].pc \in CleanupPCs => restore[r].deleting)
      /\ Lineage(r) <=>
           (/\ Exists(op[r]) => op[r].controller \in 1..uids[r].cr
            /\ Exists(seen[r]) => /\ seen[r].controller \in 1..uids[r].cr
                                  /\ Exists(op[r]) => seen[r].controller <= op[r].controller
            /\ work[r].pc = "patch" =>
                  /\ work[r].ob.controller \in 1..uids[r].cr
                  /\ Exists(op[r]) => work[r].ob.controller <= op[r].controller)
  BY DEF Current, Lineage
<1>2. /\ Current(r)' <=>
           (/\ ~Exists(restore'[r]) => restore'[r] = NoRestore
            /\ ~Exists(op'[r]) => op'[r] = NoOp
            /\ Exists(restore'[r]) => restore'[r].uid = uids'[r].cr
            /\ work'[r].pc # "idle" => /\ Exists(restore'[r])
                                       /\ work'[r].cr.uid = restore'[r].uid
                                       /\ work'[r].cr.instance = restore'[r].instance
                                       /\ work'[r].cr.dataSource = restore'[r].dataSource
            /\ work'[r].pc \in CleanupPCs => restore'[r].deleting)
      /\ Lineage(r)' <=>
           (/\ Exists(op'[r]) => op'[r].controller \in 1..uids'[r].cr
            /\ Exists(seen'[r]) => /\ seen'[r].controller \in 1..uids'[r].cr
                                   /\ Exists(op'[r]) => seen'[r].controller <= op'[r].controller
            /\ work'[r].pc = "patch" =>
                  /\ work'[r].ob.controller \in 1..uids'[r].cr
                  /\ Exists(op'[r]) => work'[r].ob.controller <= op'[r].controller)
      /\ Typed(r)' <=>
           (/\ restore'[r] \in RestoreCR /\ op'[r] \in OpRestore /\ seen'[r] \in OpRestore
            /\ uids'[r] \in [cr : UID, ob : UID] /\ work'[r] \in Work)
  BY DEF Current, Lineage, Typed, Exists
<1>3. NoOp \in OpRestore /\ NoRestore \in RestoreCR /\ NoWork \in Work
  BY ConstantsTyped
<1> USE DEF Exists, CleanupPCs, Bound
<1>4. CASE SyncRestore(r) \/ CleanupRestore(r)
  BY <1>0, <1>1, <1>2, <1>4, CallEffect DEF Typed
<1>5. CASE SyncResolve(r)
  BY <1>0, <1>1, <1>2, <1>5, ResolveEffect DEF Typed
<1>6. CASE SyncGetBase(r) \/ SyncGet(r)
  BY <1>0, <1>1, <1>2, <1>6, SyncGetBaseEffect, SyncGetEffect DEF Typed
<1>7. CASE SyncCreate(r)
  BY <1>0, <1>1, <1>2, <1>3, <1>7, SyncCreateEffect DEF Typed
<1>8. CASE SyncPatch(r)
  <2>1. work[r].ob.controller # 0
    BY <1>0, <1>1, <1>8 DEF SyncPatch
  <2>2. QED
    BY <1>0, <1>1, <1>2, <1>3, <1>8, <2>1, SyncPatchEffect DEF Typed
<1>9. CASE SyncReport(r)
  <2>1. work[r].cr.uid = restore[r].uid
    BY <1>1, <1>9 DEF SyncReport
  <2>2. QED
    BY <1>0, <1>1, <1>2, <1>3, <1>9, <2>1, SyncReportEffect DEF Typed
<1>10. CASE CleanupGet(r)
  BY <1>0, <1>1, <1>2, <1>10, CleanupGetEffect DEF Typed
<1>11. CASE CleanupDelete(r) \/ CollectOp(r)
  BY <1>0, <1>1, <1>2, <1>3, <1>11, DeletionEffect DEF Typed
<1>12. CASE CleanupDone(r)
  BY <1>0, <1>1, <1>2, <1>3, <1>12, CleanupDoneEffect DEF Typed
<1>13. ASSUME NEW i \in Instances, NEW ds \in DataSource, CreateRestore(r, i, ds)
       PROVE  Bound(r)' /\ Typed(r)'
  BY <1>0, <1>1, <1>2, <1>13, CreateRestoreEffect DEF Typed
<1>14. CASE DeleteRestore(r)
  BY <1>0, <1>1, <1>2, <1>14, DeleteRestoreEffect DEF Typed
<1>15. CASE OperatorAdvances(r) \/ OperatorFails(r)
  BY <1>0, <1>1, <1>2, <1>15, RunsEffect DEF Typed
<1>16. CASE OperatorReleases(r) \/ CacheCatchesUp(r)
  BY <1>0, <1>1, <1>2, <1>3, <1>16, ReleaseEffect DEF Typed
<1>17. QED
  BY <1>4, <1>5, <1>6, <1>7, <1>8, <1>9, <1>10, <1>11, <1>12, <1>13, <1>14, <1>15, <1>16
     DEF Own, Handler

(* Every step of a name keeps bases and targets.                              *)
LEMMA BasedStep ==
  ASSUME TypeInv, NEW r \in Names, Bound(r), Based(r), Own(r), Suits \subseteq Suits'
  PROVE  Based(r)'
<1>0. /\ RestoreTypeOK /\ uids[r].cr \in Nat /\ op[r].controller \in Int
      /\ NoRestore.uid = 0 /\ NoOp.uid = 0 /\ NoWork.pc = "idle"
      /\ \A b, ds : <<b, ds>> \in Suits => b \in Sources /\ <<b, ds>> \in Suits'
  BY TypedName, AbsentFields DEF TypeInv, Suits
<1>1. Based(r)' <=>
         (/\ Exists(op'[r]) => op'[r].backupName \in Sources
          /\ Exists(op'[r]) /\ op'[r].controller = restore'[r].uid =>
                /\ op'[r].pitr = (restore'[r].dataSource.type = "PointInTime")
                /\ op'[r].date = restore'[r].dataSource.date
                /\ op'[r].pxcCluster = restore'[r].instance
                /\ <<op'[r].backupName, restore'[r].dataSource>> \in Suits'
          /\ work'[r].pc \in {"base", "get", "create"} =>
                <<work'[r].base, restore'[r].dataSource>> \in Suits')
  BY DEF Based, Exists
<1>2. /\ work[r].pc # "idle" => /\ Exists(restore[r])
                                /\ work[r].cr.uid = restore[r].uid
                                /\ work[r].cr.instance = restore[r].instance
                                /\ work[r].cr.dataSource = restore[r].dataSource
      /\ Exists(op[r]) => op[r].controller \in 1..uids[r].cr
      /\ work[r].pc = "patch" => work[r].ob.controller # 0
  BY DEF Bound, Current, Lineage
<1> USE DEF Exists, Based
<1>4. CASE SyncRestore(r) \/ CleanupRestore(r)
  BY <1>0, <1>1, <1>4, CallEffect
<1>5. CASE SyncResolve(r)
  BY <1>0, <1>1, <1>2, <1>5, ResolveEffect
<1>6. CASE SyncGetBase(r) \/ SyncGet(r)
  BY <1>0, <1>1, <1>6, SyncGetBaseEffect, SyncGetEffect
<1>7. CASE SyncCreate(r)
  BY <1>0, <1>1, <1>2, <1>7, SyncCreateEffect
<1>8. CASE SyncPatch(r)
  <2>1. work[r].ob.controller # 0
    BY <1>2, <1>8 DEF SyncPatch
  <2>2. QED
    BY <1>0, <1>1, <1>8, <2>1, SyncPatchEffect
<1>9. CASE SyncReport(r)
  <2>1. work[r].cr.uid = restore[r].uid
    BY <1>2, <1>9 DEF SyncReport
  <2>2. QED
    BY <1>0, <1>1, <1>9, <2>1, SyncReportEffect
<1>10. CASE CleanupGet(r)
  BY <1>0, <1>1, <1>10, CleanupGetEffect
<1>11. CASE CleanupDelete(r) \/ CollectOp(r)
  BY <1>0, <1>1, <1>11, DeletionEffect
<1>12. CASE CleanupDone(r)
  BY <1>0, <1>1, <1>2, <1>12, CleanupDoneEffect
<1>13. ASSUME NEW i \in Instances, NEW ds \in DataSource, CreateRestore(r, i, ds)
       PROVE  Based(r)'
  BY <1>0, <1>1, <1>2, <1>13, CreateRestoreEffect
<1>14. CASE DeleteRestore(r)
  BY <1>0, <1>1, <1>14, DeleteRestoreEffect
<1>15. CASE OperatorAdvances(r) \/ OperatorFails(r)
  BY <1>0, <1>1, <1>15, RunsEffect
<1>16. CASE OperatorReleases(r) \/ CacheCatchesUp(r)
  BY <1>0, <1>1, <1>16, ReleaseEffect
<1>17. QED
  BY <1>4, <1>5, <1>6, <1>7, <1>8, <1>9, <1>10, <1>11, <1>12, <1>13, <1>14, <1>15, <1>16
     DEF Own, Handler

(* A Restore that keeps its identity keeps its proof.                         *)
LEMMA ProvenStays ==
  ASSUME NEW r, Proven(r), Records \subseteq Records', Suits \subseteq Suits',
         restore'[r].uid = restore[r].uid, restore'[r].dataSource = restore[r].dataSource
  PROVE  Proven(r)'
  BY DEF Proven

(* Every step of a name keeps the proofs of what is told.                     *)
LEMMA ToldStep ==
  ASSUME TypeInv, NEW r \in Names, Bound(r), Based(r), Told(r), Own(r),
         Suits \subseteq Suits', Records \subseteq Records'
  PROVE  Told(r)'
<1>0. /\ RestoreTypeOK /\ op[r].state \in OpState
      /\ NoRestore.state = "New" /\ NoOp.uid = 0 /\ NoWork.pc = "idle"
  BY TypedName, AbsentFields DEF TypeInv
<1>1. Told(r)' <=>
         (/\ Exists(op'[r]) /\ op'[r].state = "Succeeded" =>
                <<r, op'[r].controller, op'[r].backupName, op'[r].pitr, op'[r].date>> \in Records'
          /\ work'[r].pc = "report" /\ work'[r].state = "Succeeded" => Proven(r)'
          /\ restore'[r].state = "Succeeded" => Proven(r)')
  BY DEF Told, Exists
<1>2. /\ \A c, b, p, d : <<r, c, b, p, d>> \in Records => <<r, c, b, p, d>> \in Records'
      /\ restore'[r].uid = restore[r].uid /\ restore'[r].dataSource = restore[r].dataSource
            /\ Proven(r) => Proven(r)'
  BY ProvenStays
<1>3. /\ work[r].pc # "idle" => work[r].cr.uid = restore[r].uid
      /\ work[r].pc = "patch" => work[r].ob.controller # 0
  BY DEF Bound, Current, Lineage
<1> USE DEF Exists, Told
<1>4. CASE SyncRestore(r) \/ CleanupRestore(r)
  BY <1>0, <1>1, <1>2, <1>4, CallEffect
<1>5. CASE SyncResolve(r)
  BY <1>0, <1>1, <1>2, <1>5, ResolveEffect
<1>6. CASE SyncGetBase(r) \/ SyncGet(r)
  BY <1>0, <1>1, <1>2, <1>6, SyncGetBaseEffect, SyncGetEffect
<1>7. CASE SyncCreate(r)
  BY <1>0, <1>1, <1>2, <1>7, SyncCreateEffect
<1>8. CASE SyncPatch(r)
  <2>1. work[r].pc = "patch" /\ work[r].ob.controller # 0
    BY <1>3, <1>8 DEF SyncPatch
  <2>2. CASE work'[r] = NoWork
    BY <1>0, <1>1, <1>2, <1>8, <2>1, <2>2, SyncPatchEffect
  <2>3. CASE /\ work[r].ob.controller = work[r].cr.uid /\ Exists(op[r])
             /\ work'[r].state = restoreState(op[r].state)
    <3>1. op[r].controller = restore[r].uid
      BY <1>0, <2>1, <2>3, PatchMeetsOwn
    <3>2. work'[r].state = "Succeeded" => op[r].state = "Succeeded"
      BY <1>0, <2>3, StatePassedOn DEF Terminal
    <3>3. work'[r].state = "Succeeded" => Proven(r)
      BY <2>3, <3>1, <3>2 DEF Based, Proven
    <3>4. op'[r] = op[r] /\ UNCHANGED restore
      BY <1>0, <1>8, <2>1, SyncPatchEffect
    <3>5. QED
      BY <1>1, <1>2, <3>3, <3>4
  <2>4. QED
    BY <1>0, <1>8, <2>1, <2>2, <2>3, SyncPatchEffect
<1>9. CASE SyncReport(r)
  <2>1. work[r].cr.uid = restore[r].uid
    BY <1>3, <1>9 DEF SyncReport
  <2>2. QED
    BY <1>0, <1>1, <1>2, <1>9, <2>1, SyncReportEffect
<1>10. CASE CleanupGet(r)
  BY <1>0, <1>1, <1>2, <1>10, CleanupGetEffect
<1>11. CASE CleanupDelete(r) \/ CollectOp(r)
  BY <1>0, <1>1, <1>2, <1>11, DeletionEffect
<1>12. CASE CleanupDone(r)
  BY <1>0, <1>1, <1>2, <1>12, CleanupDoneEffect
<1>13. ASSUME NEW i \in Instances, NEW ds \in DataSource, CreateRestore(r, i, ds)
       PROVE  Told(r)'
  <2>1. work[r].pc = "idle"
    BY <1>0, <1>13, CreateRestoreEffect DEF Bound, Current
  <2>2. QED
    BY <1>0, <1>1, <1>2, <1>13, <2>1, CreateRestoreEffect
<1>14. CASE DeleteRestore(r)
  BY <1>0, <1>1, <1>2, <1>14, DeleteRestoreEffect
<1>15. CASE OperatorAdvances(r) \/ OperatorFails(r)
  <2>1. op'[r].state = "Succeeded" =>
           <<r, op[r].controller, op[r].backupName, op[r].pitr, op[r].date>> \in Records'
    <3> SUFFICES ASSUME op'[r].state = "Succeeded"
                 PROVE  <<r, op[r].controller, op[r].backupName, op[r].pitr, op[r].date>> \in Records'
      OBVIOUS
    <3> DEFINE a == [name |-> r, uid |-> op[r].uid, cr |-> op[r].controller,
                     backupName |-> op[r].backupName, pitr |-> op[r].pitr, date |-> op[r].date]
    <3>1. a \in applied'
      BY <1>0, <1>15, RunsEffect
    <3>2. QED
      BY <3>1 DEF Records
  <2>2. QED
    BY <1>0, <1>1, <1>2, <1>15, <2>1, RunsEffect
<1>16. CASE OperatorReleases(r) \/ CacheCatchesUp(r)
  BY <1>0, <1>1, <1>2, <1>16, ReleaseEffect
<1>17. QED
  BY <1>4, <1>5, <1>6, <1>7, <1>8, <1>9, <1>10, <1>11, <1>12, <1>13, <1>14, <1>15, <1>16
     DEF Own, Handler

(* Every step of a name keeps what has run for it to once per Restore.        *)
LEMMA OnceStep ==
  ASSUME TypeInv, NEW r \in Names, Bound(r), Once(r), Own(r)
  PROVE  Once(r)'
<1>0. /\ RestoreTypeOK /\ uids[r].cr \in Nat /\ op[r].controller \in Int
      /\ NoRestore.uid = 0 /\ NoOp.uid = 0 /\ ~NoOp.deleting /\ NoWork.pc = "idle"
      /\ \A c : <<r, c>> \in Ran => c \in UID
      /\ \A c \in UID : c \in Nat
  BY TypedName, AbsentFields, RestoreBounds DEF TypeInv, RestoreTypeOK, Ran, UID
<1>1. Once(r)' <=>
         (/\ \A c \in UID : <<r, c>> \in Ran' => c <= uids'[r].cr
          /\ Exists(op'[r]) /\ op'[r].controller = restore'[r].uid /\ op'[r].deleting =>
                restore'[r].deleting /\ work'[r].pc \notin SyncPCs
          /\ Exists(op'[r]) /\ op'[r].state # "Succeeded" => <<r, op'[r].controller>> \notin Ran'
          /\ /\ Exists(restore'[r])
             /\ ~restore'[r].deleting \/ work'[r].pc \in SyncPCs
             /\ ~(Exists(op'[r]) /\ op'[r].controller = restore'[r].uid)
             => <<r, restore'[r].uid>> \notin Ran')
  BY DEF Once, Exists
<1>2. /\ work[r].pc # "idle" => /\ Exists(restore[r])
                                /\ work[r].cr.uid = restore[r].uid
      /\ Exists(op[r]) => op[r].controller \in 1..uids[r].cr
      /\ work[r].pc = "patch" => work[r].ob.controller # 0
      /\ work[r].pc \in CleanupPCs => restore[r].deleting
  BY DEF Bound, Current, Lineage
<1>3. UNCHANGED applied => Ran' = Ran
  BY DEF Ran
<1> USE DEF Exists, Once, SyncPCs
<1>4. CASE SyncRestore(r) \/ CleanupRestore(r)
  BY <1>0, <1>1, <1>3, <1>4, CallEffect
<1>5. CASE SyncResolve(r)
  BY <1>0, <1>1, <1>3, <1>5, ResolveEffect
<1>6. CASE SyncGetBase(r) \/ SyncGet(r)
  BY <1>0, <1>1, <1>3, <1>6, SyncGetBaseEffect, SyncGetEffect
<1>7. CASE SyncCreate(r)
  BY <1>0, <1>1, <1>2, <1>3, <1>7, SyncCreateEffect
<1>8. CASE SyncPatch(r)
  <2>1. work[r].ob.controller # 0
    BY <1>2, <1>8 DEF SyncPatch
  <2>2. QED
    BY <1>0, <1>1, <1>3, <1>8, <2>1, SyncPatchEffect
<1>9. CASE SyncReport(r)
  <2>1. work[r].cr.uid = restore[r].uid
    BY <1>2, <1>9 DEF SyncReport
  <2>2. QED
    BY <1>0, <1>1, <1>3, <1>9, <2>1, SyncReportEffect
<1>10. CASE CleanupGet(r)
  BY <1>0, <1>1, <1>3, <1>10, CleanupGetEffect
<1>11. CASE CleanupDelete(r) \/ CollectOp(r)
  BY <1>0, <1>1, <1>2, <1>3, <1>11, DeletionEffect DEF CleanupPCs
<1>12. CASE CleanupDone(r)
  BY <1>0, <1>1, <1>2, <1>3, <1>12, CleanupDoneEffect
<1>13. ASSUME NEW i \in Instances, NEW ds \in DataSource, CreateRestore(r, i, ds)
       PROVE  Once(r)'
  <2>1. /\ restore'[r].uid = uids[r].cr + 1 /\ uids'[r].cr = uids[r].cr + 1
        /\ UNCHANGED <<op, work>> /\ Ran' = Ran
    BY <1>0, <1>3, <1>13, CreateRestoreEffect
  <2>2. <<r, uids[r].cr + 1>> \notin Ran
    BY <1>0
  <2>3. \A c \in UID : <<r, c>> \in Ran' => c <= uids'[r].cr
    BY <1>0, <2>1
  <2>4. Exists(op[r]) => op[r].controller # uids[r].cr + 1
    BY <1>0, <1>2
  <2>5. QED
    BY <1>1, <2>1, <2>2, <2>3, <2>4
<1>14. CASE DeleteRestore(r)
  BY <1>0, <1>1, <1>3, <1>14, DeleteRestoreEffect
<1>15. CASE OperatorAdvances(r) \/ OperatorFails(r)
  <2>1. /\ Exists(op[r]) /\ op[r].state # "Succeeded"
        /\ op'[r].uid = op[r].uid /\ op'[r].controller = op[r].controller
        /\ op'[r].deleting = op[r].deleting /\ UNCHANGED <<restore, uids, work>>
    BY <1>0, <1>15, RunsEffect DEF Terminal
  <2>2. \A c : <<r, c>> \in Ran' =>
           <<r, c>> \in Ran \/ (c = op[r].controller /\ op'[r].state = "Succeeded")
    <3>1. \A a \in applied' :
             a \in applied \/ (a.cr = op[r].controller /\ op'[r].state = "Succeeded")
      BY <1>0, <1>15, RunsEffect
    <3>2. QED
      BY <3>1 DEF Ran
  <2>3. \A c \in UID : <<r, c>> \in Ran' => c <= uids'[r].cr
    BY <1>2, <2>1, <2>2
  <2>4. QED
    BY <1>1, <2>1, <2>2, <2>3
<1>16. CASE OperatorReleases(r) \/ CacheCatchesUp(r)
  <2>1. CASE op[r].deleting /\ op'[r] = NoOp
    <3>1. UNCHANGED <<restore, uids, work>> /\ Ran' = Ran
      BY <1>0, <1>3, <1>16, ReleaseEffect
    <3>2. Exists(op[r])
      BY <1>0, <2>1 DEF Bound, Current
    <3>3. QED
      BY <1>0, <1>1, <2>1, <3>1, <3>2
  <2>2. CASE UNCHANGED op
    BY <1>0, <1>1, <1>3, <1>16, <2>2, ReleaseEffect
  <2>3. QED
    BY <1>0, <1>16, <2>1, <2>2, ReleaseEffect
<1>17. QED
  BY <1>4, <1>5, <1>6, <1>7, <1>8, <1>9, <1>10, <1>11, <1>12, <1>13, <1>14, <1>15, <1>16
     DEF Own, Handler

(* A name that is left alone, or whose handler ends, keeps its invariant.     *)
LEMMA StillStep ==
  ASSUME NEW r \in Names, Bound(r), Based(r), Told(r), Once(r),
         Still(r), work'[r] \in {work[r], NoWork},
         Suits \subseteq Suits', Records \subseteq Records',
         \A c : <<r, c>> \in Ran' => <<r, c>> \in Ran
  PROVE  Bound(r)' /\ Based(r)' /\ Told(r)' /\ Once(r)'
<1>1. NoWork.pc = "idle"
  BY AbsentFields
<1>2. restore'[r] = restore[r] /\ op'[r] = op[r] /\ seen'[r] = seen[r] /\ uids'[r] = uids[r]
  BY DEF Still
<1>3. Bound(r)'
  BY <1>1, <1>2 DEF Bound, Current, Lineage, Exists, CleanupPCs
<1>4. Based(r)'
  BY <1>1, <1>2 DEF Based, Exists
<1>5. Proven(r) => Proven(r)'
  BY <1>2, ProvenStays
<1>6. Told(r)'
  BY <1>1, <1>2, <1>5 DEF Told, Exists
<1>7. Once(r)'
  BY <1>1, <1>2 DEF Once, Exists, SyncPCs
<1>8. QED
  BY <1>3, <1>4, <1>6, <1>7

(* The initial states satisfy the invariant.                                  *)
LEMMA RestoreInvInit == RestoreInit => RestoreInv
<1> SUFFICES ASSUME RestoreInit PROVE RestoreInv
  OBVIOUS
<1>1. RestoreTypeOK
  <2>1. [cr |-> 0, ob |-> 0] \in [cr : UID, ob : UID]
    BY ConstantsTyped
  <2>2. restarts \in 0..MaxRestarts
    BY RestoreBounds DEF RestoreInit
  <2>3. source \in [Sources -> [instance : Instances, storage : {Storage},
                               state : {"Absent", "Pending", "Succeeded", "Failed"},
                               completedAt : Time \cup {NoTime}]]
    BY DEF RestoreInit
  <2>4. QED
    BY <2>1, <2>2, <2>3, ConstantsTyped DEF RestoreInit, RestoreTypeOK
<1>2. \A b \in Sources : SourceShape(b)
  BY DEF RestoreInit, SourceShape, Terminal
<1>3. ASSUME NEW r \in Names PROVE Bound(r) /\ Based(r) /\ Told(r) /\ Once(r)
  <2>1. /\ restore[r] = NoRestore /\ op[r] = NoOp /\ seen[r] = NoOp /\ work[r] = NoWork
        /\ applied = {}
    BY DEF RestoreInit
  <2>2. Ran = {}
    BY <2>1 DEF Ran
  <2>3. QED
    BY <2>1, <2>2, AbsentFields DEF Bound, Current, Lineage, Based, Told, Once, Exists, CleanupPCs
<1>4. AppliedAtMostOnce
  BY DEF RestoreInit, AppliedAtMostOnce
<1>5. QED
  BY <1>1, <1>2, <1>3, <1>4 DEF RestoreInv, TypeInv

(* Every step keeps the invariant.                                            *)
LEMMA RestoreInvStep ==
  ASSUME RestoreInv, RestoreMoves
  PROVE  RestoreInv'
<1>0. /\ TypeInv /\ RestoreTypeOK /\ AppliedAtMostOnce
      /\ \A r \in Names : Bound(r) /\ Based(r) /\ Told(r) /\ Once(r)
      /\ Suits \subseteq Suits'
  BY SuitsGrows DEF RestoreInv, TypeInv
<1>1. ASSUME NEW r \in Names, Own(r) PROVE RestoreInv'
  <2>1. Bound(r)' /\ Typed(r)' /\ Based(r)' /\ Once(r)'
    BY <1>0, <1>1, BoundStep, BasedStep, OnceStep
  <2>2. /\ applied \subseteq applied' /\ Records \subseteq Records'
        /\ \A n \in Names : \A c : n # r /\ <<n, c>> \in Ran' => <<n, c>> \in Ran
    BY <1>0, <1>1, HistoryGrows
  <2>3. Told(r)'
    BY <1>0, <1>1, <2>2, ToldStep
  <2>4. ASSUME NEW n \in Names PROVE Bound(n)' /\ Based(n)' /\ Told(n)' /\ Once(n)'
    <3>1. n # r => Still(n) /\ work'[n] = work[n]
      BY <1>0, <1>1, OwnFrame
    <3>2. QED
      BY <1>0, <2>1, <2>2, <2>3, <3>1, StillStep
  <2>5. ASSUME NEW n \in Names PROVE Typed(n)'
    <3>1. n # r => Still(n) /\ work'[n] = work[n]
      BY <1>0, <1>1, OwnFrame
    <3>2. Typed(n)
      BY <1>0, TypedName
    <3>3. QED
      BY <2>1, <3>1, <3>2 DEF Typed, Still
  <2>6. applied' \subseteq [name : Names, uid : UID, cr : UID,
                            backupName : Sources, pitr : BOOLEAN, date : Time \cup {NoTime}]
    <3>1. CASE UNCHANGED applied
      BY <1>0, <3>1 DEF RestoreTypeOK
    <3>2. CASE OperatorAdvances(r)
      <4>1. Exists(op[r]) /\ op[r].backupName \in Sources
        BY <1>0, <3>2 DEF OperatorAdvances, Based
      <4>2. /\ op[r].uid \in UID /\ op[r].controller \in UID
            /\ op[r].pitr \in BOOLEAN /\ op[r].date \in Time \cup {NoTime}
        BY <1>0 DEF RestoreTypeOK, OpRestore
      <4>3. QED
        BY <1>0, <3>2, <4>1, <4>2, RunsEffect DEF RestoreTypeOK
    <3>3. QED
      BY <1>0, <1>1, <3>1, <3>2, OwnHistory
  <2>7. RestoreTypeOK'
    <3>1. UNCHANGED <<source, sourceOp, restarts>>
      BY <1>0, <1>1, OwnFrame
    <3>2. /\ restore' = [n \in Names |-> restore'[n]] /\ op' = [n \in Names |-> op'[n]]
          /\ seen' = [n \in Names |-> seen'[n]] /\ uids' = [n \in Names |-> uids'[n]]
          /\ work' = [n \in Names |-> work'[n]]
      BY <1>0, <1>1, OwnFrame
    <3>3. /\ restore' \in [Names -> RestoreCR] /\ op' \in [Names -> OpRestore]
          /\ seen' \in [Names -> OpRestore] /\ uids' \in [Names -> [cr : UID, ob : UID]]
          /\ work' \in [Names -> Work]
      BY <2>5, <3>2 DEF Typed
    <3>4. QED
      BY <1>0, <2>6, <3>1, <3>3 DEF RestoreTypeOK
  <2>8. \A b \in Sources : SourceShape(b)'
    BY <1>0, <1>1, OwnFrame DEF TypeInv, SourceShape
  <2>9. AppliedAtMostOnce'
    <3>1. CASE UNCHANGED applied
      BY <1>0, <3>1 DEF AppliedAtMostOnce
    <3>2. CASE OperatorAdvances(r)
      <4>1. Exists(op[r]) /\ op[r].state # "Succeeded"
        BY <3>2 DEF OperatorAdvances, Terminal
      <4>2. <<r, op[r].controller>> \notin Ran
        BY <1>0, <4>1 DEF Once
      <4>3. \A a \in applied : ~(a.name = r /\ a.cr = op[r].controller)
        BY <4>2 DEF Ran
      <4> DEFINE new == [name |-> r, uid |-> op[r].uid, cr |-> op[r].controller,
                         backupName |-> op[r].backupName, pitr |-> op[r].pitr, date |-> op[r].date]
      <4>4. new.name = r /\ new.cr = op[r].controller
        OBVIOUS
      <4>5. applied' \subseteq applied \cup {new}
        BY <1>0, <3>2, RunsEffect
      <4> HIDE DEF new
      <4>6. QED
        BY <1>0, <4>3, <4>4, <4>5 DEF AppliedAtMostOnce
    <3>3. QED
      BY <1>0, <1>1, <3>1, <3>2, OwnHistory
  <2>10. QED
    BY <2>4, <2>7, <2>8, <2>9 DEF RestoreInv, TypeInv
<1>2. CASE /\ UNCHANGED <<restore, op, seen, uids, applied>>
           /\ \A r \in Names : work'[r] \in {work[r], NoWork}
           /\ TypeInv'
  <2>1. Records' = Records /\ Ran' = Ran
    BY <1>2 DEF Records, Ran
  <2>2. ASSUME NEW r \in Names PROVE Bound(r)' /\ Based(r)' /\ Told(r)' /\ Once(r)'
    <3>1. Still(r)
      BY <1>2 DEF Still
    <3>2. QED
      BY <1>0, <1>2, <2>1, <3>1, StillStep
  <2>3. AppliedAtMostOnce'
    BY <1>0, <1>2 DEF AppliedAtMostOnce
  <2>4. QED
    BY <1>2, <2>2, <2>3 DEF RestoreInv
<1>3. QED
  BY <1>0, <1>1, <1>2, MoveCases

(* A step of Restores is such a move, and so is a step that does nothing.     *)
LEMMA NextMoves ==
  ASSUME RestoreInv, [RestoreNext]_restoreVars
  PROVE  RestoreMoves
  BY DEF RestoreInv, TypeInv, RestoreTypeOK, RestoreMoves, restoreVars, sourceVars

LEMMA RestoreInvariant == RestoreSpec => []RestoreInv
<1>1. RestoreInv /\ [RestoreNext]_restoreVars => RestoreInv'
  BY NextMoves, RestoreInvStep
<1>2. QED
  BY <1>1, RestoreInvInit, PTL DEF RestoreSpec

-----------------------------------------------------------------------------
(* What the invariant says to users, also when reads are stale.               *)

(* What every variable holds is of its type.                                  *)
THEOREM RestoreTypeCorrect == RestoreSpec => []RestoreTypeOK
<1>1. RestoreInv => RestoreTypeOK
  BY DEF RestoreInv, TypeInv
<1>2. QED
  BY <1>1, RestoreInvariant, PTL

(* One Restore overwrites the data of the cluster at most once, however often *)
(* the provider restarts, requests fail and names are used again, and however *)
(* stale the reads of SyncRestore are.                                        *)
THEOREM RestoreAppliedOnce == RestoreSpec => []AppliedAtMostOnce
<1>1. RestoreInv => AppliedAtMostOnce
  BY DEF RestoreInv
<1>2. QED
  BY <1>1, RestoreInvariant, PTL

(* A proof of success is an operator restore that ran for this Restore.       *)
LEMMA ProvenIsApplied ==
  ASSUME RestoreTypeOK, NEW r \in Names, Proven(r)
  PROVE  \E a \in applied :
            /\ a.name = r /\ a.cr = restore[r].uid
            /\ a.date = restore[r].dataSource.date
            /\ a.pitr <=> restore[r].dataSource.type = "PointInTime"
            /\ restore[r].dataSource.type = "Backup" =>
                  a.backupName = restore[r].dataSource.backup
            /\ restore[r].dataSource.type = "PointInTime" /\ a.date # NoTime
                  => source[a.backupName].completedAt <= a.date
<1>1. PICK b \in Sources :
         /\ <<r, restore[r].uid, b, restore[r].dataSource.type = "PointInTime",
              restore[r].dataSource.date>> \in Records
         /\ <<b, restore[r].dataSource>> \in Suits
  BY DEF Proven
<1>2. PICK a \in applied :
         /\ a.name = r /\ a.cr = restore[r].uid /\ a.backupName = b
         /\ a.pitr = (restore[r].dataSource.type = "PointInTime")
         /\ a.date = restore[r].dataSource.date
  BY <1>1 DEF Records
<1>3. /\ restore[r].dataSource.type = "Backup" => b = restore[r].dataSource.backup
      /\ restore[r].dataSource.type = "PointInTime" /\ restore[r].dataSource.date # NoTime
            => source[b].completedAt <= restore[r].dataSource.date
  BY <1>1 DEF Suits
<1>4. QED
  BY <1>2, <1>3

(* A Restore that is reported Succeeded was applied: the operator restore     *)
(* that ran to success was created for it and not for a predecessor of the    *)
(* same name, from the source it names. Stale reads do not harm this.         *)
THEOREM RestoreSuccessIsReal == RestoreSpec => []SucceededRestoreWasApplied
<1>1. RestoreInv => SucceededRestoreWasApplied
  <2> SUFFICES ASSUME RestoreInv, NEW r \in Names, restore[r].state = "Succeeded"
               PROVE  \E a \in applied :
                         /\ a.name = r /\ a.cr = restore[r].uid
                         /\ a.date = restore[r].dataSource.date
                         /\ a.pitr <=> restore[r].dataSource.type = "PointInTime"
                         /\ restore[r].dataSource.type = "Backup" =>
                               a.backupName = restore[r].dataSource.backup
                         /\ restore[r].dataSource.type = "PointInTime" /\ a.date # NoTime
                               => source[a.backupName].completedAt <= a.date
    BY DEF SucceededRestoreWasApplied
  <2>1. RestoreTypeOK /\ Proven(r)
    BY DEF RestoreInv, TypeInv, Told
  <2>2. QED
    BY <2>1, ProvenIsApplied
<1>2. QED
  BY <1>1, RestoreInvariant, PTL

(* A step of a name leaves base, target and date of its operator restore.     *)
LEMMA OwnPins ==
  ASSUME RestoreTypeOK, NEW r \in Names, Bound(r), Own(r),
         Exists(op[r]), op'[r].uid = op[r].uid
  PROVE  /\ op'[r].backupName = op[r].backupName
         /\ op'[r].pitr = op[r].pitr /\ op'[r].date = op[r].date
         /\ op'[r].pxcCluster = op[r].pxcCluster
<1>0. NoOp.uid = 0
  BY AbsentFields
<1>1. CASE SyncCreate(r)
  BY <1>1, SyncCreateEffect
<1>2. CASE SyncPatch(r)
  <2>1. work[r].ob.controller # 0
    BY <1>2 DEF SyncPatch, Bound, Lineage
  <2>2. QED
    BY <1>2, <2>1, SyncPatchEffect
<1>3. CASE CleanupDelete(r) \/ CollectOp(r)
  BY <1>3, DeletionEffect
<1>4. CASE OperatorAdvances(r) \/ OperatorFails(r)
  BY <1>4, RunsEffect
<1>5. CASE OperatorReleases(r) \/ CacheCatchesUp(r)
  BY <1>0, <1>5, ReleaseEffect DEF Exists
<1>6. CASE op' = op
  BY <1>6
<1>7. \/ op' = op \/ SyncCreate(r) \/ SyncPatch(r) \/ CleanupDelete(r) \/ CollectOp(r)
      \/ OperatorAdvances(r) \/ OperatorFails(r) \/ OperatorReleases(r) \/ CacheCatchesUp(r)
  BY DEF Own, Handler, SyncRestore, SyncResolve, SyncGetBase, SyncGet, SyncReport, CleanupRestore,
     CleanupGet, CleanupDone, CreateRestore, DeleteRestore
<1>8. QED
  BY <1>1, <1>2, <1>3, <1>4, <1>5, <1>6, <1>7

(* SyncRestore resolves its source on every call, and may find another base   *)
(* each time; the operator restore that runs keeps the one it started with.   *)
THEOREM OpRestoresArePinned == RestoreSpec => OpRestoreIsPinned
<1>1. RestoreInv /\ [RestoreNext]_restoreVars =>
         [\A r \in Names : Exists(op[r]) /\ op'[r].uid = op[r].uid =>
            /\ op'[r].backupName = op[r].backupName
            /\ op'[r].pitr = op[r].pitr /\ op'[r].date = op[r].date
            /\ op'[r].pxcCluster = op[r].pxcCluster]_restoreVars
  <2> SUFFICES ASSUME RestoreInv, [RestoreNext]_restoreVars, NEW r \in Names,
                      Exists(op[r]), op'[r].uid = op[r].uid
               PROVE  /\ op'[r].backupName = op[r].backupName
                      /\ op'[r].pitr = op[r].pitr /\ op'[r].date = op[r].date
                      /\ op'[r].pxcCluster = op[r].pxcCluster
    OBVIOUS
  <2>0. TypeInv /\ RestoreTypeOK /\ Bound(r)
    BY DEF RestoreInv, TypeInv
  <2>1. CASE UNCHANGED op
    BY <2>1
  <2>2. ASSUME NEW n \in Names, Own(n)
        PROVE  op'[r] = op[r] \/ n = r
    BY <2>0, <2>2, OwnFrame DEF Still
  <2>3. QED
    BY <2>0, <2>1, <2>2, NextMoves, MoveCases, OwnPins
<1>2. QED
  BY <1>1, RestoreInvariant, PTL DEF RestoreSpec, OpRestoreIsPinned

-----------------------------------------------------------------------------
(* Restores implement OneShot. This needs reads that do not lag, and sources  *)
(* that stay: otherwise the operator backup of a base may be replaced by one  *)
(* that fails while the operator restore runs from its predecessor.           *)

(* Sources that no operator restore can begin from any more, and the ones     *)
(* that an operator restore may have begun from.                              *)
DeadSources == {b \in Sources : sourceOp[b] = "Failed"}
UsedSources == {b \in Sources : sourceOp[b] = "Succeeded"}

(* Nothing has run for this Restore, and nothing will.                        *)
Rejected(r) ==
    Exists(op[r]) => op[r].state \in {"New", "Failed"} /\ op[r].backupName \in DeadSources

(* A verdict and the operator restore that it is about.                       *)
Founded(r, verdict) ==
    \/ Exists(op[r]) /\ op[r].state = verdict
    \/ verdict = "Failed" /\ Rejected(r)

(* Beyond RestoreInv: an operator restore belongs to the Restore that exists, *)
(* what has begun began from a source that could be used, a terminal Restore  *)
(* is not worked at, and verdicts are founded until the Restore is deleted.   *)
Agreed(r) ==
    /\ Exists(op[r]) => Exists(restore[r]) /\ op[r].controller = restore[r].uid
    /\ work[r].pc = "cleaned" => ~Exists(op[r])
    /\ work[r].pc = "base" => work[r].base \in UsedSources
    /\ Exists(op[r]) /\ op[r].state \in RunningPhases \cup {"Succeeded"} =>
          op[r].backupName \in UsedSources
    /\ work[r].pc \in SyncPCs => restore[r].state \notin Terminal
    /\ ~restore[r].deleting /\ restore[r].state \in Terminal => Founded(r, restore[r].state)
    /\ ~restore[r].deleting /\ work[r].pc = "report" /\ work[r].state \in Terminal =>
          Founded(r, work[r].state)

Agreement == \A r \in Names : Agreed(r)

(* What is dead or used stays so.                                             *)
LEMMA SourcesStay ==
  ASSUME ~SourcesMayGo, TypeInv, RestoreMoves
  PROVE  DeadSources \subseteq DeadSources' /\ UsedSources \subseteq UsedSources'
<1>0. RestoreTypeOK
  BY DEF TypeInv
<1>1. ASSUME NEW b \in Sources, SourceOpStep(b)
      PROVE  DeadSources \subseteq DeadSources' /\ UsedSources \subseteq UsedSources'
  <2>1. /\ sourceOp[b] \in {"Absent", "Running"}
        /\ \A c \in Sources : c # b => sourceOp'[c] = sourceOp[c]
    BY <1>0, <1>1 DEF SourceOpStep, RestoreTypeOK
  <2>2. QED
    BY <2>1 DEF DeadSources, UsedSources
<1>2. CASE UNCHANGED sourceOp
  BY <1>2 DEF DeadSources, UsedSources
<1>3. ASSUME NEW r \in Names, Own(r) PROVE UNCHANGED sourceOp
  BY <1>0, <1>3, OwnFrame
<1>4. QED
  BY <1>1, <1>2, <1>3
     DEF RestoreMoves, RestoreNext, RestoreStep, Own, Interrupt, sourceVars,
         SourceAppears, SourceReport, SourceOpGoes, SourceGoes

(* One name, seen from OneShot: what may become of its job and of its run.    *)
Turn(j, r, j2, r2) ==
    \/ j2 = j /\ r2 = r
    \/ j = "None" /\ r = "No" /\ j2 = "Open" /\ r2 = r
    \/ j \in {"Open", "Closing"} /\ r = "No" /\ j2 = j /\ r2 = "Queued"
    \/ j \in {"Open", "Closing"} /\ r = "Queued" /\ j2 = j /\ r2 = "Running"
    \/ r = "Running" /\ j2 = j /\ r2 \in Terminal
    \/ r = "Queued" /\ j2 = j /\ r2 = "Failed"
    \/ j = "Open" /\ r \in Terminal /\ j2 = r /\ r2 = r
    \/ j = "Open" /\ r \in {"No", "Queued"} /\ j2 = "Failed" /\ r2 = r
    \/ j \in {"Open"} \cup Terminal /\ j2 = "Closing" /\ r2 = r
    \/ j = "Closing" /\ j2 = j /\ r2 = "No"
    \/ j = "Closing" /\ r = "No" /\ j2 = "None" /\ r2 = r

(* Every step of a name keeps the agreement and is a turn of it.              *)
LEMMA TurnOfOwn ==
  ASSUME ~StaleReads, ~SourcesMayGo, TypeInv, NEW r \in Names,
         Bound(r), Based(r), Once(r), Agreed(r), Own(r)
  PROVE  Agreed(r)' /\ Turn(JobOf(r), RanOf(r), JobOf(r)', RanOf(r)')
<1> DEFINE Fine(rr, oo, ww) ==
             /\ Exists(oo) => Exists(rr) /\ oo.controller = rr.uid
             /\ ww.pc = "cleaned" => ~Exists(oo)
             /\ ww.pc = "base" => ww.base \in UsedSources
             /\ Exists(oo) /\ oo.state \in RunningPhases \cup {"Succeeded"} =>
                   oo.backupName \in UsedSources
             /\ ww.pc \in SyncPCs => rr.state \notin Terminal
             /\ ~rr.deleting /\ rr.state \in Terminal =>
                   \/ Exists(oo) /\ oo.state = rr.state
                   \/ /\ rr.state = "Failed"
                      /\ Exists(oo) => oo.state \in {"New", "Failed"} /\ oo.backupName \in DeadSources
             /\ ~rr.deleting /\ ww.pc = "report" /\ ww.state \in Terminal =>
                   \/ Exists(oo) /\ oo.state = ww.state
                   \/ /\ ww.state = "Failed"
                      /\ Exists(oo) => oo.state \in {"New", "Failed"} /\ oo.backupName \in DeadSources
           J(rr) == IF ~Exists(rr) THEN "None"
                    ELSE IF rr.deleting THEN "Closing"
                    ELSE IF rr.state \in Terminal THEN rr.state ELSE "Open"
           R(oo) == IF ~Exists(oo) THEN "No"
                    ELSE IF oo.state = "New" THEN "Queued"
                    ELSE IF oo.state \in RunningPhases THEN "Running" ELSE oo.state
<1>0. /\ RestoreTypeOK /\ op[r].state \in OpState /\ Get(r) = op[r]
      /\ NoRestore.uid = 0 /\ ~NoRestore.deleting /\ NoRestore.state = "New"
      /\ NoOp.uid = 0 /\ ~NoOp.deleting /\ NoOp.state = "New"
      /\ NoWork.pc = "idle"
      /\ \A b \in Sources : SourceShape(b)
      /\ restore[r].dataSource \in DataSource
  BY TypedName, AbsentFields DEF TypeInv, Get
<1>1. /\ Fine(restore[r], op[r], work[r])
      /\ JobOf(r) = J(restore[r]) /\ RanOf(r) = R(op[r])
  BY DEF Agreed, Founded, Rejected, JobOf, RanOf
<1>2. /\ UNCHANGED <<source, sourceOp>>
      /\ DeadSources' = DeadSources /\ UsedSources' = UsedSources
  BY <1>0, OwnFrame DEF DeadSources, UsedSources
<1>3. /\ Agreed(r)' <=> Fine(restore'[r], op'[r], work'[r])
      /\ JobOf(r)' = J(restore'[r]) /\ RanOf(r)' = R(op'[r])
  BY <1>2 DEF Agreed, Founded, Rejected, JobOf, RanOf, Exists
<1>4. /\ work[r].pc # "idle" => /\ Exists(restore[r])
                                /\ work[r].cr.uid = restore[r].uid
                                /\ work[r].cr.dataSource = restore[r].dataSource
      /\ work[r].pc \in CleanupPCs => restore[r].deleting
      /\ work[r].pc = "patch" => work[r].ob.controller # 0
      /\ ~Exists(op[r]) => op[r] = NoOp
      /\ ~Exists(restore[r]) => restore[r] = NoRestore
  BY DEF Bound, Current, Lineage
<1>5. Exists(op[r]) /\ op[r].deleting => restore[r].deleting
  BY <1>1 DEF Once
<1>6. op[r].state \notin RunningPhases \cup {"Succeeded"} => op[r].state \in {"New", "Failed"}
  BY <1>0 DEF OpState
<1> USE DEF Turn, Exists, Terminal, SyncPCs, CleanupPCs
<1>7. CASE SyncRestore(r) \/ CleanupRestore(r)
  BY <1>0, <1>1, <1>3, <1>7, CallEffect
<1>8. CASE SyncResolve(r)
  <2>1. /\ work[r].pc = "resolve" /\ work[r].cr.dataSource = restore[r].dataSource
        /\ UNCHANGED <<restore, op>>
    BY <1>4, <1>8, ResolveEffect
  <2>2. CASE work'[r].pc = "get" \/ (work'[r].pc = "report" /\ work'[r].state = "Pending")
    BY <1>1, <1>3, <2>1, <2>2
  <2>3. CASE /\ work'[r].pc = "report" /\ work'[r].state = "Failed"
             /\ \/ /\ restore[r].dataSource.type = "Backup"
                   /\ source[restore[r].dataSource.backup].state = "Failed"
                \/ restore[r].dataSource.type = "Invalid"
    <3>1. Exists(op[r]) => <<op[r].backupName, restore[r].dataSource>> \in Suits
      BY <1>1 DEF Based
    <3>2. Exists(op[r]) => /\ restore[r].dataSource.type = "Backup"
                           /\ op[r].backupName = restore[r].dataSource.backup
                           /\ op[r].backupName \in Sources
      BY <2>3, <3>1 DEF Suits
    <3>3. Exists(op[r]) => /\ source[op[r].backupName].state = "Failed"
                           /\ sourceOp[op[r].backupName] = "Failed"
      BY <1>0, <2>3, <3>2 DEF SourceShape
    <3>4. Exists(op[r]) => /\ op[r].backupName \in DeadSources
                           /\ op[r].backupName \notin UsedSources
      BY <3>2, <3>3 DEF DeadSources, UsedSources
    <3>5. Exists(op[r]) => op[r].state \in {"New", "Failed"}
      BY <1>1, <1>6, <3>4
    <3>6. QED
      BY <1>1, <1>3, <2>1, <2>3, <3>4, <3>5
  <2>4. CASE /\ work'[r].pc = "base"
             /\ <<work'[r].base, restore[r].dataSource>> \in Suits
             /\ source[work'[r].base].state = "Succeeded"
    <3>1. work'[r].base \in Sources
      BY <2>4 DEF Suits
    <3>2. work'[r].base \in UsedSources
      BY <1>0, <2>4, <3>1 DEF SourceShape, UsedSources
    <3>3. QED
      BY <1>1, <1>3, <2>1, <2>4, <3>2
  <2>5. QED
    BY <1>8, <2>1, <2>2, <2>3, <2>4, ResolveEffect
<1>9. CASE SyncGetBase(r) \/ SyncGet(r)
  <2>1. work[r].pc = "base" => sourceOp[work[r].base] # "Failed"
    BY <1>1 DEF UsedSources
  <2>2. CASE SyncGetBase(r)
    BY <1>0, <1>1, <1>3, <2>1, <2>2, SyncGetBaseEffect
  <2>3. CASE SyncGet(r)
    BY <1>0, <1>1, <1>3, <2>3, SyncGetEffect
  <2>4. QED
    BY <1>9, <2>2, <2>3
<1>10. CASE SyncCreate(r)
  BY <1>0, <1>1, <1>3, <1>4, <1>10, SyncCreateEffect DEF RunningPhases
<1>11. CASE SyncPatch(r)
  <2>1. /\ work[r].pc = "patch" /\ op'[r] = op[r] /\ UNCHANGED restore
        /\ \/ work'[r] = NoWork
           \/ /\ Exists(op[r]) /\ work'[r].pc = "report"
              /\ work'[r].state = restoreState(op[r].state)
    BY <1>0, <1>4, <1>11, SyncPatchEffect DEF SyncPatch
  <2>2. restoreState(op[r].state) \in Terminal => op[r].state = restoreState(op[r].state)
    BY <1>0, StatePassedOn
  <2>3. QED
    BY <1>0, <1>1, <1>3, <2>1, <2>2
<1>12. CASE SyncReport(r)
  <2>1. work[r].pc = "report" /\ work[r].cr.uid = restore[r].uid /\ Exists(restore[r])
    BY <1>4, <1>12 DEF SyncReport
  <2>2. /\ restore'[r].uid = restore[r].uid /\ restore'[r].deleting = restore[r].deleting
        /\ restore'[r].state = work[r].state /\ UNCHANGED op /\ work'[r].pc = "idle"
    BY <1>0, <1>12, <2>1, SyncReportEffect
  <2>3. QED
    BY <1>1, <1>3, <2>1, <2>2 DEF RunningPhases
<1>13. CASE CleanupGet(r)
  BY <1>0, <1>1, <1>3, <1>13, CleanupGetEffect
<1>14. CASE CleanupDelete(r) \/ CollectOp(r)
  BY <1>0, <1>1, <1>3, <1>4, <1>14, DeletionEffect
<1>15. CASE CleanupDone(r)
  BY <1>0, <1>1, <1>3, <1>4, <1>15, CleanupDoneEffect
<1>16. ASSUME NEW i \in Instances, NEW ds \in DataSource, CreateRestore(r, i, ds)
       PROVE  Agreed(r)' /\ Turn(JobOf(r), RanOf(r), JobOf(r)', RanOf(r)')
  <2>1. /\ ~Exists(restore[r]) /\ Exists(restore'[r]) /\ UNCHANGED <<op, work>>
        /\ ~restore'[r].deleting /\ restore'[r].state = "New"
    BY <1>0, <1>16, CreateRestoreEffect
  <2>2. ~Exists(op[r]) /\ work[r].pc = "idle"
    BY <1>1, <1>4, <2>1
  <2>3. QED
    BY <1>0, <1>1, <1>3, <2>1, <2>2
<1>17. CASE DeleteRestore(r)
  BY <1>0, <1>1, <1>3, <1>17, DeleteRestoreEffect
<1>18. CASE OperatorAdvances(r) \/ OperatorFails(r)
  <2>1. /\ Exists(op[r]) /\ op[r].state \notin Terminal /\ op[r].backupName \in Sources
        /\ op'[r].uid = op[r].uid /\ op'[r].controller = op[r].controller
        /\ op'[r].backupName = op[r].backupName
        /\ UNCHANGED <<restore, work>>
    BY <1>0, <1>18, RunsEffect DEF Based
  <2>2. CASE op'[r].state = "Failed"
    BY <1>1, <1>3, <1>6, <2>1, <2>2 DEF RunningPhases
  <2>3. CASE /\ op[r].state = "New" /\ op'[r].state = "Starting"
             /\ sourceOp[op[r].backupName] = "Succeeded"
    <3>1. op[r].backupName \in UsedSources
      BY <2>1, <2>3 DEF UsedSources
    <3>2. op[r].backupName \notin DeadSources
      BY <2>3 DEF DeadSources
    <3>3. QED
      BY <1>1, <1>3, <2>1, <2>3, <3>1, <3>2 DEF RunningPhases
  <2>4. CASE op[r].state # "New" /\ op'[r].state \in RunningPhases \cup {"Succeeded"}
    BY <1>1, <1>3, <1>6, <2>1, <2>4 DEF RunningPhases
  <2>5. QED
    BY <1>0, <1>18, <2>2, <2>3, <2>4, RunsEffect
<1>19. CASE OperatorReleases(r) \/ CacheCatchesUp(r)
  BY <1>0, <1>1, <1>3, <1>4, <1>5, <1>19, ReleaseEffect
<1>20. QED
  BY <1>7, <1>8, <1>9, <1>10, <1>11, <1>12, <1>13, <1>14, <1>15, <1>16, <1>17, <1>18, <1>19
     DEF Own, Handler

(* A name that is left alone keeps the agreement and its place.               *)
LEMMA TurnOfStill ==
  ASSUME NEW r \in Names, Agreed(r), Still(r), work'[r] \in {work[r], NoWork},
         DeadSources \subseteq DeadSources', UsedSources \subseteq UsedSources'
  PROVE  Agreed(r)' /\ JobOf(r)' = JobOf(r) /\ RanOf(r)' = RanOf(r)
<1>1. NoWork.pc = "idle"
  BY AbsentFields
<1>2. restore'[r] = restore[r] /\ op'[r] = op[r]
  BY DEF Still
<1>3. Agreed(r)'
  BY <1>1, <1>2 DEF Agreed, Founded, Rejected, Exists, SyncPCs
<1>4. JobOf(r)' = JobOf(r) /\ RanOf(r)' = RanOf(r)
  BY <1>2 DEF JobOf, RanOf, Exists
<1>5. QED
  BY <1>3, <1>4

(* Every step keeps the agreement, and is about one name or none.             *)
LEMMA AgreementStep ==
  ASSUME ~StaleReads, ~SourcesMayGo, RestoreInv, Agreement, RestoreMoves
  PROVE  /\ Agreement'
         /\ \/ \A r \in Names : JobOf(r)' = JobOf(r) /\ RanOf(r)' = RanOf(r)
            \/ \E r \in Names :
                  /\ Turn(JobOf(r), RanOf(r), JobOf(r)', RanOf(r)')
                  /\ \A n \in Names : n # r => JobOf(n)' = JobOf(n) /\ RanOf(n)' = RanOf(n)
<1>0. /\ TypeInv /\ RestoreTypeOK
      /\ \A r \in Names : Bound(r) /\ Based(r) /\ Once(r) /\ Agreed(r)
      /\ DeadSources \subseteq DeadSources' /\ UsedSources \subseteq UsedSources'
  BY SourcesStay DEF RestoreInv, TypeInv, Agreement
<1>1. ASSUME NEW r \in Names, Own(r)
      PROVE  /\ Agreement'
             /\ Turn(JobOf(r), RanOf(r), JobOf(r)', RanOf(r)')
             /\ \A n \in Names : n # r => JobOf(n)' = JobOf(n) /\ RanOf(n)' = RanOf(n)
  <2>1. Agreed(r)' /\ Turn(JobOf(r), RanOf(r), JobOf(r)', RanOf(r)')
    BY <1>0, <1>1, TurnOfOwn
  <2>2. ASSUME NEW n \in Names, n # r
        PROVE  Agreed(n)' /\ JobOf(n)' = JobOf(n) /\ RanOf(n)' = RanOf(n)
    BY <1>0, <1>1, <2>2, OwnFrame, TurnOfStill
  <2>3. QED
    BY <2>1, <2>2 DEF Agreement
<1>2. CASE /\ UNCHANGED <<restore, op, seen, uids, applied>>
           /\ \A r \in Names : work'[r] \in {work[r], NoWork}
  <2>1. ASSUME NEW r \in Names
        PROVE  Agreed(r)' /\ JobOf(r)' = JobOf(r) /\ RanOf(r)' = RanOf(r)
    <3>1. Still(r)
      BY <1>2 DEF Still
    <3>2. QED
      BY <1>0, <1>2, <3>1, TurnOfStill
  <2>2. QED
    BY <2>1 DEF Agreement
<1>3. QED
  BY <1>0, <1>1, <1>2, MoveCases

LEMMA AgreementInit == RestoreInit => Agreement
<1> SUFFICES ASSUME RestoreInit, NEW r \in Names PROVE Agreed(r)
  BY DEF Agreement
<1>1. restore[r] = NoRestore /\ op[r] = NoOp /\ work[r] = NoWork
  BY DEF RestoreInit
<1>2. QED
  BY <1>1, AbsentFields DEF Agreed, Exists, SyncPCs, Terminal

(* A turn of one name, with nothing else moving, is a step of OneShot.        *)
LEMMA TurnIsStep ==
  ASSUME NEW r \in Names,
         Turn(JobOf(r), RanOf(r), JobOf(r)', RanOf(r)'),
         \A n \in Names : n # r => JobOf(n)' = JobOf(n) /\ RanOf(n)' = RanOf(n)
  PROVE  [Job!Next]_(Job!vars)
<1> DEFINE J == [n \in Names |-> JobOf(n)]
           R == [n \in Names |-> RanOf(n)]
<1>1. /\ J[r] = JobOf(r) /\ R[r] = RanOf(r)
      /\ J' = [J EXCEPT ![r] = JobOf(r)']
      /\ R' = [R EXCEPT ![r] = RanOf(r)']
  OBVIOUS
<1>2. /\ JobOf(r)' = JobOf(r) => J' = J
      /\ RanOf(r)' = RanOf(r) => R' = R
  OBVIOUS
<1>3. CASE JobOf(r)' = JobOf(r) /\ RanOf(r)' = RanOf(r)
  BY <1>2, <1>3 DEF Job!vars
<1>4. CASE JobOf(r) = "None" /\ RanOf(r) = "No" /\ JobOf(r)' = "Open" /\ RanOf(r)' = RanOf(r)
  BY <1>1, <1>2, <1>4 DEF Job!Next, Job!Request
<1>5. CASE /\ JobOf(r) \in {"Open", "Closing"} /\ RanOf(r) = "No"
           /\ JobOf(r)' = JobOf(r) /\ RanOf(r)' = "Queued"
  BY <1>1, <1>2, <1>5 DEF Job!Next, Job!Start
<1>6. CASE /\ JobOf(r) \in {"Open", "Closing"} /\ RanOf(r) = "Queued"
           /\ JobOf(r)' = JobOf(r) /\ RanOf(r)' = "Running"
  BY <1>1, <1>2, <1>6 DEF Job!Next, Job!Proceed
<1>7. CASE RanOf(r) = "Running" /\ JobOf(r)' = JobOf(r) /\ RanOf(r)' \in Terminal
  BY <1>1, <1>2, <1>7 DEF Job!Next, Job!End, Job!Verdict, Terminal
<1>8. CASE RanOf(r) = "Queued" /\ JobOf(r)' = JobOf(r) /\ RanOf(r)' = "Failed"
  BY <1>1, <1>2, <1>8 DEF Job!Next, Job!End
<1>9. CASE /\ JobOf(r) = "Open" /\ RanOf(r) \in Terminal
           /\ JobOf(r)' = RanOf(r) /\ RanOf(r)' = RanOf(r)
  BY <1>1, <1>2, <1>9 DEF Job!Next, Job!Report, Job!Verdict, Terminal
<1>10. CASE /\ JobOf(r) = "Open" /\ RanOf(r) \in {"No", "Queued"}
            /\ JobOf(r)' = "Failed" /\ RanOf(r)' = RanOf(r)
  BY <1>1, <1>2, <1>10 DEF Job!Next, Job!Reject
<1>11. CASE JobOf(r) \in {"Open"} \cup Terminal /\ JobOf(r)' = "Closing" /\ RanOf(r)' = RanOf(r)
  BY <1>1, <1>2, <1>11 DEF Job!Next, Job!Close, Job!Verdict, Terminal
<1>12. CASE JobOf(r) = "Closing" /\ JobOf(r)' = JobOf(r) /\ RanOf(r)' = "No"
  BY <1>1, <1>2, <1>12 DEF Job!Next, Job!Drop
<1>13. CASE JobOf(r) = "Closing" /\ RanOf(r) = "No" /\ JobOf(r)' = "None" /\ RanOf(r)' = RanOf(r)
  BY <1>1, <1>2, <1>13 DEF Job!Next, Job!Forget
<1>14. QED
  BY <1>3, <1>4, <1>5, <1>6, <1>7, <1>8, <1>9, <1>10, <1>11, <1>12, <1>13 DEF Turn

(* Restores keep the promise of OneShot for any number of names, sources,     *)
(* instances, reuses of a name and restarts of the provider, as long as reads *)
(* do not lag and no Backup or operator backup is deleted under a Restore:    *)
(* an operator restore runs at most once for a Restore, a verdict is that of  *)
(* the operator restore or is given when none has run and none will, it is    *)
(* final, and a Restore goes only when its operator restore is gone.          *)
THEOREM RestoresImplementOneShot ==
  ASSUME ~StaleReads, ~SourcesMayGo
  PROVE  RestoreSpec => RestoreIsOneShot
<1>1. RestoreInit => Job!Init
  <2> SUFFICES ASSUME RestoreInit PROVE Job!Init
    OBVIOUS
  <2>1. ASSUME NEW r \in Names PROVE JobOf(r) = "None" /\ RanOf(r) = "No"
    BY AbsentFields DEF RestoreInit, JobOf, RanOf, Exists
  <2>2. QED
    BY <2>1 DEF Job!Init
<1>2. RestoreInv /\ Agreement /\ [RestoreNext]_restoreVars => Agreement'
  BY NextMoves, AgreementStep
<1>3. RestoreInv /\ Agreement /\ [RestoreNext]_restoreVars => [Job!Next]_(Job!vars)
  <2> SUFFICES ASSUME RestoreInv, Agreement, RestoreMoves PROVE [Job!Next]_(Job!vars)
    BY NextMoves
  <2>1. CASE \A r \in Names : JobOf(r)' = JobOf(r) /\ RanOf(r)' = RanOf(r)
    BY <2>1 DEF Job!vars
  <2>2. ASSUME NEW r \in Names, Turn(JobOf(r), RanOf(r), JobOf(r)', RanOf(r)'),
               \A n \in Names : n # r => JobOf(n)' = JobOf(n) /\ RanOf(n)' = RanOf(n)
        PROVE  [Job!Next]_(Job!vars)
    BY <2>2, TurnIsStep
  <2>3. QED
    BY <2>1, <2>2, AgreementStep
<1>4. QED
  BY <1>1, <1>2, <1>3, AgreementInit, RestoreInvariant, PTL
     DEF RestoreSpec, RestoreIsOneShot, Job!Spec

-----------------------------------------------------------------------------
(* hasActiveRestoreForInstance.                                               *)

NoneDeleted == \A r \in Names : ~restore[r].deleting

(* Where users do not delete Restores, none is being deleted.                 *)
LEMMA NoneDeletedStep ==
  ASSUME ~MayDelete, RestoreInv, NoneDeleted, RestoreMoves
  PROVE  NoneDeleted'
<1> SUFFICES ASSUME NEW r \in Names PROVE ~restore'[r].deleting
  BY DEF NoneDeleted
<1>0. TypeInv /\ RestoreTypeOK /\ Bound(r) /\ ~restore[r].deleting /\ ~NoRestore.deleting
  BY AbsentFields DEF RestoreInv, TypeInv, NoneDeleted
<1>1. CASE UNCHANGED restore
  BY <1>0, <1>1
<1>2. CASE Own(r)
  <2>1. CASE SyncReport(r)
    BY <1>0, <2>1, SyncReportEffect DEF SyncReport, Bound, Current
  <2>2. CASE CleanupDone(r)
    BY <1>0, <2>2, CleanupDoneEffect
  <2>3. ASSUME NEW i \in Instances, NEW ds \in DataSource, CreateRestore(r, i, ds)
        PROVE  ~restore'[r].deleting
    BY <1>0, <2>3, CreateRestoreEffect
  <2>4. QED
    BY <1>1, <1>2, <2>1, <2>2, <2>3
       DEF Own, Handler, SyncRestore, SyncResolve, resolveRestoreSource,
     resolveBackupSource, resolvePointInTimeSource, SyncGetBase, SyncGet, SyncCreate, SyncPatch,
           CleanupRestore, CleanupGet, CleanupDelete, DeleteRestore, OperatorAdvances,
           OperatorFails, OperatorReleases, CollectOp, CacheCatchesUp
<1>3. ASSUME NEW n \in Names, Own(n), n # r PROVE restore'[r] = restore[r]
  BY <1>0, <1>3, OwnFrame DEF Still
<1>4. QED
  BY <1>0, <1>1, <1>2, <1>3, MoveCases

(* The Restore of an operator restore that is under way counts as active.     *)
LEMMA UnderWayIsActive ==
  ASSUME RestoreInv, Agreement, NoneDeleted
  PROVE  RunningRestoreIsActive
<1> SUFFICES ASSUME NEW r \in Names, Exists(op[r]), op[r].state \in RunningPhases
             PROVE  hasActiveRestoreForInstance(op[r].pxcCluster)
  BY DEF RunningRestoreIsActive
<1>1. Agreed(r) /\ Based(r) /\ ~restore[r].deleting
  BY DEF RestoreInv, Agreement, NoneDeleted
<1>2. Exists(restore[r]) /\ restore[r].instance = op[r].pxcCluster
  BY <1>1 DEF Agreed, Based
<1>3. restore[r].state \notin Terminal
  BY <1>1 DEF Agreed, Founded, Rejected, RunningPhases, Terminal
<1>4. QED
  BY <1>1, <1>2, <1>3 DEF hasActiveRestoreForInstance

(* While the operator rewrites the data of a cluster,                         *)
(* hasActiveRestoreForInstance answers true for its Instance, for any number  *)
(* of Restores and sources, as long as reads do not lag, nobody deletes a     *)
(* Restore, and no Backup or operator backup is deleted under one.            *)
THEOREM RunningRestoresAreActive ==
  ASSUME ~StaleReads, ~MayDelete, ~SourcesMayGo
  PROVE  RestoreSpec => []RunningRestoreIsActive
<1>1. RestoreInit => NoneDeleted
  BY AbsentFields DEF RestoreInit, NoneDeleted
<1>2. RestoreInv /\ Agreement /\ [RestoreNext]_restoreVars => Agreement'
  BY NextMoves, AgreementStep
<1>3. RestoreInv /\ NoneDeleted /\ [RestoreNext]_restoreVars => NoneDeleted'
  BY NextMoves, NoneDeletedStep
<1>4. RestoreInv /\ Agreement /\ NoneDeleted => RunningRestoreIsActive
  BY UnderWayIsActive
<1>5. QED
  BY <1>1, <1>2, <1>3, <1>4, AgreementInit, RestoreInvariant, PTL DEF RestoreSpec
=============================================================================
