-------------------------- MODULE PITRStreamProofs --------------------------
(* Theorems about PITRStream, for every finite set of backups, every set of   *)
(* storages and every length of time.                                         *)
EXTENDS PITRStream, FiniteSetTheorems, WellFoundedInduction, TLAPS

-----------------------------------------------------------------------------
(* Greatest elements.                                                         *)

(* A set of natural numbers below a bound has a greatest element.             *)
LEMMA HasGreatest ==
  ASSUME NEW bound \in Nat, NEW M, M \subseteq 0..bound, M # {}
  PROVE  \E m \in M : \A k \in M : k <= m
<1> DEFINE T == {bound - m : m \in M}
<1>1. T \subseteq Nat /\ T # {}
  <2>1. \A m \in M : bound - m \in Nat
    OBVIOUS
  <2>2. QED
    BY <2>1
<1>2. PICK x \in T : \A y \in T : ~(<<y, x>> \in OpToRel(<, Nat))
  BY <1>1, NatLessThanWellFounded, WFMin
<1>3. \A y \in T : ~(y < x)
  BY <1>1, <1>2 DEF OpToRel
<1>4. PICK m \in M : x = bound - m
  OBVIOUS
<1>5. ASSUME NEW k \in M PROVE k <= m
  <2>1. ~(bound - k < bound - m)
    BY <1>3, <1>4
  <2>2. QED
    BY <2>1
<1>6. QED
  BY <1>5

-----------------------------------------------------------------------------
(* The window of a list of backups.                                           *)

(* lastMarked finds the newest mark: none of the backups behind it has one.   *)
LEMMA LastMarked ==
  ASSUME NEW l \in Seq(OpBackup)
  PROVE  /\ lastMarked(l) \in 0..Len(l)
         /\ lastMarked(l) > 0 => gapCondition(l[lastMarked(l)])
         /\ \A i \in 1..Len(l) : i > lastMarked(l) => ~gapCondition(l[i])
<1> DEFINE Is(m) == /\ m > 0 => gapCondition(l[m])
                    /\ \A i \in (m + 1)..Len(l) : ~gapCondition(l[i])
           M == {i \in 1..Len(l) : gapCondition(l[i])}
<1>0. Len(l) \in Nat
  OBVIOUS
<1>1. \E m \in 0..Len(l) : Is(m)
  <2>1. CASE M = {}
    BY <1>0, <2>1
  <2>2. CASE M # {}
    <3>1. M \subseteq 0..Len(l)
      BY <1>0
    <3>2. PICK m \in M : \A k \in M : k <= m
      BY <1>0, <2>2, <3>1, HasGreatest
    <3>3. m \in 1..Len(l) /\ gapCondition(l[m])
      OBVIOUS
    <3>4. ASSUME NEW i \in (m + 1)..Len(l) PROVE ~gapCondition(l[i])
      <4>1. i \in 1..Len(l) /\ ~(i <= m)
        BY <1>0, <3>3
      <4>2. i \notin M
        BY <3>2, <4>1
      <4>3. QED
        BY <4>1, <4>2
    <3>5. QED
      BY <1>0, <3>3, <3>4
  <2>3. QED
    BY <2>1, <2>2
<1>2. lastMarked(l) = CHOOSE m \in 0..Len(l) : Is(m)
  BY DEF lastMarked
<1>3. lastMarked(l) \in 0..Len(l) /\ Is(lastMarked(l))
  BY <1>1, <1>2
<1>4. QED
  BY <1>0, <1>3

(* What is listed for a storage: its stream, all of it, oldest first.         *)
LEMMA ListOfStream ==
  ASSUME op \in [Names -> OpBackup], NEW s, NEW l \in collectStorageBackups(op, Instance, s)
  PROVE  /\ l \in Seq(OpBackup)
         /\ \A i \in 1..Len(l) : \E n \in Stream(s) : l[i] = op[n]
         /\ \A n \in Stream(s) : \E i \in 1..Len(l) : l[i] = op[n]
         /\ \A i, j \in 1..Len(l) : i < j => l[i].completedAt <= l[j].completedAt
<1> DEFINE mine == {n \in DOMAIN op : InStream(op[n], Instance, s)}
           size == Cardinality(mine)
<1>1. mine = Stream(s) /\ mine \subseteq Names
  BY DEF Stream
<1>2. size \in Nat
  BY <1>1, StreamAssumption, FS_Subset, FS_CardinalityType
<1>3. PICK o \in Orders(mine) : /\ l = [i \in 1..size |-> op[o[i]]]
                                /\ OldestFirst([i \in 1..size |-> op[o[i]]])
  BY DEF collectStorageBackups
<1>4. o \in [1..size -> mine] /\ \A n \in mine : \E i \in DOMAIN o : o[i] = n
  BY <1>3 DEF Orders
<1> HIDE DEF mine, size
<1>5. /\ DOMAIN l = 1..size /\ DOMAIN o = 1..size
      /\ \A i \in 1..size : l[i] = op[o[i]] /\ o[i] \in mine
  BY <1>3, <1>4
<1>6. l \in [1..size -> OpBackup]
  BY <1>1, <1>3, <1>4
<1>7. l \in Seq(OpBackup) /\ Len(l) = size
  BY <1>2, <1>6
<1>8. \A i, j \in 1..size : i < j => l[i].completedAt <= l[j].completedAt
  BY <1>3, <1>5 DEF OldestFirst
<1>9. QED
  BY <1>1, <1>4, <1>5, <1>7, <1>8

(* An available window begins with a backup of the stream, behind every mark, *)
(* and ends at a known time; the type of every window follows.                *)
LEMMA WindowOfStream ==
  ASSUME op \in [Names -> OpBackup], NEW s, NEW w \in Windows(s)
  PROVE  /\ w \in Window
         /\ w.state = "Available" =>
               \E n \in Stream(s) :
                  /\ w.earliest = op[n].completedAt /\ ~gapCondition(op[n])
                  /\ \A m \in Stream(s) : gapCondition(op[m]) =>
                        op[m].completedAt <= op[n].completedAt
<1>1. PICK l \in collectStorageBackups(op, Instance, s) : w = pitrWindow(l)
  BY DEF Windows
<1>2. /\ l \in Seq(OpBackup)
      /\ \A i \in 1..Len(l) : \E n \in Stream(s) : l[i] = op[n]
      /\ \A n \in Stream(s) : \E i \in 1..Len(l) : l[i] = op[n]
      /\ \A i, j \in 1..Len(l) : i < j => l[i].completedAt <= l[j].completedAt
  BY <1>1, ListOfStream
<1>3. /\ lastMarked(l) \in 0..Len(l) /\ Len(l) \in Nat
      /\ \A i \in 1..Len(l) : i > lastMarked(l) => ~gapCondition(l[i])
  BY <1>2, LastMarked
<1>4. CASE \/ w = Unavailable("NoRestorableBackup") \/ w = Unavailable("BinlogGapDetected")
  BY <1>4 DEF Unavailable, Window
<1>5. CASE /\ l # << >> /\ lastMarked(l) # Len(l) /\ l[Len(l)].latest # NoTime
           /\ w = [state |-> "Available", reason |-> "WindowAvailable",
                   earliest |-> l[lastMarked(l) + 1].completedAt,
                   latest |-> l[Len(l)].latest]
  <2> DEFINE k == lastMarked(l) + 1
  <2>1. k \in 1..Len(l) /\ Len(l) \in 1..Len(l) /\ k > lastMarked(l)
    BY <1>3, <1>5
  <2> HIDE DEF k
  <2>2. PICK n \in Stream(s) : l[k] = op[n]
    BY <1>2, <2>1
  <2>3. op[n].completedAt \in Time
    BY <2>2 DEF Stream, InStream, OpBackup
  <2>4. l[Len(l)] \in OpBackup
    BY <1>2, <2>1
  <2>5. l[Len(l)].latest \in Time
    BY <1>5, <2>4 DEF OpBackup
  <2>6. w.earliest = op[n].completedAt /\ w.latest = l[Len(l)].latest
    BY <1>5, <2>2 DEF k
  <2>7. w \in Window
    BY <1>5, <2>2, <2>3, <2>5 DEF Window, k
  <2>8. ~gapCondition(op[n])
    BY <1>3, <2>1, <2>2
  <2>9. ASSUME NEW m \in Stream(s), gapCondition(op[m])
        PROVE  op[m].completedAt <= op[n].completedAt
    <3>1. PICK i \in 1..Len(l) : l[i] = op[m]
      BY <1>2
    <3>2. ~(i > lastMarked(l))
      BY <1>3, <2>9, <3>1
    <3>3. i < k
      BY <1>3, <3>2 DEF k
    <3>4. QED
      BY <1>2, <2>1, <2>2, <3>1, <3>3
  <2>10. QED
    BY <2>6, <2>7, <2>8, <2>9
<1>6. QED
  BY <1>1, <1>4, <1>5 DEF pitrWindow

-----------------------------------------------------------------------------
(* The steps.                                                                 *)

(* The steps of the operator, on the one backup that each is about.           *)
OpStep(n) ==
    BackupStarts(n) \/ BackupEnds(n) \/ BackupRemoved(n) \/ CollectorReports(n) \/ GapDetected(n)

(* A backup begins or goes.                                                   *)
LEMMA CleanEffect ==
  ASSUME TypeOK, NEW n \in Names, BackupStarts(n) \/ BackupRemoved(n)
  PROVE  /\ op'[n] \in OpBackup /\ op'[n].storage = op[n].storage
         /\ op'[n].state # "Succeeded" /\ op'[n].completedAt = NoTime
         /\ UNCHANGED <<clock, cr, window, gaps>>
<1>0. op[n] \in OpBackup
  BY DEF TypeOK
<1>1. /\ NoBackup(op[n].storage) \in OpBackup
      /\ [NoBackup(op[n].storage) EXCEPT !.state = "Running"] \in OpBackup
  BY <1>0 DEF NoBackup, OpBackup, PITRReadyStatus
<1>2. op'[n] \in {NoBackup(op[n].storage), [NoBackup(op[n].storage) EXCEPT !.state = "Running"]}
  BY DEF BackupStarts, BackupRemoved, TypeOK
<1>3. QED
  BY <1>1, <1>2 DEF BackupStarts, BackupRemoved, NoBackup

(* A backup ends.                                                             *)
LEMMA EndEffect ==
  ASSUME TypeOK, NEW n \in Names, BackupEnds(n)
  PROVE  /\ op'[n] \in OpBackup /\ op'[n].storage = op[n].storage
         /\ op[n].state = "Running"
         /\ \/ op'[n].state = "Failed" /\ op'[n].completedAt = op[n].completedAt
            \/ /\ op'[n].state = "Succeeded" /\ op'[n].completedAt = clock
               /\ ~SameSecond => clock \notin CompletionTimes
         /\ UNCHANGED <<clock, cr, window, gaps>>
<1>0. op[n] \in OpBackup /\ clock \in Time
  BY DEF TypeOK
<1>1. CASE op' = [op EXCEPT ![n].state = "Failed"]
  <2>1. op'[n] = [op[n] EXCEPT !.state = "Failed"]
    BY <1>1 DEF TypeOK
  <2>2. /\ op'[n] \in OpBackup /\ op'[n].storage = op[n].storage
        /\ op'[n].state = "Failed" /\ op'[n].completedAt = op[n].completedAt
    BY <1>0, <2>1 DEF OpBackup
  <2>3. QED
    BY <2>2 DEF BackupEnds
<1>2. CASE /\ op' = [op EXCEPT ![n].state = "Succeeded", ![n].completedAt = clock]
           /\ ~SameSecond => clock \notin CompletionTimes
  <2>1. op'[n] = [op[n] EXCEPT !.state = "Succeeded", !.completedAt = clock]
    BY <1>2 DEF TypeOK
  <2>2. /\ op'[n] \in OpBackup /\ op'[n].storage = op[n].storage
        /\ op'[n].state = "Succeeded" /\ op'[n].completedAt = clock
    BY <1>0, <2>1 DEF OpBackup
  <2>3. QED
    BY <1>2, <2>2 DEF BackupEnds
<1>3. QED
  BY <1>1, <1>2 DEF BackupEnds

(* The newest backup is stamped with the end of the stream, or marked.        *)
LEMMA StampEffect ==
  ASSUME TypeOK, NEW n \in Names, CollectorReports(n) \/ GapDetected(n)
  PROVE  /\ op'[n] \in OpBackup /\ n \in Stream(op[n].storage)
         /\ op'[n].storage = op[n].storage /\ op'[n].cluster = op[n].cluster
         /\ op'[n].state = op[n].state /\ op'[n].completedAt = op[n].completedAt
         /\ gapCondition(op[n]) => gapCondition(op'[n])
         /\ \/ UNCHANGED gaps
            \/ /\ gapCondition(op'[n])
               /\ gaps' = [gaps EXCEPT ![op[n].storage] = @ \cup {op[n].completedAt}]
         /\ UNCHANGED <<clock, cr, window>>
<1>0. op[n] \in OpBackup /\ clock \in Time
  BY DEF TypeOK
<1>1. n \in Stream(op[n].storage)
  BY DEF CollectorReports, GapDetected, Newest
<1>2. CASE CollectorReports(n)
  <2>1. op'[n] = [op[n] EXCEPT !.latest = clock] /\ UNCHANGED <<clock, cr, window, gaps>>
    BY <1>2 DEF CollectorReports, TypeOK
  <2>2. /\ op'[n] \in OpBackup /\ op'[n].pitrReady = op[n].pitrReady
        /\ op'[n].storage = op[n].storage /\ op'[n].cluster = op[n].cluster
        /\ op'[n].state = op[n].state /\ op'[n].completedAt = op[n].completedAt
    BY <1>0, <2>1 DEF OpBackup
  <2>3. QED
    BY <1>1, <2>1, <2>2 DEF gapCondition
<1>3. CASE GapDetected(n)
  <2>1. op'[n] = [op[n] EXCEPT !.pitrReady = "False"] /\ UNCHANGED <<clock, cr, window>>
    BY <1>3 DEF GapDetected, TypeOK
  <2>2. /\ op'[n] \in OpBackup /\ op'[n].pitrReady = "False"
        /\ op'[n].storage = op[n].storage /\ op'[n].cluster = op[n].cluster
        /\ op'[n].state = op[n].state /\ op'[n].completedAt = op[n].completedAt
    BY <1>0, <2>1 DEF OpBackup, PITRReadyStatus
  <2>3. QED
    BY <1>1, <1>3, <2>1, <2>2 DEF gapCondition, GapDetected
<1>4. QED
  BY <1>2, <1>3

(* The other backups.                                                         *)
LEMMA OpFrame ==
  ASSUME TypeOK, NEW n \in Names, OpStep(n)
  PROVE  /\ \A m \in Names : m # n => op'[m] = op[m]
         /\ op' = [m \in Names |-> op'[m]]
  BY DEF TypeOK, OpStep, BackupStarts, BackupEnds, BackupRemoved, CollectorReports, GapDetected

(* The window of every storage is one of those the listed backups allow.      *)
LEMMA Published ==
  ASSUME TypeOK, BackupStorageStatuses
  PROVE  /\ \A s \in PITRStorages : window'[s] \in Windows(s)
         /\ window' \in [PITRStorages -> Window]
<1>1. /\ DOMAIN window' = PITRStorages /\ window' = [s \in PITRStorages |-> window'[s]]
      /\ \A s \in PITRStorages : window'[s] \in Windows(s)
  BY DEF BackupStorageStatuses
<1>2. \A s \in PITRStorages : window'[s] \in Window
  BY <1>1, WindowOfStream DEF TypeOK
<1>3. QED
  BY <1>1, <1>2

(* The initial states, and each step, keep the types.                         *)
LEMMA StreamTypesInit == Init => TypeOK
<1> SUFFICES ASSUME Init PROVE TypeOK
  OBVIOUS
<1>1. PICK s \in [Names -> Storages] :
         op = [n \in Names |-> NoBackup(s[n])] /\ cr = [n \in Names |-> NoCR(s[n])]
  BY DEF Init
<1>2. \A t \in Storages : NoBackup(t) \in OpBackup /\ NoCR(t) \in BackupCR
  BY DEF NoBackup, NoCR, OpBackup, BackupCR, PITRReadyStatus
<1>3. op \in [Names -> OpBackup] /\ cr \in [Names -> BackupCR]
  BY <1>1, <1>2
<1>4. Unavailable("NoRestorableBackup") \in Window
  BY DEF Unavailable, Window
<1>5. clock \in Time
  BY StreamAssumption DEF Init, Time
<1>6. QED
  BY <1>3, <1>4, <1>5 DEF Init, TypeOK

LEMMA StreamTypesStep ==
  ASSUME TypeOK, [Next]_vars
  PROVE  TypeOK'
<1>0. MaxTime \in Nat
  BY StreamAssumption
<1>1. CASE Tick
  BY <1>0, <1>1 DEF Tick, TypeOK, Time
<1>2. CASE BackupStorageStatuses
  BY <1>2, Published DEF BackupStorageStatuses, TypeOK
<1>3. ASSUME NEW n \in Names, OpStep(n) PROVE TypeOK'
  <2>1. op'[n] \in OpBackup /\ UNCHANGED <<clock, cr, window>>
    BY <1>3, CleanEffect, EndEffect, StampEffect DEF OpStep
  <2>2. op' \in [Names -> OpBackup]
    BY <1>3, <2>1, OpFrame DEF TypeOK
  <2>3. gaps' \in [Storages -> SUBSET Time]
    <3>1. op[n].storage \in Storages /\ op[n].completedAt \in Time \cup {NoTime}
      BY DEF TypeOK, OpBackup
    <3>2. CASE UNCHANGED gaps
      BY <3>2 DEF TypeOK
    <3>3. CASE GapDetected(n)
      <4>1. op[n].completedAt \in Time
        BY <3>1, <3>3, StampEffect DEF Stream, InStream
      <4>2. QED
        BY <3>1, <3>3, <4>1 DEF GapDetected, TypeOK
    <3>4. QED
      BY <1>3, <3>2, <3>3, CleanEffect, EndEffect DEF OpStep, CollectorReports
  <2>4. QED
    BY <2>1, <2>2, <2>3 DEF TypeOK
<1>4. ASSUME NEW n \in Names, SyncBackupStatus(n) PROVE TypeOK'
  <2>1. op[n] \in OpBackup
    BY DEF TypeOK
  <2>2. Reported(op[n]) \in BackupCR
    BY <2>1 DEF Reported, OpBackup, BackupCR
  <2>3. QED
    BY <1>4, <2>2 DEF SyncBackupStatus, TypeOK
<1>5. CASE UNCHANGED vars
  BY <1>5 DEF vars, TypeOK
<1>6. QED
  BY <1>1, <1>2, <1>3, <1>4, <1>5 DEF Next, OpStep

(* What every variable holds is of its type; above all, an available window   *)
(* has both of its ends, whatever is completed, marked and removed.           *)
THEOREM StreamTypeCorrect == Spec => []TypeOK
<1>1. TypeOK /\ [Next]_vars => TypeOK'
  BY StreamTypesStep
<1>2. QED
  BY <1>1, StreamTypesInit, PTL DEF Spec

-----------------------------------------------------------------------------
(* The marks that were ever set.                                              *)

(* No two backups complete at the same time, and no completion, present or    *)
(* remembered as a mark, lies in the future.                                  *)
Distinct ==
    \A m, n \in Names :
       op[m].completedAt # NoTime /\ op[m].completedAt = op[n].completedAt => m = n

Past ==
    /\ \A n \in Names : op[n].completedAt # NoTime => op[n].completedAt <= clock
    /\ \A s \in Storages : \A g \in gaps[s] : g <= clock

(* A mark is still there for pitrWindow to see, on the backup that completed  *)
(* at that time, or the whole stream is newer than it. gaps is history that   *)
(* the code does not keep: this is what makes the listed backups enough.      *)
Carries(n, s, g) == n \in Stream(s) /\ op[n].completedAt = g /\ gapCondition(op[n])

Outlived(s, g) == \A n \in Stream(s) : op[n].completedAt > g

Remembered ==
    \A s \in Storages : \A g \in gaps[s] :
       (\E n \in Names : Carries(n, s, g)) \/ Outlived(s, g)

StreamInv == TypeOK /\ Distinct /\ Past /\ Remembered

(* A member of a stream has a completion time.                                *)
LEMMA StreamTimes ==
  ASSUME TypeOK, NEW s, NEW n \in Stream(s)
  PROVE  /\ n \in Names /\ op[n].completedAt \in Time /\ op[n].completedAt # NoTime
         /\ op[n].storage = s /\ op[n].completedAt \in Int
  BY StreamAssumption DEF TypeOK, Stream, InStream, OpBackup, Time

LEMMA StreamInvInit == Init => StreamInv
<1> SUFFICES ASSUME Init PROVE StreamInv
  OBVIOUS
<1>1. TypeOK
  BY StreamTypesInit
<1>2. \A n \in Names : op[n].completedAt = NoTime
  BY DEF Init, NoBackup
<1>3. \A s \in Storages : gaps[s] = {}
  BY DEF Init
<1>4. QED
  BY <1>1, <1>2, <1>3 DEF StreamInv, Distinct, Past, Remembered

(* A completion time that appears is the present, and new.                    *)
LEMMA NewTimes ==
  ASSUME StreamInv, NEW n \in Names, OpStep(n), ~SameSecond
  PROVE  \/ op'[n].completedAt \in {NoTime, op[n].completedAt}
         \/ /\ op'[n].completedAt = clock
            /\ \A m \in Names : op[m].completedAt # clock
            /\ \A s \in Storages : clock \notin gaps[s]
<1>1. TypeOK
  BY DEF StreamInv
<1>2. CASE BackupEnds(n)
  BY <1>1, <1>2, EndEffect DEF CompletionTimes
<1>3. CASE ~BackupEnds(n)
  BY <1>1, <1>3, CleanEffect, StampEffect DEF OpStep
<1>4. QED
  BY <1>2, <1>3

LEMMA DistinctStep ==
  ASSUME StreamInv, NEW n \in Names, OpStep(n), ~SameSecond
  PROVE  Distinct'
<1>1. \A m \in Names : m # n => op'[m] = op[m]
  BY OpFrame DEF StreamInv
<1>2. QED
  BY <1>1, NewTimes DEF StreamInv, Distinct

LEMMA PastStep ==
  ASSUME StreamInv, NEW n \in Names, OpStep(n), ~SameSecond
  PROVE  Past'
<1>0. TypeOK /\ clock \in Int
  BY StreamAssumption DEF StreamInv, TypeOK, Time
<1>1. clock' = clock
  BY <1>0, CleanEffect, EndEffect, StampEffect DEF OpStep
<1>2. \A m \in Names : m # n => op'[m] = op[m]
  BY <1>0, OpFrame
<1>3. ASSUME NEW m \in Names, op'[m].completedAt # NoTime
      PROVE  op'[m].completedAt <= clock
  BY <1>0, <1>2, <1>3, NewTimes DEF StreamInv, Past
<1>4. ASSUME NEW s \in Storages, NEW g \in gaps'[s] PROVE g <= clock
  <2>1. CASE UNCHANGED gaps
    BY <1>4, <2>1 DEF StreamInv, Past
  <2>2. CASE gaps' = [gaps EXCEPT ![op[n].storage] = @ \cup {op[n].completedAt}]
             /\ n \in Stream(op[n].storage)
    <3>1. g \in gaps[s] \/ g = op[n].completedAt
      BY <1>0, <1>4, <2>2 DEF TypeOK
    <3>2. op[n].completedAt <= clock
      BY <1>0, <2>2, StreamTimes DEF StreamInv, Past
    <3>3. QED
      BY <3>1, <3>2 DEF StreamInv, Past
  <2>3. QED
    BY <1>0, <2>1, <2>2, CleanEffect, EndEffect, StampEffect DEF OpStep
<1>5. QED
  BY <1>1, <1>3, <1>4 DEF Past

(* A backup that a step is not about stays in its stream.                     *)
LEMMA OthersInStream ==
  ASSUME TypeOK, NEW n \in Names, OpStep(n), NEW m \in Names, m # n, NEW s
  PROVE  /\ (m \in Stream(s))' <=> m \in Stream(s)
         /\ \A g : Carries(m, s, g)' <=> Carries(m, s, g)
<1>1. op'[m] = op[m]
  BY OpFrame
<1>2. QED
  BY <1>1 DEF Stream, Carries, gapCondition

LEMMA RememberedStep ==
  ASSUME StreamInv, NEW n \in Names, OpStep(n), ~SameSecond, ~MarkedMayGo
  PROVE  Remembered'
<1> SUFFICES ASSUME NEW s \in Storages, NEW g \in gaps'[s],
                    ~ \E m \in Names : Carries(m, s, g)',
                    NEW k \in Names, (k \in Stream(s))'
             PROVE  op'[k].completedAt > g
  BY DEF Remembered, Outlived, Stream
<1>0. TypeOK /\ clock \in Int
  BY StreamAssumption DEF StreamInv, TypeOK, Time
<1>1. \A m \in Names : m # n => op'[m] = op[m]
  BY <1>0, OpFrame
<1>2. CASE BackupStarts(n) \/ BackupRemoved(n)
  <2>1. op'[n].state # "Succeeded" /\ gaps' = gaps
    BY <1>0, <1>2, CleanEffect
  <2>2. k # n /\ k \in Stream(s) /\ op'[k] = op[k]
    BY <1>0, <1>1, <2>1, OthersInStream DEF Stream, InStream
  <2>3. CASE Outlived(s, g)
    BY <2>2, <2>3 DEF Outlived
  <2>4. CASE \E m \in Names : Carries(m, s, g)
    <3>1. Carries(n, s, g)
      BY <1>0, <2>4, OthersInStream
    <3>2. op[n].storage = s /\ op[n].state = "Succeeded"
      BY <3>1 DEF Carries, Stream, InStream
    <3>3. BackupRemoved(n)
      BY <1>2, <3>2 DEF BackupStarts
    <3>4. op[k].completedAt >= op[n].completedAt
      BY <2>2, <3>1, <3>2, <3>3 DEF BackupRemoved, Carries
    <3>5. op[k].completedAt # op[n].completedAt
      BY <1>0, <2>2, StreamTimes DEF StreamInv, Distinct
    <3>6. op[k].completedAt \in Int /\ op[n].completedAt \in Int
      BY <1>0, <2>2, <3>1, StreamTimes DEF Carries
    <3>7. QED
      BY <2>2, <3>1, <3>4, <3>5, <3>6 DEF Carries
  <2>5. QED
    BY <2>1, <2>3, <2>4 DEF StreamInv, Remembered
<1>3. CASE BackupEnds(n)
  <2>1. op[n].state = "Running" /\ gaps' = gaps
    BY <1>0, <1>3, EndEffect
  <2>2. n \notin Stream(s)
    BY <2>1 DEF Stream, InStream
  <2>3. Outlived(s, g)
    <3>1. ~ \E m \in Names : Carries(m, s, g)
      BY <1>0, <2>2, OthersInStream DEF Carries
    <3>2. QED
      BY <2>1, <3>1 DEF StreamInv, Remembered
  <2>4. CASE k # n
    BY <1>0, <1>1, <2>3, <2>4, OthersInStream DEF Outlived
  <2>5. CASE k = n
    <3>1. op'[n].state = "Succeeded"
      BY <2>5 DEF Stream, InStream
    <3>2. op'[n].completedAt = clock /\ clock \notin CompletionTimes
      BY <1>0, <1>3, <3>1, EndEffect
    <3>3. g # clock /\ g <= clock /\ g \in Int
      BY <2>1, <3>2, StreamAssumption DEF CompletionTimes, StreamInv, Past, TypeOK, Time
    <3>4. QED
      BY <1>0, <2>5, <3>2, <3>3
  <2>6. QED
    BY <2>4, <2>5
<1>4. CASE CollectorReports(n) \/ GapDetected(n)
  <2>1. /\ n \in Stream(op[n].storage)
        /\ op'[n].storage = op[n].storage /\ op'[n].cluster = op[n].cluster
        /\ op'[n].state = op[n].state /\ op'[n].completedAt = op[n].completedAt
        /\ gapCondition(op[n]) => gapCondition(op'[n])
    BY <1>0, <1>4, StampEffect
  <2>2. \A t : (n \in Stream(t))' <=> n \in Stream(t)
    BY <2>1 DEF Stream, InStream
  <2>3. \A m \in Names : Carries(m, s, g) => Carries(m, s, g)'
    <3>1. Carries(n, s, g) => Carries(n, s, g)'
      BY <2>1, <2>2 DEF Carries
    <3>2. QED
      BY <1>0, <3>1, OthersInStream
  <2>4. g \in gaps[s]
    <3>1. CASE UNCHANGED gaps
      BY <3>1
    <3>2. CASE /\ gapCondition(op'[n])
               /\ gaps' = [gaps EXCEPT ![op[n].storage] = @ \cup {op[n].completedAt}]
      <4>1. ~Carries(n, s, g)'
        OBVIOUS
      <4>2. ~(s = op[n].storage /\ g = op[n].completedAt)
        BY <2>1, <2>2, <3>2, <4>1 DEF Carries
      <4>3. QED
        BY <1>0, <3>2, <4>2 DEF TypeOK
    <3>3. QED
      BY <1>0, <1>4, <3>1, <3>2, StampEffect
  <2>5. Outlived(s, g)
    BY <2>3, <2>4 DEF StreamInv, Remembered
  <2>6. k \in Stream(s) /\ op'[k].completedAt = op[k].completedAt
    BY <1>0, <1>1, <2>1, <2>2, OthersInStream
  <2>7. QED
    BY <2>5, <2>6 DEF Outlived
<1>5. QED
  BY <1>2, <1>3, <1>4 DEF OpStep

LEMMA StreamInvStep ==
  ASSUME StreamInv, [Next]_vars, ~SameSecond, ~MarkedMayGo
  PROVE  StreamInv'
<1>1. TypeOK'
  BY StreamTypesStep DEF StreamInv
<1>2. CASE UNCHANGED <<op, gaps>> /\ (UNCHANGED clock \/ Tick)
  <2>1. Distinct' /\ Remembered'
    BY <1>2 DEF StreamInv, Distinct, Remembered, Carries, Outlived, Stream
  <2>2. clock \in Int /\ clock' \in Int /\ clock <= clock'
    BY <1>2, StreamAssumption DEF StreamInv, TypeOK, Time, Tick
  <2>3. \A n \in Names : op[n].completedAt # NoTime => op[n].completedAt \in Int
    BY StreamAssumption DEF StreamInv, TypeOK, OpBackup, Time
  <2>4. \A s \in Storages : \A g \in gaps[s] : g \in Int
    BY StreamAssumption DEF StreamInv, TypeOK, Time
  <2>5. Past'
    BY <1>2, <2>2, <2>3, <2>4 DEF StreamInv, Past
  <2>6. QED
    BY <1>1, <2>1, <2>5 DEF StreamInv
<1>3. ASSUME NEW n \in Names, OpStep(n) PROVE StreamInv'
  BY <1>1, <1>3, DistinctStep, PastStep, RememberedStep DEF StreamInv
<1>4. QED
  BY <1>2, <1>3 DEF Next, OpStep, Tick, BackupStorageStatuses, SyncBackupStatus, vars

(* The invariant holds as long as completion times differ by a second and a   *)
(* marked backup is removed after the older ones, as retention does.          *)
LEMMA StreamInvHolds ==
  ASSUME ~SameSecond, ~MarkedMayGo
  PROVE  Spec => []StreamInv
<1>1. StreamInv /\ [Next]_vars => StreamInv'
  BY StreamInvStep
<1>2. QED
  BY <1>1, StreamInvInit, PTL DEF Spec

-----------------------------------------------------------------------------
(* What the windows promise.                                                  *)

(* The backup that a published window begins with is newer than every mark.   *)
LEMMA WindowStart ==
  ASSUME StreamInv, BackupStorageStatuses,
         NEW s \in PITRStorages, window'[s].state = "Available"
  PROVE  \E n \in Stream(s) : /\ window'[s].earliest = op[n].completedAt
                              /\ \A g \in gaps[s] : g < op[n].completedAt
<1>0. TypeOK /\ s \in Storages /\ op \in [Names -> OpBackup]
  BY StreamAssumption DEF StreamInv, TypeOK
<1>1. window'[s] \in Windows(s)
  BY <1>0, Published
<1>2. PICK n \in Stream(s) :
         /\ window'[s].earliest = op[n].completedAt /\ ~gapCondition(op[n])
         /\ \A m \in Stream(s) : gapCondition(op[m]) => op[m].completedAt <= op[n].completedAt
  BY <1>0, <1>1, WindowOfStream
<1>3. ASSUME NEW g \in gaps[s] PROVE g < op[n].completedAt
  <2>0. g \in Int /\ op[n].completedAt \in Int
    BY <1>0, StreamTimes, StreamAssumption DEF TypeOK, Time
  <2>1. CASE \E m \in Names : Carries(m, s, g)
    <3>1. PICK m \in Names : Carries(m, s, g)
      BY <2>1
    <3>2. m \in Stream(s) /\ op[m].completedAt = g /\ gapCondition(op[m])
      BY <3>1 DEF Carries
    <3>3. g <= op[n].completedAt /\ m # n
      BY <1>2, <3>2
    <3>4. g # op[n].completedAt
      BY <1>0, <3>2, <3>3, StreamTimes DEF StreamInv, Distinct
    <3>5. QED
      BY <2>0, <3>3, <3>4
  <2>2. CASE Outlived(s, g)
    BY <2>0, <2>2 DEF Outlived
  <2>3. QED
    BY <1>0, <2>1, <2>2 DEF StreamInv, Remembered
<1>4. QED
  BY <1>2, <1>3

(* A window that pitrWindow publishes begins after every backup that was ever *)
(* marked with a gap, even one that is gone since. Both hypotheses are        *)
(* needed: equal completion times leave the order of the list to sort.Slice,  *)
(* and a marked backup that goes before an older one takes the mark with it.  *)
THEOREM WindowsSpanNoGap ==
  ASSUME ~SameSecond, ~MarkedMayGo
  PROVE  Spec => PublishedWindowSpansNoGap
<1> DEFINE Clean == \A s \in PITRStorages :
                       window'[s] # window[s] /\ window'[s].state = "Available"
                          => \A g \in gaps[s] : g < window'[s].earliest
<1>1. StreamInv /\ [Next]_vars => [Clean]_vars
  <2> SUFFICES ASSUME StreamInv, [Next]_vars PROVE Clean
    OBVIOUS
  <2>1. CASE BackupStorageStatuses
    BY <2>1, WindowStart
  <2>2. CASE UNCHANGED window
    BY <2>2
  <2>3. QED
    BY <2>1, <2>2 DEF Next, vars, Tick, BackupStarts, BackupEnds, BackupRemoved,
                      CollectorReports, GapDetected, SyncBackupStatus
<1>2. QED
  BY <1>1, StreamInvHolds, PTL DEF Spec, PublishedWindowSpansNoGap

(* The candidates for a base are Backups with a completion time up to the     *)
(* date, and a backup of the stream whose Backup has been reported is one.    *)
LEMMA Candidates ==
  ASSUME TypeOK, NEW s, NEW d \in Int
  PROVE  /\ \A n \in PITRCandidates(cr, Instance, s, d) : cr[n].completedAt \in Time
         /\ \A n \in Stream(s) : cr[n] = Reported(op[n]) /\ op[n].completedAt <= d
               => /\ n \in PITRCandidates(cr, Instance, s, d)
                  /\ cr[n].completedAt = op[n].completedAt
<1>1. DOMAIN cr = Names /\ \A n \in Names : cr[n] \in BackupCR
  BY DEF TypeOK
<1>2. \A n \in PITRCandidates(cr, Instance, s, d) : cr[n].completedAt \in Time
  BY <1>1 DEF PITRCandidates, BackupCR
<1>3. ASSUME NEW n \in Stream(s), cr[n] = Reported(op[n]), op[n].completedAt <= d
      PROVE  /\ n \in PITRCandidates(cr, Instance, s, d)
             /\ cr[n].completedAt = op[n].completedAt
  <2>1. /\ n \in Names /\ op[n].cluster = Instance /\ op[n].storage = s
        /\ op[n].state = "Succeeded" /\ op[n].completedAt # NoTime
    BY DEF Stream, InStream
  <2>2. /\ cr[n].instance = Instance /\ cr[n].storage = s
        /\ cr[n].state = "Succeeded" /\ cr[n].completedAt = op[n].completedAt
    BY <1>3, <2>1 DEF Reported
  <2>3. QED
    BY <1>1, <1>3, <2>1, <2>2 DEF PITRCandidates
<1>4. QED
  BY <1>2, <1>3

(* As soon as the Backup that a published window begins with is reported,     *)
(* every point of the window has a base, and from each base the code may      *)
(* choose the replay crosses no gap. The other Backups may lag behind the     *)
(* operator as they like: a base is never older than the window's start.      *)
THEOREM ReportedStartsAreRestorable ==
  ASSUME ~SameSecond, ~MarkedMayGo
  PROVE  Spec => ReportedStartIsRestorable
<1> DEFINE Kept ==
       BackupStorageStatuses =>
          \A s \in PITRStorages : StartReported(s) =>
             \A d \in Points(window'[s]) : Restorable(s, d)
<1>1. StreamInv /\ [Next]_vars => [Kept]_vars
  <2> SUFFICES ASSUME StreamInv, BackupStorageStatuses,
                      NEW s \in PITRStorages, StartReported(s), NEW d \in Points(window'[s])
               PROVE  Restorable(s, d)
    OBVIOUS
  <2> DEFINE C == PITRCandidates(cr, Instance, s, d)
             T == {cr[n].completedAt : n \in C}
  <2>0. TypeOK /\ MaxTime \in Nat /\ s \in Storages
    BY StreamAssumption DEF StreamInv
  <2>1. window'[s].state = "Available" /\ d \in window'[s].earliest..window'[s].latest
    BY DEF Points
  <2>2. \A g \in gaps[s] : g < window'[s].earliest
    BY <2>1, WindowStart
  <2>3. PICK b \in Stream(s) : /\ op[b].completedAt = window'[s].earliest
                               /\ cr[b] = Reported(op[b])
    BY DEF StartReported
  <2>4. op[b].completedAt \in Int /\ d \in Int /\ op[b].completedAt <= d
    <3>1. op[b].completedAt \in Int
      BY <2>0, StreamTimes
    <3>2. window'[s] \in Window
      BY <2>0, Published
    <3>3. window'[s].latest \in Int
      BY <2>0, <2>1, <3>2 DEF Window, Time
    <3>4. QED
      BY <2>1, <2>3, <3>1, <3>3
  <2>5. /\ \A n \in C : cr[n].completedAt \in Time
        /\ b \in C /\ cr[b].completedAt = op[b].completedAt
    BY <2>0, <2>3, <2>4, Candidates
  <2>6. selectPITRBaseBackup(cr, Instance, s, d) =
           {n \in C : \A m \in C : cr[m].completedAt <= cr[n].completedAt}
    BY DEF selectPITRBaseBackup
  <2> HIDE DEF C
  <2>7. T \subseteq 0..MaxTime /\ T # {}
    BY <2>5 DEF Time
  <2>8. PICK t \in T : \A k \in T : k <= t
    BY <2>0, <2>7, HasGreatest
  <2>9. PICK x \in C : t = cr[x].completedAt
    OBVIOUS
  <2>10. x \in selectPITRBaseBackup(cr, Instance, s, d)
    BY <2>6, <2>8, <2>9
  <2>11. ASSUME NEW n \in selectPITRBaseBackup(cr, Instance, s, d), NEW g \in gaps[s]
         PROVE  g < cr[n].completedAt
    <3>1. n \in C /\ op[b].completedAt <= cr[n].completedAt
      BY <2>5, <2>6
    <3>2. g < op[b].completedAt
      BY <2>2, <2>3
    <3>3. g \in Int /\ cr[n].completedAt \in Int
      BY <2>0, <2>5, <3>1 DEF TypeOK, Time
    <3>4. QED
      BY <2>4, <3>1, <3>2, <3>3
  <2>12. QED
    BY <2>10, <2>11 DEF Restorable
<1>2. QED
  BY <1>1, StreamInvHolds, PTL DEF Spec, ReportedStartIsRestorable
=============================================================================
