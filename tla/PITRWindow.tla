----------------------------- MODULE PITRWindow -----------------------------
(* The pure algorithms of point-in-time recovery.                             *)
(*                                                                            *)
(*   internal/provider/backup_status.go  the window published per storage      *)
(*   internal/provider/backup.go         the base backup a restore starts from *)
(*                                                                            *)
(* An operator backup is a record                                             *)
(*   [cluster, storage, state, completedAt, pitrReady, latest]                *)
(* and a Backup custom resource a record                                      *)
(*   [instance, storage, state, completedAt].                                 *)
(* Times are natural numbers (seconds: metav1.Time has no finer grain);        *)
(* NoTime stands for a nil *metav1.Time.                                      *)
EXTENDS Integers, Sequences, FiniteSets

CONSTANT NoTime

ASSUME NoTimeAssumption == NoTime \notin Int

(* The PITRReady condition of an operator backup: missing, or its status.     *)
PITRReadyStatus == {"Missing", "True", "False"}

(* Only PITRReady=False says that the binlog stream is broken after b.        *)
gapCondition(b) == b.pitrReady = "False"

(* The Succeeded backups of one cluster on one storage, oldest first.         *)
(* sort.Slice is not stable and compares whole seconds only: every order that *)
(* the comparison allows is a possible result.                                *)
InStream(b, cluster, storage) ==
    /\ b.cluster = cluster
    /\ b.storage = storage
    /\ b.state = "Succeeded"
    /\ b.completedAt # NoTime

OldestFirst(s) ==
    \A i, j \in DOMAIN s : i < j => s[i].completedAt <= s[j].completedAt

Orders(S) == {s \in [1..Cardinality(S) -> S] : \A b \in S : \E i \in DOMAIN s : s[i] = b}

collectStorageBackups(all, cluster, storage) ==
    LET mine == {n \in DOMAIN all : InStream(all[n], cluster, storage)}
    IN  {[i \in 1..Cardinality(mine) |-> all[o[i]]] :
            o \in {o \in Orders(mine) :
                      OldestFirst([i \in 1..Cardinality(mine) |-> all[o[i]]])}}

(* Mutant of lastMarked: the loop stops at the first mark.                    *)
firstMarked(backups) ==
    CHOOSE m \in 0..Len(backups) :
        /\ m > 0 => gapCondition(backups[m])
        /\ m = 0 => \A i \in 1..Len(backups) : ~gapCondition(backups[i])
        /\ \A i \in 1..(m - 1) : ~gapCondition(backups[i])

(* The index of the newest backup that carries a gap mark, 0 when none does   *)
(* (Go's -1: sequences start at 1).                                           *)
lastMarked(backups) ==
    CHOOSE m \in 0..Len(backups) :
        /\ m > 0 => gapCondition(backups[m])
        /\ \A i \in (m + 1)..Len(backups) : ~gapCondition(backups[i])

Unavailable(reason) ==
    [state |-> "Unavailable", reason |-> reason, earliest |-> NoTime, latest |-> NoTime]

(* Mutant of pitrWindow: publishes a window whose end is not known yet.       *)
pitrWindowOpenEnded(backups) ==
    IF backups = << >>
    THEN Unavailable("NoRestorableBackup")
    ELSE IF lastMarked(backups) = Len(backups)
    THEN Unavailable("BinlogGapDetected")
    ELSE [state    |-> "Available",
          reason   |-> "WindowAvailable",
          earliest |-> backups[lastMarked(backups) + 1].completedAt,
          latest   |-> backups[Len(backups)].latest]

(* The recovery window: from the oldest backup newer than every marked one to *)
(* the end that the operator has stamped on the newest backup.                *)
pitrWindow(backups) ==
    IF backups = << >>
    THEN Unavailable("NoRestorableBackup")
    ELSE IF lastMarked(backups) = Len(backups)
    THEN Unavailable("BinlogGapDetected")
    ELSE IF backups[Len(backups)].latest = NoTime
    THEN Unavailable("NoRestorableBackup")
    ELSE [state    |-> "Available",
          reason   |-> "WindowAvailable",
          earliest |-> backups[lastMarked(backups) + 1].completedAt,
          latest   |-> backups[Len(backups)].latest]

(* The Backup resources that may serve as the base of a recovery to date      *)
(* (NoTime: the latest point).                                                *)
PITRCandidates(crs, instance, storage, date) ==
    {n \in DOMAIN crs :
        /\ crs[n].instance = instance
        /\ crs[n].storage = storage
        /\ crs[n].state = "Succeeded"
        /\ crs[n].completedAt # NoTime
        /\ date # NoTime => crs[n].completedAt <= date}

(* Mutant of selectPITRBaseBackup: keeps the oldest candidate.                *)
selectOldestBaseBackup(crs, instance, storage, date) ==
    LET candidates == PITRCandidates(crs, instance, storage, date)
    IN  {n \in candidates :
            \A m \in candidates : crs[m].completedAt >= crs[n].completedAt}

(* The newest candidates. The loop keeps the first of several that completed  *)
(* in the same second, and the order of the list is arbitrary: each of them   *)
(* is a possible choice. The empty set is the Pending status.                 *)
selectPITRBaseBackup(crs, instance, storage, date) ==
    LET candidates == PITRCandidates(crs, instance, storage, date)
    IN  {n \in candidates :
            \A m \in candidates : crs[m].completedAt <= crs[n].completedAt}
=============================================================================
