------------------------------- MODULE OneShot -------------------------------
(* What Backup and Restore resources promise to whoever creates one: a job    *)
(* that is done by the operator at most once, reported when it has ended, and *)
(* closed only when nothing of it is left. How the handlers, the operator,    *)
(* restarts and retries bring this about is the matter of Backups.tla and     *)
(* Restores.tla, which implement this specification.                          *)
CONSTANTS
    Names,
    MayReject  \* TRUE: a job may be reported Failed without having run

VARIABLES
    job,  \* [Names -> the resource as users see it]
    ran   \* [Names -> the operator's work for it]

vars == <<job, ran>>

Verdict == {"Succeeded", "Failed"}
Job == {"None", "Open", "Closing", "Void"} \cup Verdict
Ran == {"No", "Queued", "Running"} \cup Verdict

Init ==
    /\ job = [n \in Names |-> "None"]
    /\ ran = [n \in Names |-> "No"]

(* A new job begins with nothing of its predecessor of the same name.         *)
Request(n) ==
    /\ job[n] = "None" /\ ran[n] = "No"
    /\ job' = [job EXCEPT ![n] = "Open"]
    /\ UNCHANGED ran

(* Work may still begin for a job that has just been closed, but never for    *)
(* one that has been reported or forgotten.                                   *)
Start(n) ==
    /\ job[n] \in {"Open", "Closing"} /\ ran[n] = "No"
    /\ ran' = [ran EXCEPT ![n] = "Queued"]
    /\ UNCHANGED job

Proceed(n) ==
    /\ job[n] \in {"Open", "Closing"} /\ ran[n] = "Queued"
    /\ ran' = [ran EXCEPT ![n] = "Running"]
    /\ UNCHANGED job

(* Work that has not begun can only fail.                                     *)
End(n) ==
    /\ \/ ran[n] = "Running" /\ \E v \in Verdict : ran' = [ran EXCEPT ![n] = v]
       \/ ran[n] = "Queued" /\ ran' = [ran EXCEPT ![n] = "Failed"]
    /\ UNCHANGED job

(* The verdict is that of the work, and stands.                               *)
Report(n) ==
    /\ job[n] = "Open" /\ ran[n] \in Verdict
    /\ job' = [job EXCEPT ![n] = ran[n]]
    /\ UNCHANGED ran

Reject(n) ==
    /\ MayReject
    /\ job[n] = "Open" /\ ran[n] \in {"No", "Queued"}
    /\ job' = [job EXCEPT ![n] = "Failed"]
    /\ UNCHANGED ran

Close(n) ==
    /\ job[n] \in {"Open"} \cup Verdict
    /\ job' = [job EXCEPT ![n] = "Closing"]
    /\ UNCHANGED ran

(* The work is undone or abandoned only once its job has been closed.         *)
Drop(n) ==
    /\ job[n] = "Closing"
    /\ ran' = [ran EXCEPT ![n] = "No"]
    /\ UNCHANGED job

Forget(n) ==
    /\ job[n] = "Closing" /\ ran[n] = "No"
    /\ job' = [job EXCEPT ![n] = "None"]
    /\ UNCHANGED ran

(* Somebody deletes the operator's work behind the jobs' back: no promise is  *)
(* left.                                                                      *)
Tamper ==
    /\ job' = [n \in Names |-> "Void"]
    /\ ran' = [n \in Names |-> "No"]

Next ==
    \/ Tamper
    \/ \E n \in Names :
          \/ Request(n) \/ Start(n) \/ Proceed(n) \/ End(n)
          \/ Report(n) \/ Reject(n) \/ Close(n) \/ Drop(n) \/ Forget(n)

Spec == Init /\ [][Next]_vars
==============================================================================
