---------------------------- MODULE JobLifecycle ----------------------------
(***************************************************************************)
(* What the job queue promises about each job, whatever stores the jobs    *)
(* and however the workers find them: a job has at most one owner, it is   *)
(* taken only while it waits, its outcome is final, and it gets stranded   *)
(* (running with nobody to finish it) only where that is allowed.          *)
(***************************************************************************)
CONSTANTS
    Jobs,
    Workers,
    MayStrand   \* TRUE when workers may fail or shut down

VARIABLES
    status,  \* status[j]
    owner    \* owner[j]: the worker that executes j, or NoWorker

NoWorker == "nobody"

Status == {"none", "waiting", "running", "stranded", "settled", "removed"}

TypeOK ==
    /\ status \in [Jobs -> Status]
    /\ owner \in [Jobs -> Workers \cup {NoWorker}]

Init ==
    /\ status = [j \in Jobs |-> "none"]
    /\ owner = [j \in Jobs |-> NoWorker]

Submit(j) ==
    /\ status[j] = "none"
    /\ status' = [status EXCEPT ![j] = "waiting"]
    /\ UNCHANGED owner

Take(w, j) ==
    /\ status[j] = "waiting" /\ owner[j] = NoWorker
    /\ status' = [status EXCEPT ![j] = "running"]
    /\ owner' = [owner EXCEPT ![j] = w]

\* The owner is done: back to the queue or settled.  If somebody cancelled or
\* removed the job meanwhile, what the owner reports is ignored.
Release(j) ==
    /\ owner[j] # NoWorker
    /\ owner' = [owner EXCEPT ![j] = NoWorker]
    /\ \/ /\ status[j] = "running"
          /\ \E new \in {"waiting", "settled"} : status' = [status EXCEPT ![j] = new]
       \/ /\ status[j] \in {"settled", "removed"}
          /\ UNCHANGED status

CancelJob(j) ==
    /\ status[j] \in {"waiting", "running", "stranded"}
    /\ status' = [status EXCEPT ![j] = "settled"]
    /\ UNCHANGED owner

Remove(S) ==
    /\ \A j \in S : status[j] = "settled"
    /\ status' = [j \in Jobs |-> IF j \in S THEN "removed" ELSE status[j]]
    /\ UNCHANGED owner

\* The jobs of S lose their owners, and nobody will come back for them.
Strand(S) ==
    /\ MayStrand
    /\ \A j \in S : status[j] \notin {"none", "stranded"}
    /\ status' = [j \in Jobs |-> IF j \in S /\ status[j] \in {"waiting", "running"}
                                 THEN "stranded" ELSE status[j]]
    /\ owner' = [j \in Jobs |-> IF j \in S THEN NoWorker ELSE owner[j]]

Next ==
    \/ \E j \in Jobs : Submit(j) \/ Release(j) \/ CancelJob(j)
    \/ \E w \in Workers, j \in Jobs : Take(w, j)
    \/ \E S \in SUBSET Jobs : Remove(S) \/ Strand(S)

vars == <<status, owner>>
Spec == Init /\ [][Next]_vars
=============================================================================
