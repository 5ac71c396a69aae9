-------------------------- MODULE InMemoryJobQueue --------------------------
(***************************************************************************)
(* The default job queue (InMemoryJobQueueStrategy) and the ActiveQueue    *)
(* that polls it, for one queue name in the one process that has it.       *)
(*                                                                         *)
(* Unlike JobQueue there are no copies: the map `jobs', the array          *)
(* `unsettledJobs', activeJobs and the callers share the Job objects, so   *)
(* a cancellation changes the object the queue is about to run.  All       *)
(* awaits are of resolved promises; the steps are the iterations of the    *)
(* polling loop, the end of a process function and the calls of the API.   *)
(***************************************************************************)
EXTENDS Naturals, Sequences, FiniteSets

CONSTANTS
    MemoryJobs,         \* the jobs that may be added
    MemoryConcurrency,  \* PollingJobQueueStrategy.concurrency
    MemoryRetries,      \* what setRetries returns
    MaxMemoryCancels    \* bound: cancelJob calls for one job

ASSUME MemoryConcurrencyAssumption == MemoryConcurrency \in Nat \ {0}
ASSUME MemoryRetriesAssumption == MemoryRetries \in Nat
ASSUME MaxMemoryCancelsAssumption == MaxMemoryCancels \in Nat

VARIABLES
    object,      \* object[j]: the Job
    found,       \* keys of the map `jobs': what findOne finds
    unsettled,   \* unsettledJobs of the queue
    delayed,     \* jobs whose backoff delay has not passed
    activeJobs,  \* ActiveQueue.activeJobs
    turn,        \* the loop counter; MemoryConcurrency between two rounds
    executions,  \* history: calls of the process function
    cancelled    \* history: calls of cancelJob

memoryQueueVars ==
    <<object, found, unsettled, delayed, activeJobs, turn, executions, cancelled>>

MemoryWaiting == {"PENDING", "RETRYING"}
MemoryFinal == {"COMPLETED", "FAILED", "CANCELLED"}
MemoryState == MemoryWaiting \cup MemoryFinal \cup {"RUNNING"}
NotAdded == [state |-> "absent", attempts |-> 0, settled |-> FALSE]
MemoryJob == [state : MemoryState \cup {"absent"}, attempts : 0 .. MemoryRetries + 1,
              settled : BOOLEAN]
Added(j) == object[j].state \in MemoryState
IsSettled(j) == object[j].settled /\ object[j].state \in MemoryFinal
Listed(j) == \E k \in DOMAIN unsettled : unsettled[k] = j

MemoryQueueTypeOK ==
    /\ object \in [MemoryJobs -> MemoryJob]
    /\ found \subseteq MemoryJobs /\ delayed \subseteq MemoryJobs
    /\ unsettled \in Seq(MemoryJobs)
    /\ activeJobs \subseteq MemoryJobs
    /\ turn \in 0 .. MemoryConcurrency
    /\ executions \in [MemoryJobs -> Nat] /\ cancelled \in [MemoryJobs -> Nat]

MemoryQueueInit ==
    /\ object = [j \in MemoryJobs |-> NotAdded]
    /\ found = {} /\ unsettled = <<>> /\ delayed = {} /\ activeJobs = {}
    /\ turn = MemoryConcurrency
    /\ executions = [j \in MemoryJobs |-> 0]
    /\ cancelled = [j \in MemoryJobs |-> 0]

(***************************************************************************)
(* Job.start() does nothing to a job that is not waiting.  fail() decides  *)
(* by the attempts alone, even for a cancelled job.                        *)
(***************************************************************************)
Started(job) ==
    IF job.state \in MemoryWaiting
    THEN [job EXCEPT !.state = "RUNNING", !.attempts = @ + 1]
    ELSE job

Completed(job) == [job EXCEPT !.state = "COMPLETED", !.settled = TRUE]
Cancelled(job) == [job EXCEPT !.state = "CANCELLED", !.settled = TRUE]

Failed_RetriesAlways(job) == [job EXCEPT !.state = "RETRYING"]
Failed(job) ==
    IF MemoryRetries >= job.attempts
    THEN [job EXCEPT !.state = "RETRYING"]
    ELSE [job EXCEPT !.state = IF @ = "CANCELLED" THEN @ ELSE "FAILED",
                     !.settled = TRUE]

-----------------------------------------------------------------------------
AddToMemory(j) ==
    /\ object[j] = NotAdded
    /\ object' = [object EXCEPT ![j].state = "PENDING"]
    /\ found' = found \cup {j}
    /\ unsettled' = Append(unsettled, j)
    /\ UNCHANGED <<delayed, activeJobs, turn, executions, cancelled>>

\* cancelJob: findOne, cancel, update.  The job stays where it is listed.
CancelInMemory(j) ==
    /\ j \in found /\ cancelled[j] < MaxMemoryCancels
    /\ object' = [object EXCEPT ![j] = Cancelled(@)]
    /\ cancelled' = [cancelled EXCEPT ![j] = @ + 1]
    /\ UNCHANGED <<found, unsettled, delayed, activeJobs, turn, executions>>

\* removeSettledJobs, called by the API or by the eviction timer.
RemoveFromMemory(S) ==
    /\ S # {} /\ S \subseteq found
    /\ \A j \in S : IsSettled(j)
    /\ found' = found \ S
    /\ UNCHANGED <<object, unsettled, delayed, activeJobs, turn, executions, cancelled>>

BackoffPasses(j) ==
    /\ j \in delayed
    /\ delayed' = delayed \ {j}
    /\ UNCHANGED <<object, found, unsettled, activeJobs, turn, executions, cancelled>>

(***************************************************************************)
(* runNextJobs: the active jobs are counted once, and each iteration asks  *)
(* next() for the first listed job.                                        *)
(***************************************************************************)
PollMemory ==
    /\ turn = MemoryConcurrency
    /\ Cardinality(activeJobs) < MemoryConcurrency
    /\ turn' = Cardinality(activeJobs)
    /\ UNCHANGED <<object, found, unsettled, delayed, activeJobs, executions, cancelled>>

NothingListed ==
    /\ turn < MemoryConcurrency /\ unsettled = <<>>
    /\ turn' = turn + 1
    /\ UNCHANGED <<object, found, unsettled, delayed, activeJobs, executions, cancelled>>

TooEarly(j) == object[j].state = "RETRYING" /\ j \in delayed

PutBack_Forgotten(j) == Tail(unsettled)
PutBack(j) == Append(Tail(unsettled), j)

StillDelayed ==
    /\ turn < MemoryConcurrency /\ unsettled # <<>>
    /\ TooEarly(Head(unsettled))
    /\ unsettled' = PutBack(Head(unsettled))
    /\ turn' = turn + 1
    /\ UNCHANGED <<object, found, delayed, activeJobs, executions, cancelled>>

\* update() sets the key of the map again, whatever the state of the job.
Restored(j) == found \cup {j}

RunNext ==
    /\ turn < MemoryConcurrency /\ unsettled # <<>>
    /\ LET j == Head(unsettled) IN
       /\ ~TooEarly(j)
       /\ object' = [object EXCEPT ![j] = Started(@)]
       /\ found' = Restored(j)
       /\ activeJobs' = activeJobs \cup {j}
       /\ executions' = [executions EXCEPT ![j] = @ + 1]
    /\ unsettled' = Tail(unsettled)
    /\ turn' = turn + 1
    /\ UNCHANGED <<delayed, cancelled>>

\* What the process function leads to: it resolves, rejects, or resolves with
\* its own cancelled Job.
MemoryOutcomes(job) ==
    {Completed(job), Failed(job)} \cup (IF job.state = "CANCELLED" THEN {job} ELSE {})

\* onFailOrComplete: update(), which lists a job to be retried first, and
\* removeJobFromActive().
FinishInMemory(j) ==
    /\ j \in activeJobs
    /\ \E job \in MemoryOutcomes(object[j]) :
          /\ object' = [object EXCEPT ![j] = job]
          /\ IF job.state \in MemoryWaiting
             THEN unsettled' = <<j>> \o unsettled /\ delayed' = delayed \cup {j}
             ELSE UNCHANGED <<unsettled, delayed>>
    /\ found' = Restored(j)
    /\ activeJobs' = activeJobs \ {j}
    /\ UNCHANGED <<turn, executions, cancelled>>

MemoryQueueLoop == PollMemory \/ NothingListed \/ StillDelayed \/ RunNext

MemoryQueueNext ==
    \/ \E j \in MemoryJobs : \/ AddToMemory(j) \/ CancelInMemory(j)
                             \/ BackoffPasses(j) \/ FinishInMemory(j)
    \/ \E S \in SUBSET MemoryJobs : RemoveFromMemory(S)
    \/ MemoryQueueLoop

-----------------------------------------------------------------------------
\* A job that waits is listed exactly once, one that runs is not listed, and one
\* that is not settled is found by its id, although cancelling makes it removable
\* before it runs or is retried: objects shared by four collections are neither
\* run twice at a time nor forgotten, whatever calls overlap.
ListedOrActive ==
    /\ \A j \in MemoryJobs :
          /\ object[j].state \in MemoryWaiting => Listed(j)
          /\ object[j].state = "RUNNING" => j \in activeJobs
          /\ Added(j) /\ ~IsSettled(j) => j \in found
          /\ ~(Listed(j) /\ j \in activeJobs)
    /\ \A k, l \in DOMAIN unsettled : unsettled[k] = unsettled[l] => k = l

\* Each cancellation of a job that waits costs at most one execution more than
\* the retries allow: the cancelled job is run, and fail() retries it.
ExecutionsBounded ==
    \A j \in MemoryJobs : executions[j] <= MemoryRetries + 1 + cancelled[j]

\* Every job that is added gets a final outcome, and is no longer listed.
MemoryJobsSettle ==
    \A j \in MemoryJobs :
       Added(j) ~> IsSettled(j) /\ ~Listed(j) /\ j \notin activeJobs
=============================================================================
