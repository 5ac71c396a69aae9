------------------------------ MODULE JobQueue ------------------------------
(***************************************************************************)
(* The persistent job queue: job records in the SQL database               *)
(* (SqlJobQueueStrategy), and worker processes that poll for them          *)
(* (ActiveQueue in polling-job-queue-strategy.ts), for one queue name.     *)
(*                                                                         *)
(* Each database statement or transaction is one step, and so is each      *)
(* stretch of JavaScript between two awaits.  A worker keeps a COPY of     *)
(* each job it works on and writes the whole copy back: everything that    *)
(* can go wrong comes from the copies.                                     *)
(***************************************************************************)
EXTENDS Naturals, FiniteSets

CONSTANTS
    Jobs,         \* job ids; their order is the order of createdAt
    Workers,      \* processes that started this queue
    Concurrency,  \* PollingJobQueueStrategy.concurrency
    Retries,      \* the number setRetries gives every job of the queue
    Faults,       \* what the environment may do to the workers
    Sqlite,       \* TRUE for the three SQLite drivers of TypeORM
    MaxInFlight,  \* bound: progress writes on their way to the database
    MaxCancels    \* bound: cancelJob calls between their two statements

FaultKinds == {"stop", "crash", "db_error", "late_progress"}

ASSUME JobsAssumption == Jobs \subseteq Nat \ {0}
ASSUME WorkersAssumption == "nobody" \notin Workers
ASSUME ConcurrencyAssumption == Concurrency \in Nat \ {0}
ASSUME RetriesAssumption == Retries \in Nat
ASSUME FaultsAssumption == Faults \subseteq FaultKinds
ASSUME SqliteAssumption == Sqlite \in BOOLEAN

Waiting == {"PENDING", "RETRYING"}
Final == {"COMPLETED", "FAILED", "CANCELLED"}
JobState == Waiting \cup Final \cup {"RUNNING"}

\* activeJobs of a worker; one place more than concurrency, so that an
\* overfull queue could be seen.
Slots == 1 .. Concurrency + 1

\* A Job object: the part of JobConfig the queue's decisions read.
Job == [id : Jobs, state : JobState, attempts : Nat, settled : BOOLEAN]
NoJob == [id |-> 0, state |-> "PENDING", attempts |-> 0, settled |-> FALSE]

(***************************************************************************)
(* Methods of class Job on the copy.                                       *)
(*                                                                         *)
(* An operator named X_<fault>, here and below, is X with a plausible      *)
(* mistake in it.  No action uses one: putting it in the place of X shows  *)
(* which property would notice.                                            *)
(***************************************************************************)
Start_KeepsState(job) == [job EXCEPT !.attempts = @ + 1]
Start(job) == [job EXCEPT !.state = "RUNNING", !.attempts = @ + 1]

Complete_KeepsState(job) == job
Complete(job) == [job EXCEPT !.state = "COMPLETED", !.settled = TRUE]

Fail_RetriesOnceLess(job) ==
    IF Retries > job.attempts
    THEN [job EXCEPT !.state = "RETRYING"]
    ELSE [job EXCEPT !.state = "FAILED", !.settled = TRUE]
Fail(job) ==
    IF Retries >= job.attempts
    THEN [job EXCEPT !.state = "RETRYING"]
    ELSE [job EXCEPT !.state = IF @ = "CANCELLED" THEN @ ELSE "FAILED",
                     !.settled = TRUE]

Cancel(job) == [job EXCEPT !.state = "CANCELLED", !.settled = TRUE]

Defer(job) ==
    IF job.state = "RUNNING"
    THEN [job EXCEPT !.state = "PENDING", !.attempts = 0]
    ELSE job

-----------------------------------------------------------------------------
VARIABLES
    rec,      \* rec[j]: the row of job_record, or "absent" / "removed"
    cooling,  \* rows whose last update is more recent than the backoff
    proc,     \* proc[w]: the life of the process and of its ActiveQueue
    loop,     \* loop[w]: where runNextJobs is
    i,        \* i[w]: the loop counter of runNextJobs
    slot,     \* slot[w][s]: [phase, job], the Job objects of the worker
    wire,     \* progress writes sent and not yet executed
    cancels,  \* cancelJob calls that have read and not yet written
    runs      \* history: executions of the job since it was last deferred

dbVars == <<rec, cooling>>
workerVars == <<proc, loop, i, slot>>
vars == <<rec, cooling, proc, loop, i, slot, wire, cancels, runs>>

ProcState == {"off", "up", "draining", "grace", "stopped"}
LoopState == {"idle", "next", "busy", "ended"}
Phase == {"free", "claimed", "starting", "running", "finishing", "leaked"}
Free == [phase |-> "free", job |-> NoJob]

RowState == JobState \cup {"absent", "removed"}
Exists(j) == rec[j].state \in JobState

TypeOK ==
    /\ rec \in [Jobs -> [state : RowState, attempts : Nat, settled : BOOLEAN]]
    /\ cooling \subseteq Jobs
    /\ proc \in [Workers -> ProcState]
    /\ loop \in [Workers -> LoopState]
    /\ i \in [Workers -> Nat]
    /\ slot \in [Workers -> [Slots -> [phase : Phase, job : Job \cup {NoJob}]]]
    /\ \A w \in Workers, s \in Slots :
          slot[w][s].phase # "free" => slot[w][s].job \in Job
    /\ wire \subseteq [worker : Workers, job : Job]
    /\ cancels \subseteq Job
    /\ runs \in [Jobs -> Nat]

Init ==
    /\ rec = [j \in Jobs |-> [state |-> "absent", attempts |-> 0, settled |-> FALSE]]
    /\ cooling = {}
    /\ proc = [w \in Workers |-> "off"]
    /\ loop = [w \in Workers |-> "ended"]
    /\ i = [w \in Workers |-> 0]
    /\ slot = [w \in Workers |-> [s \in Slots |-> Free]]
    /\ wire = {}
    /\ cancels = {}
    /\ runs = [j \in Jobs |-> 0]

(***************************************************************************)
(* The event loop of a worker lives in the first three states, and         *)
(* this.running is TRUE in the first of them only.                         *)
(***************************************************************************)
Alive(w) == proc[w] \in {"up", "draining", "grace"}

\* activeJobs: next() has returned the job and the loop has pushed it.
Active(w) == {s \in Slots : slot[w][s].phase \notin {"free", "claimed"}}

\* Objects whose worker still means to write the row.
Holding(w, s) == slot[w][s].phase \in {"claimed", "starting", "running", "finishing"}

Holds(w, j) == \E s \in Slots : Holding(w, s) /\ slot[w][s].job.id = j
Held(j) == \E w \in Workers : Holds(w, j)

-----------------------------------------------------------------------------
(***************************************************************************)
(* Statements on job_record.                                               *)
(***************************************************************************)
\* UPDATE ... SET (the whole copy) WHERE id = :id AND settledAt IS NULL
Written_OverSettled(row, job) ==
    IF row.state \in JobState
    THEN [state |-> job.state, attempts |-> job.attempts, settled |-> job.settled]
    ELSE row
Written(row, job) ==
    IF row.state \in JobState /\ ~row.settled
    THEN [state |-> job.state, attempts |-> job.attempts, settled |-> job.settled]
    ELSE row

Update(job) ==
    /\ rec' = [rec EXCEPT ![job.id] = Written(@, job)]
    /\ cooling' = IF rec'[job.id].state = "RETRYING"
                  THEN cooling \cup {job.id}
                  ELSE cooling \ {job.id}

\* fromRecord
Copy(j) == [id |-> j, state |-> rec[j].state,
            attempts |-> rec[j].attempts, settled |-> rec[j].settled]

\* What the SELECT of getNextAndSetAsRunning settles on: the oldest waiting
\* row that is not inside its backoff delay.
Due(j) == rec[j].state \in Waiting /\ j \notin cooling
IsNext(j) == Due(j) /\ \A k \in Jobs : Due(k) => j <= k

Add(j) ==
    /\ rec[j].state = "absent"
    /\ rec' = [rec EXCEPT ![j].state = "PENDING"]
    /\ UNCHANGED <<cooling, workerVars, wire, cancels, runs>>

Removable_Any(j) == Exists(j)
Removable(j) == Exists(j) /\ rec[j].settled

RemoveSettledJobs(S) ==
    /\ S # {}
    /\ \A j \in S : Removable(j)
    /\ rec' = [j \in Jobs |-> IF j \in S THEN [rec[j] EXCEPT !.state = "removed"]
                                         ELSE rec[j]]
    /\ UNCHANGED <<cooling, workerVars, wire, cancels, runs>>

\* cancelJob: findOne, then job.cancel() and update().
CancelRead(j) ==
    /\ Cardinality(cancels) < MaxCancels
    /\ Exists(j)
    /\ cancels' = cancels \cup {Cancel(Copy(j))}
    /\ UNCHANGED <<dbVars, workerVars, wire, runs>>

CancelWrite(job) ==
    /\ Update(job)
    /\ cancels' = cancels \ {job}
    /\ UNCHANGED <<workerVars, wire, runs>>

\* backOffStrategy(...) milliseconds have passed since updatedAt.
BackoffElapses(j) ==
    /\ j \in cooling
    /\ cooling' = cooling \ {j}
    /\ UNCHANGED <<rec, workerVars, wire, cancels, runs>>

-----------------------------------------------------------------------------
(***************************************************************************)
(* runNextJobs.                                                            *)
(***************************************************************************)
EndRound(w) ==
    /\ loop' = [loop EXCEPT ![w] = IF proc[w] = "up" THEN "idle" ELSE "ended"]
    /\ i' = [i EXCEPT ![w] = 0]

NextIteration(w) ==
    IF i[w] + 1 < Concurrency
    THEN /\ loop' = [loop EXCEPT ![w] = "next"]
         /\ i' = [i EXCEPT ![w] = @ + 1]
    ELSE EndRound(w)

SetSlot(w, s, phase, job) ==
    slot' = [slot EXCEPT ![w][s] = [phase |-> phase, job |-> job]]

FirstFree(w, s) ==
    /\ slot[w][s].phase = "free"
    /\ \A t \in Slots : slot[w][t].phase = "free" => s <= t

RunningJobsCount_Ignored(w) == 0
RunningJobsCount(w) == Cardinality(Active(w))

\* The timer fires; a round with every place taken does nothing.
BeginRound(w) ==
    /\ proc[w] = "up" /\ loop[w] = "idle"
    /\ IF RunningJobsCount(w) < Concurrency
       THEN /\ loop' = [loop EXCEPT ![w] = "next"]
            /\ i' = [i EXCEPT ![w] = RunningJobsCount(w)]
       ELSE UNCHANGED <<loop, i>>
    /\ UNCHANGED <<dbVars, proc, slot, wire, cancels, runs>>

\* next(): one transaction that locks the row and saves state = RUNNING only;
\* the copy has one attempt more than the row.  The SQLite branch awaits the
\* same function and then returns nothing.
Taken_NotSaved(row) == row
Taken(row) == [row EXCEPT !.state = "RUNNING"]

Claim(w, j) ==
    /\ Alive(w) /\ loop[w] = "next"
    /\ IsNext(j)
    /\ rec' = [rec EXCEPT ![j] = Taken(@)]
    /\ IF Sqlite
       THEN NextIteration(w) /\ UNCHANGED slot
       ELSE /\ \E s \in Slots : FirstFree(w, s) /\ SetSlot(w, s, "claimed", Start(Copy(j)))
            /\ loop' = [loop EXCEPT ![w] = "busy"]
            /\ UNCHANGED i
    /\ UNCHANGED <<cooling, proc, wire, cancels, runs>>

NothingDue(w) ==
    /\ Alive(w) /\ loop[w] = "next"
    /\ \A j \in Jobs : ~Due(j)
    /\ NextIteration(w)
    /\ UNCHANGED <<dbVars, proc, slot, wire, cancels, runs>>

\* next() throws: the catch clause reports it and the round is over.
NextFails(w) ==
    /\ "db_error" \in Faults
    /\ Alive(w) /\ loop[w] = "next"
    /\ EndRound(w)
    /\ UNCHANGED <<dbVars, proc, slot, wire, cancels, runs>>

\* next() has resolved: activeJobs.push(nextJob), and update() is called.
Push(w, s) ==
    /\ Alive(w) /\ slot[w][s].phase = "claimed"
    /\ SetSlot(w, s, "starting", slot[w][s].job)
    /\ UNCHANGED <<dbVars, proc, loop, i, wire, cancels, runs>>

\* The first update() is done; this.process(nextJob) is called.
StartProcess(w, s) ==
    /\ Alive(w) /\ slot[w][s].phase = "starting"
    /\ Update(slot[w][s].job)
    /\ SetSlot(w, s, "running", slot[w][s].job)
    /\ runs' = [runs EXCEPT ![slot[w][s].job.id] = @ + 1]
    /\ NextIteration(w)
    /\ UNCHANGED <<proc, wire, cancels>>

\* The first update() throws: the job stays in activeJobs for good.
StartFails(w, s) ==
    /\ "db_error" \in Faults
    /\ Alive(w) /\ slot[w][s].phase = "starting"
    /\ SetSlot(w, s, "leaked", slot[w][s].job)
    /\ EndRound(w)
    /\ UNCHANGED <<dbVars, proc, wire, cancels, runs>>

-----------------------------------------------------------------------------
(***************************************************************************)
(* One running job: race(process, stopSignal$) and what follows it.        *)
(***************************************************************************)
Running(w, s) == Alive(w) /\ slot[w][s].phase = "running"

\* setProgress: update() is called, and nothing awaits it.  Each query may
\* use another connection of the pool, so a later one can overtake it.
SendProgress(w, s) ==
    /\ "late_progress" \in Faults
    /\ Running(w, s)
    /\ Cardinality(wire) < MaxInFlight
    /\ wire' = wire \cup {[worker |-> w, job |-> slot[w][s].job]}
    /\ UNCHANGED <<dbVars, workerVars, cancels, runs>>

ProgressWrite(m) ==
    /\ Update(m.job)
    /\ wire' = wire \ {m}
    /\ UNCHANGED <<workerVars, cancels, runs>>

\* The poll of cancellationSub finds the row CANCELLED.
SeeCancelled(w, s) ==
    /\ Running(w, s)
    /\ slot[w][s].job.state # "CANCELLED"
    /\ rec[slot[w][s].job.id].state = "CANCELLED"
    /\ SetSlot(w, s, "running", Cancel(slot[w][s].job))
    /\ UNCHANGED <<dbVars, proc, loop, i, wire, cancels, runs>>

\* The process function resolves, resolves with its own cancelled Job, or
\* rejects.
Outcomes(job) ==
    {Complete(job), Fail(job)}
       \cup (IF job.state = "CANCELLED" THEN {Cancel(job)} ELSE {})

Finish(w, s) ==
    /\ Running(w, s)
    /\ \E job \in Outcomes(slot[w][s].job) : SetSlot(w, s, "finishing", job)
    /\ UNCHANGED <<dbVars, proc, loop, i, wire, cancels, runs>>

RemoveJobFromActive_Never(w, s) == SetSlot(w, s, "leaked", slot[w][s].job)
RemoveJobFromActive_KeepsPlace(w, s) == slot' = [slot EXCEPT ![w][s].job = NoJob]
RemoveJobFromActive(w, s) == slot' = [slot EXCEPT ![w][s] = Free]

\* onFailOrComplete: update(), then removeJobFromActive().
OnFailOrComplete(w, s) ==
    /\ Alive(w) /\ slot[w][s].phase = "finishing"
    /\ Update(slot[w][s].job)
    /\ RemoveJobFromActive(w, s)
    /\ UNCHANGED <<proc, loop, i, wire, cancels, runs>>

\* update() throws: removeJobFromActive() is never reached.
FinalUpdateFails(w, s) ==
    /\ "db_error" \in Faults
    /\ Alive(w) /\ slot[w][s].phase = "finishing"
    /\ SetSlot(w, s, "leaked", slot[w][s].job)
    /\ UNCHANGED <<dbVars, proc, loop, i, wire, cancels, runs>>

-----------------------------------------------------------------------------
(***************************************************************************)
(* The life of a worker process.                                           *)
(***************************************************************************)
StartQueue(w) ==
    /\ proc[w] = "off"
    /\ proc' = [proc EXCEPT ![w] = "up"]
    /\ loop' = [loop EXCEPT ![w] = "idle"]
    /\ UNCHANGED <<dbVars, i, slot, wire, cancels, runs>>

\* stop(): running = false, clearTimeout.
StopQueue(w) ==
    /\ "stop" \in Faults
    /\ proc[w] = "up"
    /\ proc' = [proc EXCEPT ![w] = "draining"]
    /\ loop' = [loop EXCEPT ![w] = IF @ = "idle" THEN "ended" ELSE @]
    /\ UNCHANGED <<dbVars, i, slot, wire, cancels, runs>>

\* pollActiveJobs finds activeJobs empty.
Drained(w) ==
    /\ proc[w] = "draining"
    /\ Active(w) = {}
    /\ proc' = [proc EXCEPT ![w] = "grace"]
    /\ UNCHANGED <<dbVars, loop, i, slot, wire, cancels, runs>>

\* gracefulShutdownTimeout: STOP_SIGNAL reaches the jobs that have subscribed
\* to queueStopped$, which are those whose process function was called.
StopSignal(w) ==
    /\ proc[w] = "draining"
    /\ Active(w) # {}
    /\ proc' = [proc EXCEPT ![w] = "grace"]
    /\ slot' = [slot EXCEPT ![w] =
          [s \in Slots |-> IF @[s].phase = "running"
                           THEN [phase |-> "finishing", job |-> Defer(@[s].job)]
                           ELSE @[s]]]
    /\ runs' = [j \in Jobs |->
          IF \E s \in Slots : /\ slot[w][s].phase = "running"
                              /\ slot[w][s].job.id = j
                              /\ slot[w][s].job.state = "RUNNING"
          THEN 0 ELSE runs[j]]
    /\ UNCHANGED <<dbVars, loop, i, wire, cancels>>

\* The last second of stop(): database calls in progress are answered.
Stopped(w) ==
    /\ proc[w] = "grace"
    /\ loop[w] = "ended"
    /\ \A s \in Slots : slot[w][s].phase # "finishing"
    /\ proc' = [proc EXCEPT ![w] = "stopped"]
    /\ UNCHANGED <<dbVars, loop, i, slot, wire, cancels, runs>>

\* The process is gone with its memory and its connections.
ProcessEnds(w) ==
    /\ \/ proc[w] = "stopped"
       \/ "crash" \in Faults /\ proc[w] # "off"
    /\ proc' = [proc EXCEPT ![w] = "off"]
    /\ loop' = [loop EXCEPT ![w] = "ended"]
    /\ i' = [i EXCEPT ![w] = 0]
    /\ slot' = [slot EXCEPT ![w] = [s \in Slots |-> Free]]
    /\ wire' = {m \in wire : m.worker # w}
    /\ UNCHANGED <<dbVars, cancels, runs>>

-----------------------------------------------------------------------------
ApiStep ==
    \/ \E j \in Jobs : Add(j) \/ CancelRead(j)
    \/ \E S \in SUBSET Jobs : RemoveSettledJobs(S)
    \/ \E job \in cancels : CancelWrite(job)

LoopStep(w) ==
    \/ BeginRound(w)
    \/ \E j \in Jobs : Claim(w, j)
    \/ NothingDue(w)
    \/ NextFails(w)
    \/ \E s \in Slots : Push(w, s) \/ StartProcess(w, s) \/ StartFails(w, s)

JobStep(w, s) ==
    \/ SendProgress(w, s)
    \/ SeeCancelled(w, s)
    \/ Finish(w, s)
    \/ OnFailOrComplete(w, s)
    \/ FinalUpdateFails(w, s)

ProcessStep(w) ==
    \/ StartQueue(w) \/ StopQueue(w) \/ Drained(w)
    \/ StopSignal(w) \/ Stopped(w) \/ ProcessEnds(w)

Next ==
    \/ ApiStep
    \/ \E j \in Jobs : BackoffElapses(j)
    \/ \E m \in wire : ProgressWrite(m)
    \/ \E w \in Workers : LoopStep(w) \/ ProcessStep(w)
    \/ \E w \in Workers, s \in Slots : JobStep(w, s)

(***************************************************************************)
(* Fairness: a live process runs its timers and continuations, the         *)
(* database answers, process functions return, time passes, and a process  *)
(* that has ended is started again by whatever supervises it.              *)
(***************************************************************************)
Fairness ==
    /\ \A w \in Workers :
          /\ WF_vars(LoopStep(w))
          /\ WF_vars(StartQueue(w))
          /\ \A s \in Slots : WF_vars(Finish(w, s)) /\ WF_vars(OnFailOrComplete(w, s))
    /\ \A j \in Jobs : WF_vars(BackoffElapses(j))
    /\ WF_vars(\E m \in wire : ProgressWrite(m))

Spec == Init /\ [][Next]_vars
FairSpec == Spec /\ Fairness

-----------------------------------------------------------------------------
(***************************************************************************)
(* Properties.                                                             *)
(***************************************************************************)

\* A job is held by one worker object at a time, whatever crashes, stops, is
\* cancelled or written late: the row lock of next() (the comment at
\* sql-job-queue-strategy.ts:91) is enough to keep two workers apart.
OneHolder ==
    \A w1, w2 \in Workers : \A s1, s2 \in Slots :
        /\ Holding(w1, s1) /\ Holding(w2, s2)
        /\ slot[w1][s1].job.id = slot[w2][s2].job.id
        => w1 = w2 /\ s1 = s2

\* While a worker holds a job nobody else can take it: its row is RUNNING, or
\* is settled or removed behind the worker's back by cancelJob.
HeldRowNotWaiting ==
    \A w \in Workers, s \in Slots : Holding(w, s) =>
        LET row == rec[slot[w][s].job.id] IN
        row.state = "RUNNING" \/ row.settled

\* What keeps OneHolder true from step to step, beside HeldRowNotWaiting: a
\* settled row never waits again,
SettledRowsDoNotWait ==
    \A j \in Jobs : rec[j].settled => rec[j].state \in Final \cup {"removed"}

\* a copy that was cancelled in memory (and that fail() may have turned into
\* RETRYING with settledAt set) is a copy of a settled row,
CopyIsOwnOrStale(w, s) ==
    LET phase == slot[w][s].phase
        job == slot[w][s].job
        own == job.state = "RUNNING" /\ ~job.settled
        stale == rec[job.id].settled
    IN  /\ phase \in {"claimed", "starting"} => own
        /\ phase = "running" => own \/ (job.settled /\ stale)
        /\ phase = "finishing" => (job.settled <=> job.state \in Final) \/ stale

CopiesAreOwnOrStale == \A w \in Workers, s \in Slots : CopyIsOwnOrStale(w, s)

\* and so is a progress write, unless it writes RUNNING.
WritesAreOwnOrStale ==
    /\ \A m \in wire : \/ m.job.state = "RUNNING" /\ ~m.job.settled
                       \/ rec[m.job.id].settled
    /\ \A job \in cancels : job.state = "CANCELLED" /\ job.settled

\* The inductive invariant.
IInv ==
    /\ TypeOK
    /\ OneHolder
    /\ HeldRowNotWaiting
    /\ SettledRowsDoNotWait
    /\ CopiesAreOwnOrStale
    /\ WritesAreOwnOrStale

\* Nothing a worker writes later changes a settled row: the outcome a client
\* has seen stands until the row is removed.
SettledIsFinal ==
    [][\A j \in Jobs : rec[j].settled =>
          \/ rec'[j] = rec[j]
          \/ rec'[j].state = "removed"]_vars

\* A job is executed at most retries + 1 times, counted from when a shutdown last
\* deferred it, and is not given up before that, even when late progress writes
\* have put an old number of attempts back into the row.
AttemptsCounted ==
    \A j \in Jobs : /\ runs[j] <= Retries + 1
                    /\ rec[j].state = "FAILED" => runs[j] = Retries + 1

\* activeJobs never holds more than concurrency jobs, although a round counts
\* them once and then awaits between the pushes.
ActiveWithinConcurrency ==
    \A w \in Workers : Cardinality(Active(w)) <= Concurrency

\* Without faults a RUNNING row always has a worker that will settle it.
RunningHasHolder ==
    \A j \in Jobs : rec[j].state = "RUNNING" => Held(j)

\* Every job that was added is settled in the end.
EveryJobSettles ==
    \A j \in Jobs : (rec[j].state = "PENDING") ~> rec[j].settled

\* gracefulShutdownTimeout (polling-job-queue-strategy.ts:53): the queue waits
\* for running jobs, or forces them to stop, before the server shuts down.
ShutdownWaitsForJobs ==
    \A w \in Workers : proc[w] = "stopped" =>
        \A s \in Slots : slot[w][s].phase # "running"

\* next() "should return the next job" (polling-job-queue-strategy.ts:289): a
\* row that becomes RUNNING is in the hands of a worker.
NextHandsOverTheJob ==
    [][\A j \in Jobs : rec[j].state # "RUNNING" /\ rec'[j].state = "RUNNING"
          => Held(j)']_vars

\* "By default, a job will be retried as soon as possible"
\* (default-job-queue-plugin.ts:137): a row in RETRYING is taken again.
FailedJobIsRetried ==
    \A j \in Jobs : (rec[j].state = "RETRYING") ~> (Held(j) \/ rec[j].settled)

(***************************************************************************)
(* The queue implements JobLifecycle: a job's owner is the worker that     *)
(* holds a copy it still means to write, and a RUNNING row nobody holds is *)
(* stranded, because next() looks at PENDING and RETRYING rows only.       *)
(***************************************************************************)
StatusOf(j) ==
    CASE rec[j].state = "absent" -> "none"
      [] rec[j].state = "removed" -> "removed"
      [] rec[j].state \in Final -> "settled"
      [] rec[j].state \in Waiting -> "waiting"
      [] rec[j].state = "RUNNING" /\ Held(j) -> "running"
      [] rec[j].state = "RUNNING" /\ ~Held(j) -> "stranded"

OwnerOf(j) ==
    IF Held(j) THEN CHOOSE w \in Workers : Holds(w, j) ELSE "nobody"

Lifecycle == INSTANCE JobLifecycle WITH
    status <- [j \in Jobs |-> StatusOf(j)],
    owner <- [j \in Jobs |-> OwnerOf(j)],
    MayStrand <- Faults # {} \/ Sqlite

\* Every step of the queue is a step of JobLifecycle or none at all.
ImplementsLifecycle == Lifecycle!Spec
=============================================================================
