------------------------- MODULE JobQueueRefinement -------------------------
(***************************************************************************)
(* For every set of jobs and workers, every concurrency and number of      *)
(* retries, and every combination of faults: the job queue implements      *)
(* JobLifecycle.  And what follows from it: without faults no RUNNING job  *)
(* is ever left without a worker.                                          *)
(***************************************************************************)
EXTENDS JobQueueProofs

USE WorkersAssumption, RetriesAssumption

-----------------------------------------------------------------------------
(***************************************************************************)
(* The two variables of JobLifecycle in terms of the queue's.              *)
(***************************************************************************)
OwnerKnown(j) ==
    /\ \A w \in Workers : Holds(w, j) => OwnerOf(j) = w
    /\ Held(j) => OwnerOf(j) # "nobody"
    /\ ~Held(j) => OwnerOf(j) = "nobody"

LEMMA OwnerFacts == IInv => \A j \in Jobs : OwnerKnown(j)
<1> SUFFICES ASSUME IInv, NEW j \in Jobs PROVE OwnerKnown(j)
    OBVIOUS
<1>1. ASSUME NEW v \in Workers, NEW w \in Workers, Holds(v, j), Holds(w, j)
      PROVE  v = w
    BY <1>1 DEF IInv, OneHolder, Holds
<1>2. Held(j) => OwnerOf(j) \in Workers /\ Holds(OwnerOf(j), j)
    BY DEF Held, OwnerOf
<1>3. Held(j) => OwnerOf(j) # "nobody"
    BY <1>2
<1> QED
    BY <1>1, <1>2, <1>3 DEF OwnerKnown, Held, OwnerOf

LEMMA OwnerFactsNext == IInv' => \A j \in Jobs : OwnerKnown(j)'
<1>1. (IInv => \A j \in Jobs : OwnerKnown(j))'
    BY OwnerFacts, PTL
<1> QED
    BY <1>1

StatusKnown(j) ==
    LET state == rec[j].state IN
    /\ state = "absent" => StatusOf(j) = "none"
    /\ state = "removed" => StatusOf(j) = "removed"
    /\ state \in Final => StatusOf(j) = "settled"
    /\ state \in Waiting => StatusOf(j) = "waiting"
    /\ state = "RUNNING" /\ Held(j) => StatusOf(j) = "running"
    /\ state = "RUNNING" /\ ~Held(j) => StatusOf(j) = "stranded"
    /\ state \in {"absent", "removed", "RUNNING"} \/ state \in Final \/ state \in Waiting

LEMMA StatusFacts == TypeOK => \A j \in Jobs : StatusKnown(j)
<1> SUFFICES ASSUME TypeOK, NEW j \in Jobs PROVE StatusKnown(j)
    OBVIOUS
<1>1. rec[j].state \in RowState
    BY DEF TypeOK
<1> QED
    BY <1>1 DEF StatusKnown, StatusOf, RowState, JobState, Final, Waiting

LEMMA StatusFactsNext == TypeOK' => \A j \in Jobs : StatusKnown(j)'
<1>1. (TypeOK => \A j \in Jobs : StatusKnown(j))'
    BY StatusFacts, PTL
<1> QED
    BY <1>1

\* A job whose row keeps its state and which keeps its holders stays as it is.
LEMMA SameStatus ==
    ASSUME TypeOK, TypeOK', NEW j \in Jobs,
           rec'[j].state = rec[j].state, Held(j)' <=> Held(j)
    PROVE  StatusOf(j)' = StatusOf(j)
BY DEF StatusOf

LEMMA SameOwner ==
    ASSUME IInv, IInv', NEW j \in Jobs,
           \A w \in Workers : Holds(w, j)' <=> Holds(w, j)
    PROVE  OwnerOf(j)' = OwnerOf(j) /\ (Held(j)' <=> Held(j))
<1>1. Held(j)' <=> Held(j)
    BY DEF Held
<1>2. CASE Held(j)
  <2>1. PICK w \in Workers : Holds(w, j)
    BY <1>2 DEF Held
  <2>2. OwnerOf(j) = w
    BY <2>1, OwnerFacts DEF OwnerKnown
  <2>3. Holds(w, j)'
    BY <2>1
  <2>4. OwnerOf(j)' = w
    BY <2>3, OwnerFactsNext DEF OwnerKnown
  <2> QED
    BY <1>1, <2>2, <2>4
<1>3. CASE ~Held(j)
    BY <1>1, <1>3 DEF OwnerOf
<1> QED
    BY <1>2, <1>3

-----------------------------------------------------------------------------
(***************************************************************************)
(* The steps of JobLifecycle.                                              *)
(***************************************************************************)
Stutters(j) == StatusOf(j)' = StatusOf(j) /\ OwnerOf(j)' = OwnerOf(j)

LEMMA StutterStep ==
    ASSUME \A k \in Jobs : Stutters(k)
    PROVE  UNCHANGED Lifecycle!vars
BY DEF Stutters, Lifecycle!vars

LEMMA SubmitStep ==
    ASSUME NEW j \in Jobs, \A k \in Jobs : k # j => Stutters(k),
           StatusOf(j) = "none", StatusOf(j)' = "waiting", OwnerOf(j)' = OwnerOf(j)
    PROVE  Lifecycle!Submit(j)
BY DEF Stutters, Lifecycle!Submit

LEMMA TakeStep ==
    ASSUME NEW j \in Jobs, NEW w \in Workers, \A k \in Jobs : k # j => Stutters(k),
           StatusOf(j) = "waiting", OwnerOf(j) = "nobody",
           StatusOf(j)' = "running", OwnerOf(j)' = w
    PROVE  Lifecycle!Take(w, j)
BY DEF Stutters, Lifecycle!Take, Lifecycle!NoWorker

LEMMA ReleaseStep ==
    ASSUME NEW j \in Jobs, \A k \in Jobs : k # j => Stutters(k),
           OwnerOf(j) # "nobody", OwnerOf(j)' = "nobody",
           \/ StatusOf(j) = "running" /\ StatusOf(j)' \in {"waiting", "settled"}
           \/ StatusOf(j) \in {"settled", "removed"} /\ StatusOf(j)' = StatusOf(j)
    PROVE  Lifecycle!Release(j)
BY DEF Stutters, Lifecycle!Release, Lifecycle!NoWorker

LEMMA CancelStep ==
    ASSUME NEW j \in Jobs, \A k \in Jobs : k # j => Stutters(k),
           StatusOf(j) \in {"waiting", "running", "stranded"},
           StatusOf(j)' = "settled", OwnerOf(j)' = OwnerOf(j)
    PROVE  Lifecycle!CancelJob(j)
BY DEF Stutters, Lifecycle!CancelJob

LEMMA RemoveStep ==
    ASSUME NEW S \in SUBSET Jobs, \A k \in Jobs \ S : Stutters(k),
           \A k \in S : /\ StatusOf(k) = "settled" /\ StatusOf(k)' = "removed"
                        /\ OwnerOf(k)' = OwnerOf(k)
    PROVE  Lifecycle!Remove(S)
BY DEF Stutters, Lifecycle!Remove

LEMMA StrandStep ==
    ASSUME NEW S \in SUBSET Jobs, \A k \in Jobs \ S : Stutters(k),
           Faults # {} \/ Sqlite,
           \A k \in S : /\ StatusOf(k) \notin {"none", "stranded"}
                        /\ StatusOf(k)' = IF StatusOf(k) \in {"waiting", "running"}
                                          THEN "stranded" ELSE StatusOf(k)
                        /\ OwnerOf(k)' = "nobody"
    PROVE  Lifecycle!Strand(S)
BY DEF Stutters, Lifecycle!Strand, Lifecycle!NoWorker

-----------------------------------------------------------------------------
(***************************************************************************)
(* What the refinement needs beside IInv.  A row that shows an outcome is  *)
(* settled, so that nothing but a removal follows;                         *)
(***************************************************************************)
FinalRowsAreSettled == \A j \in Jobs : rec[j].state \in Final => rec[j].settled

\* a worker that is done with a job does not write RUNNING;
OutcomesAreNotRunning ==
    \A w \in Workers, s \in Slots :
       slot[w][s].phase = "finishing" => slot[w][s].job.state # "RUNNING"

\* and what may strand a job has a cause outside the queue.
FaultsExplain ==
    /\ wire # {} => "late_progress" \in Faults
    /\ \A w \in Workers :
          proc[w] \in {"draining", "grace", "stopped"} => "stop" \in Faults

QueueInv == IInv /\ FinalRowsAreSettled /\ OutcomesAreNotRunning /\ FaultsExplain

LEMMA InitQueueInv == Init => QueueInv
<1>1. Init => FinalRowsAreSettled /\ OutcomesAreNotRunning /\ FaultsExplain
    BY DEF Init, FinalRowsAreSettled, OutcomesAreNotRunning, FaultsExplain, Final, Free
<1> QED
    BY <1>1, InitIInv DEF QueueInv

\* Update leaves a settled row, and one that is not there, as it is.
UpdatesOnly(job) ==
    /\ job.id \in Jobs
    /\ \A k \in Jobs : k # job.id => rec'[k] = rec[k]
    /\ rec[job.id].settled \/ rec[job.id].state \notin JobState => rec'[job.id] = rec[job.id]
    /\ rec[job.id].state \in JobState /\ ~rec[job.id].settled =>
          rec'[job.id] = [state |-> job.state, attempts |-> job.attempts,
                          settled |-> job.settled]

LEMMA UpdatedRow ==
    ASSUME TypeOK, NEW job \in Job, Update(job)
    PROVE  UpdatesOnly(job)
<1>1. job.id \in Jobs
    BY DEF Job
<1>2. rec' = [rec EXCEPT ![job.id] = Written(rec[job.id], job)]
    BY DEF Update
<1>3. \A k \in Jobs : k # job.id => rec'[k] = rec[k]
    BY <1>2 DEF TypeOK
<1>4. rec'[job.id] = Written(rec[job.id], job)
    BY <1>1, <1>2 DEF TypeOK
<1> QED
    BY <1>1, <1>3, <1>4 DEF Written, UpdatesOnly

\* The four UPDATE statements, and the copies they write.
LEMMA Writers ==
    ASSUME QueueInv
    PROVE  /\ \A job \in cancels : job \in Job /\ job.state = "CANCELLED" /\ job.settled
           /\ \A m \in wire : /\ m.job \in Job /\ "late_progress" \in Faults
                              /\ \/ m.job.state = "RUNNING" /\ ~m.job.settled
                                 \/ rec[m.job.id].settled
           /\ \A w \in Workers, s \in Slots :
                 LET job == slot[w][s].job IN
                 /\ Holding(w, s) => job \in Job /\ job.id \in Jobs
                 /\ slot[w][s].phase \in {"claimed", "starting"} =>
                       job.state = "RUNNING" /\ ~job.settled
                 /\ slot[w][s].phase = "finishing" =>
                       /\ job.state # "RUNNING"
                       /\ (job.settled <=> job.state \in Final) \/ rec[job.id].settled
BY DEF QueueInv, IInv, TypeOK, WritesAreOwnOrStale, CopiesAreOwnOrStale, CopyIsOwnOrStale,
       FaultsExplain, OutcomesAreNotRunning, Holding, Job

LEMMA NextFinalRows == QueueInv /\ [Next]_vars => FinalRowsAreSettled'
<1> SUFFICES ASSUME QueueInv, [Next]_vars PROVE FinalRowsAreSettled'
    OBVIOUS
<1> USE DEF dbVars, workerVars
<1>0. IInv /\ TypeOK /\ FinalRowsAreSettled
    BY DEF QueueInv, IInv
<1>1. ASSUME rec' = rec PROVE FinalRowsAreSettled'
    BY <1>0, <1>1 DEF FinalRowsAreSettled
<1>2. ASSUME NEW job \in Job, Update(job),
             (job.state \in Final => job.settled) \/ rec[job.id].settled
      PROVE  FinalRowsAreSettled'
  <2>1. UpdatesOnly(job)
    BY <1>0, <1>2, UpdatedRow
  <2>2. rec'[job.id].state \in Final => rec'[job.id].settled
    BY <1>0, <1>2, <2>1 DEF UpdatesOnly, FinalRowsAreSettled
  <2> QED
    BY <1>0, <2>1, <2>2 DEF UpdatesOnly, FinalRowsAreSettled
<1>3. ASSUME NEW j \in Jobs, Add(j) PROVE FinalRowsAreSettled'
    BY <1>0, <1>3 DEF Add, TypeOK, FinalRowsAreSettled, Final
<1>4. ASSUME NEW S \in SUBSET Jobs, RemoveSettledJobs(S) PROVE FinalRowsAreSettled'
    BY <1>0, <1>4 DEF RemoveSettledJobs, TypeOK, FinalRowsAreSettled, Final
<1>5. ASSUME NEW w \in Workers, NEW j \in Jobs, Claim(w, j) PROVE FinalRowsAreSettled'
    BY <1>0, <1>5 DEF Claim, Taken, TypeOK, FinalRowsAreSettled, Final
<1>6. ASSUME NEW job \in cancels, CancelWrite(job) PROVE FinalRowsAreSettled'
    BY <1>2, <1>6, Writers DEF CancelWrite
<1>7. ASSUME NEW m \in wire, ProgressWrite(m) PROVE FinalRowsAreSettled'
    BY <1>2, <1>7, Writers DEF ProgressWrite, Final
<1>8. ASSUME NEW w \in Workers, NEW s \in Slots,
             StartProcess(w, s) \/ OnFailOrComplete(w, s)
      PROVE  FinalRowsAreSettled'
    BY <1>2, <1>8, Writers DEF StartProcess, OnFailOrComplete, Holding, Final
<1>9. ASSUME NEW w \in Workers, NEW s \in Slots,
             \/ Push(w, s) \/ StartFails(w, s) \/ SendProgress(w, s)
             \/ SeeCancelled(w, s) \/ Finish(w, s) \/ FinalUpdateFails(w, s)
      PROVE  FinalRowsAreSettled'
    BY <1>1, <1>9
    DEF Push, StartFails, SendProgress, SeeCancelled, Finish, FinalUpdateFails
<1>10. ASSUME NEW w \in Workers,
              \/ BeginRound(w) \/ NothingDue(w) \/ NextFails(w) \/ ProcessStep(w)
       PROVE  FinalRowsAreSettled'
    BY <1>1, <1>10
    DEF BeginRound, NothingDue, NextFails, ProcessStep, StartQueue, StopQueue, Drained,
        StopSignal, Stopped, ProcessEnds
<1>11. ASSUME NEW j \in Jobs, CancelRead(j) \/ BackoffElapses(j) PROVE FinalRowsAreSettled'
    BY <1>1, <1>11 DEF CancelRead, BackoffElapses
<1>12. CASE UNCHANGED vars
    BY <1>1, <1>12 DEF vars
<1> QED
    BY <1>3, <1>4, <1>5, <1>6, <1>7, <1>8, <1>9, <1>10, <1>11, <1>12
    DEF Next, ApiStep, LoopStep, JobStep

LEMMA NextOutcomes == QueueInv /\ [Next]_vars => OutcomesAreNotRunning'
<1> SUFFICES ASSUME QueueInv, [Next]_vars,
                    NEW v \in Workers, NEW t \in Slots, slot'[v][t].phase = "finishing"
             PROVE  slot'[v][t].job.state # "RUNNING"
    BY DEF OutcomesAreNotRunning
<1> USE DEF dbVars, workerVars
<1>0. IInv /\ TypeOK /\ OutcomesAreNotRunning
    BY DEF QueueInv, IInv
<1>1. CASE slot'[v][t] = slot[v][t]
    BY <1>0, <1>1 DEF OutcomesAreNotRunning
<1>2. CASE slot'[v][t] # slot[v][t]
  <2>1. Finish(v, t) \/ StopSignal(v)
    <3>1. ASSUME NEW w \in Workers, NEW s \in Slots, NEW phase, NEW job,
                 SetSlot(w, s, phase, job)
          PROVE  v = w /\ t = s /\ phase = "finishing"
      BY <1>0, <1>2, <3>1 DEF SetSlot, TypeOK
    <3>2. ASSUME NEW w \in Workers, NEW j \in Jobs, Claim(w, j) PROVE FALSE
      <4>1. PICK s \in Slots : SetSlot(w, s, "claimed", Start(Copy(j)))
        BY <1>2, <3>2 DEF Claim
      <4> QED
        BY <3>1, <4>1
    <3>3. ASSUME NEW w \in Workers, NEW s \in Slots,
                 \/ Push(w, s) \/ StartProcess(w, s) \/ StartFails(w, s)
                 \/ SeeCancelled(w, s) \/ FinalUpdateFails(w, s)
          PROVE  FALSE
      <4>1. \E phase \in {"starting", "running", "leaked"}, job \in {slot[w][s].job, Cancel(slot[w][s].job)} :
               SetSlot(w, s, phase, job)
        BY <3>3 DEF Push, StartProcess, StartFails, SeeCancelled, FinalUpdateFails
      <4> QED
        BY <3>1, <4>1
    <3>4. ASSUME NEW w \in Workers, NEW s \in Slots, Finish(w, s) PROVE Finish(v, t)
      BY <1>2, <3>1, <3>4 DEF Finish
    <3>5. ASSUME NEW w \in Workers, NEW s \in Slots, OnFailOrComplete(w, s) PROVE FALSE
      BY <1>0, <1>2, <3>5 DEF OnFailOrComplete, RemoveJobFromActive, TypeOK, Free
    <3>6. ASSUME NEW w \in Workers, StopSignal(w) PROVE StopSignal(v)
      <4>1. v = w
        BY <1>0, <1>2, <3>6 DEF StopSignal, TypeOK
      <4> QED
        BY <3>6, <4>1
    <3>7. ASSUME NEW w \in Workers, ProcessEnds(w) PROVE FALSE
      BY <1>0, <1>2, <3>7 DEF ProcessEnds, TypeOK, Free
    <3>8. ASSUME slot' = slot PROVE FALSE
      BY <1>2, <3>8
    <3> QED
      BY <3>2, <3>3, <3>4, <3>5, <3>6, <3>7, <3>8
      DEF Next, ApiStep, LoopStep, JobStep, ProcessStep, vars, Add, RemoveSettledJobs,
          CancelRead, CancelWrite, BackoffElapses, ProgressWrite, BeginRound, NothingDue,
          NextFails, SendProgress, StartQueue, StopQueue, Drained, Stopped
  <2>2. CASE Finish(v, t)
    <3>1. PICK job \in Outcomes(slot[v][t].job) : SetSlot(v, t, "finishing", job)
      BY <2>2 DEF Finish
    <3>2. slot'[v][t].job = job
      BY <1>0, <3>1 DEF SetSlot, TypeOK
    <3>3. slot[v][t].job \in Job
      BY <1>0, <2>2 DEF Finish, Running, TypeOK
    <3> QED
      BY <3>1, <3>2, <3>3 DEF Outcomes, Complete, Fail, Cancel, Job
  <2>3. CASE StopSignal(v)
    <3>1. /\ slot[v][t].phase = "running"
          /\ slot'[v][t].job = Defer(slot[v][t].job)
      BY <1>0, <1>2, <2>3 DEF StopSignal, TypeOK
    <3>2. slot[v][t].job \in Job
      BY <1>0, <3>1 DEF TypeOK
    <3> QED
      BY <3>1, <3>2 DEF Defer, Job
  <2> QED
    BY <2>1, <2>2, <2>3
<1> QED
    BY <1>1, <1>2

LEMMA NextFaults == QueueInv /\ [Next]_vars => FaultsExplain'
<1> SUFFICES ASSUME QueueInv, [Next]_vars PROVE FaultsExplain'
    OBVIOUS
<1> USE DEF dbVars, workerVars
<1>0. TypeOK /\ FaultsExplain
    BY DEF QueueInv, IInv
<1>1. (\E w \in Workers, s \in Slots : SendProgress(w, s)) \/ wire' \subseteq wire
    BY ZenonT(60) DEF Next, ApiStep, LoopStep, JobStep, ProcessStep, vars, Add, RemoveSettledJobs,
           CancelRead, CancelWrite, BackoffElapses, ProgressWrite, BeginRound, Claim,
           NothingDue, NextFails, Push, StartProcess, StartFails, SeeCancelled, Finish,
           OnFailOrComplete, FinalUpdateFails, StartQueue, StopQueue, Drained, StopSignal,
           Stopped, ProcessEnds
<1>2. wire' # {} => "late_progress" \in Faults
    BY <1>0, <1>1 DEF SendProgress, FaultsExplain
<1>3. ASSUME NEW w \in Workers, ProcessStep(w), NEW v \in Workers,
             proc'[v] \in {"draining", "grace", "stopped"}
      PROVE  "stop" \in Faults
  <2>1. CASE StartQueue(w)
    BY <1>0, <1>3, <2>1 DEF StartQueue, TypeOK, FaultsExplain
  <2>2. CASE StopQueue(w)
    BY <2>2 DEF StopQueue
  <2>3. CASE Drained(w) \/ StopSignal(w) \/ Stopped(w)
    BY <1>0, <2>3 DEF Drained, StopSignal, Stopped, FaultsExplain
  <2>4. CASE ProcessEnds(w)
    BY <1>0, <1>3, <2>4 DEF ProcessEnds, TypeOK, FaultsExplain
  <2> QED
    BY <1>3, <2>1, <2>2, <2>3, <2>4 DEF ProcessStep
<1>4. (\E w \in Workers : ProcessStep(w)) \/ proc' = proc
    BY ZenonT(60) DEF Next, ApiStep, LoopStep, JobStep, vars, Add, RemoveSettledJobs,
           CancelRead, CancelWrite, BackoffElapses, ProgressWrite, BeginRound, Claim,
           NothingDue, NextFails, Push, StartProcess, StartFails, SendProgress,
           SeeCancelled, Finish, OnFailOrComplete, FinalUpdateFails
<1> QED
    BY <1>0, <1>2, <1>3, <1>4 DEF FaultsExplain

LEMMA NextQueueInv == QueueInv /\ [Next]_vars => QueueInv'
BY NextIInv, NextFinalRows, NextOutcomes, NextFaults DEF QueueInv

THEOREM QueueInvariance == Spec => []QueueInv
<1> QED
    BY InitQueueInv, NextQueueInv, PTL DEF Spec

-----------------------------------------------------------------------------
(***************************************************************************)
(* Who holds what after a step.                                            *)
(***************************************************************************)
SameHolders(k) == OwnerOf(k)' = OwnerOf(k) /\ (Held(k)' <=> Held(k))

LEMMA PlacesHoldTheSame ==
    ASSUME IInv, IInv',
           \A v \in Workers, t \in Slots :
              /\ Holding(v, t)' <=> Holding(v, t)
              /\ Holding(v, t) => slot'[v][t].job.id = slot[v][t].job.id
    PROVE  \A k \in Jobs : SameHolders(k)
<1>1. ASSUME NEW k \in Jobs, NEW v \in Workers PROVE Holds(v, k)' <=> Holds(v, k)
    BY DEF Holds
<1> QED
    BY <1>1, SameOwner DEF SameHolders

LEMMA LetGo ==
    ASSUME IInv, IInv', NEW w \in Workers, NEW s \in Slots,
           NEW id, id = slot[w][s].job.id, Holding(w, s), ~Holding(w, s)',
           \A v \in Workers, t \in Slots : (v = w /\ t = s) \/ slot'[v][t] = slot[v][t]
    PROVE  /\ id \in Jobs
           /\ Held(id) /\ OwnerOf(id) # "nobody"
           /\ ~Held(id)' /\ OwnerOf(id)' = "nobody"
           /\ \A k \in Jobs : k # id => SameHolders(k)
<1>1. id \in Jobs
    BY DEF IInv, TypeOK, Holding, Job
<1>2. Held(id)
    BY DEF Held, Holds
<1>3. ~Held(id)'
  <2> SUFFICES ASSUME NEW v \in Workers, NEW t \in Slots,
                      Holding(v, t)', slot'[v][t].job.id = id
               PROVE  FALSE
    BY DEF Held, Holds
  <2>1. slot'[v][t] = slot[v][t] /\ ~(v = w /\ t = s)
    OBVIOUS
  <2> QED
    BY <2>1 DEF IInv, OneHolder, Holding
<1>4. ASSUME NEW k \in Jobs, k # id, NEW v \in Workers
      PROVE  Holds(v, k)' <=> Holds(v, k)
    BY <1>4 DEF Holds, Holding
<1> QED
    BY <1>1, <1>2, <1>3, <1>4, OwnerFacts, OwnerFactsNext, SameOwner
    DEF OwnerKnown, SameHolders

\* One place changes and goes on holding the same job.
LEMMA KeptPlace ==
    ASSUME IInv, IInv', NEW w \in Workers, NEW s \in Slots, NEW phase, NEW job,
           SetSlot(w, s, phase, job), Holding(w, s), job.id = slot[w][s].job.id,
           phase \in {"claimed", "starting", "running", "finishing"}
    PROVE  \A k \in Jobs : SameHolders(k)
<1>1. \A v \in Workers, t \in Slots :
         slot'[v][t] = IF v = w /\ t = s THEN [phase |-> phase, job |-> job]
                                        ELSE slot[v][t]
    BY DEF IInv, TypeOK, SetSlot
<1> QED
    BY <1>1, PlacesHoldTheSame DEF Holding

\* A job whose row is waiting or was never there has no holder.
LEMMA HeldRow ==
    ASSUME IInv, NEW j \in Jobs, Held(j)
    PROVE  rec[j].state \in {"RUNNING", "removed"} \cup Final
BY DEF IInv, HeldRowNotWaiting, SettledRowsDoNotWait, Held, Holds

\* A step that strands one job its worker lets go.
LEMMA StrandOne ==
    ASSUME QueueInv, IInv', NEW w \in Workers, NEW s \in Slots,
           NEW id, id = slot[w][s].job.id, Holding(w, s), ~Holding(w, s)',
           \A v \in Workers, t \in Slots : (v = w /\ t = s) \/ slot'[v][t] = slot[v][t],
           rec' = rec, Faults # {}
    PROVE  id \in Jobs /\ Lifecycle!Strand({id})
<1>1. TypeOK /\ TypeOK' /\ IInv
    BY DEF QueueInv, IInv
<1>2. /\ id \in Jobs /\ Held(id) /\ ~Held(id)' /\ OwnerOf(id)' = "nobody"
      /\ \A k \in Jobs : k # id => SameHolders(k)
    BY <1>1, LetGo
<1>3. \A k \in Jobs \ {id} : Stutters(k)
    BY <1>1, <1>2, SameStatus DEF SameHolders, Stutters
<1>4. rec[id].state \in {"RUNNING", "removed"} \cup Final
    BY <1>1, <1>2, HeldRow
<1>5. StatusKnown(id) /\ StatusKnown(id)'
    BY <1>1, <1>2, StatusFacts, StatusFactsNext
<1>6. /\ StatusOf(id) \in {"running", "settled", "removed"}
      /\ StatusOf(id)' = IF StatusOf(id) = "running" THEN "stranded" ELSE StatusOf(id)
    BY <1>2, <1>4, <1>5 DEF StatusKnown
<1> QED
    BY <1>2, <1>3, <1>6, StrandStep

-----------------------------------------------------------------------------
(***************************************************************************)
(* Every step of the queue is a step of JobLifecycle or none at all.       *)
(***************************************************************************)
LEMMA RefinementStep ==
    QueueInv /\ [Next]_vars => [Lifecycle!Next]_(Lifecycle!vars)
<1> SUFFICES ASSUME QueueInv, [Next]_vars
             PROVE  Lifecycle!Next \/ UNCHANGED Lifecycle!vars
    OBVIOUS
<1> USE DEF dbVars, workerVars
<1>0. /\ IInv /\ IInv' /\ TypeOK /\ TypeOK'
      /\ FinalRowsAreSettled /\ SettledRowsDoNotWait
    BY NextQueueInv DEF QueueInv, IInv
<1>1. \A k \in Jobs : /\ StatusKnown(k) /\ StatusKnown(k)'
                      /\ OwnerKnown(k) /\ OwnerKnown(k)'
    BY <1>0, StatusFacts, StatusFactsNext, OwnerFacts, OwnerFactsNext
\* A step that moves neither a row's state nor a holder.
<1>2. ASSUME \A k \in Jobs : rec'[k].state = rec[k].state, \A k \in Jobs : SameHolders(k)
      PROVE  UNCHANGED Lifecycle!vars
    BY <1>0, <1>2, SameStatus, StutterStep DEF SameHolders, Stutters
\* A step that moves no holder at all.
<1>3. ASSUME slot' = slot PROVE \A k \in Jobs : SameHolders(k)
    BY <1>0, <1>3, PlacesHoldTheSame DEF Holding
<1>4. ASSUME rec' = rec, slot' = slot PROVE UNCHANGED Lifecycle!vars
    BY <1>2, <1>3, <1>4
<1>5. ASSUME NEW j \in Jobs, Add(j) PROVE Lifecycle!Submit(j)
  <2>1. /\ rec[j].state = "absent" /\ rec'[j].state = "PENDING"
        /\ \A k \in Jobs : k # j => rec'[k] = rec[k]
        /\ \A k \in Jobs : SameHolders(k)
    BY <1>0, <1>3, <1>5 DEF Add, TypeOK
  <2>2. StatusOf(j) = "none" /\ StatusOf(j)' = "waiting"
    BY <1>1, <2>1 DEF StatusKnown, Waiting
  <2>3. \A k \in Jobs : k # j => Stutters(k)
    BY <1>0, <2>1, SameStatus DEF SameHolders, Stutters
  <2> QED
    BY <2>1, <2>2, <2>3, SubmitStep DEF SameHolders
<1>6. ASSUME NEW S \in SUBSET Jobs, RemoveSettledJobs(S) PROVE Lifecycle!Remove(S)
  <2>1. /\ \A k \in S : rec[k].state \in Final /\ rec'[k].state = "removed"
        /\ \A k \in Jobs \ S : rec'[k] = rec[k]
        /\ \A k \in Jobs : SameHolders(k)
    <3>1. rec' = [k \in Jobs |-> IF k \in S THEN [rec[k] EXCEPT !.state = "removed"]
                                           ELSE rec[k]]
      BY <1>6 DEF RemoveSettledJobs
    <3>2. \A k \in S : rec[k].state \in Final
      BY <1>0, <1>6
      DEF RemoveSettledJobs, Removable, Exists, SettledRowsDoNotWait, JobState, Waiting, Final
    <3>3. \A k \in S : rec'[k].state = "removed"
      BY <1>0, <3>1 DEF TypeOK
    <3>4. \A k \in Jobs : SameHolders(k)
      BY <1>3, <1>6 DEF RemoveSettledJobs
    <3> QED
      BY <3>1, <3>2, <3>3, <3>4
  <2>2. \A k \in S : StatusOf(k) = "settled" /\ StatusOf(k)' = "removed"
    BY <1>1, <2>1 DEF StatusKnown
  <2>3. \A k \in Jobs \ S : Stutters(k)
    BY <1>0, <2>1, SameStatus DEF SameHolders, Stutters
  <2> QED
    BY <2>1, <2>2, <2>3, RemoveStep DEF SameHolders
<1>7. ASSUME NEW job \in cancels, CancelWrite(job)
      PROVE  Lifecycle!CancelJob(job.id) \/ UNCHANGED Lifecycle!vars
  <2>1. job.state = "CANCELLED" /\ job.settled /\ UpdatesOnly(job)
    BY <1>0, <1>7, Writers, UpdatedRow DEF CancelWrite
  <2>2. \A k \in Jobs : SameHolders(k)
    BY <1>3, <1>7 DEF CancelWrite
  <2>3. CASE rec[job.id].settled \/ rec[job.id].state \notin JobState
    BY <1>2, <2>1, <2>2, <2>3 DEF UpdatesOnly
  <2>4. CASE ~rec[job.id].settled /\ rec[job.id].state \in JobState
    <3>1. /\ rec[job.id].state \in Waiting \cup {"RUNNING"}
          /\ rec'[job.id].state \in Final
      BY <1>0, <2>1, <2>4 DEF UpdatesOnly, FinalRowsAreSettled, JobState, Final
    <3>2. /\ StatusOf(job.id) \in {"waiting", "running", "stranded"}
          /\ StatusOf(job.id)' = "settled"
      BY <1>1, <2>1, <3>1 DEF StatusKnown, UpdatesOnly
    <3>3. \A k \in Jobs : k # job.id => Stutters(k)
      BY <1>0, <2>1, <2>2, SameStatus DEF UpdatesOnly, SameHolders, Stutters
    <3> QED
      BY <2>1, <2>2, <3>2, <3>3, CancelStep DEF UpdatesOnly, SameHolders
  <2> QED
    BY <2>3, <2>4
<1>8. ASSUME NEW m \in wire, ProgressWrite(m)
      PROVE  Lifecycle!Strand({m.job.id}) \/ UNCHANGED Lifecycle!vars
  <2> DEFINE id == m.job.id
  <2>1. /\ UpdatesOnly(m.job) /\ id \in Jobs /\ Faults # {}
        /\ m.job.state = "RUNNING" \/ rec[id].settled
    BY <1>0, <1>8, Writers, UpdatedRow DEF ProgressWrite, UpdatesOnly
  <2>2. \A k \in Jobs : SameHolders(k)
    BY <1>3, <1>8 DEF ProgressWrite
  <2>3. CASE rec[id].state \notin Waiting
    <3>1. rec'[id].state = rec[id].state
      BY <1>0, <2>1, <2>3 DEF UpdatesOnly, FinalRowsAreSettled, JobState
    <3> QED
      BY <1>2, <2>1, <2>2, <3>1 DEF UpdatesOnly
  <2>4. CASE rec[id].state \in Waiting
    <3>1. ~rec[id].settled /\ rec[id].state \in JobState
      BY <1>0, <2>1, <2>4 DEF SettledRowsDoNotWait, Waiting, Final, JobState
    <3>2. rec'[id].state = "RUNNING"
      BY <2>1, <3>1 DEF UpdatesOnly
    <3>3. ~Held(id) /\ ~Held(id)'
      BY <1>0, <2>1, <2>2, <2>4, HeldRow DEF Waiting, Final, SameHolders
    <3>4. /\ StatusOf(id) = "waiting" /\ StatusOf(id)' = "stranded"
          /\ OwnerOf(id)' = "nobody"
      BY <1>1, <2>1, <2>4, <3>2, <3>3 DEF StatusKnown, OwnerKnown
    <3>5. \A k \in Jobs \ {id} : Stutters(k)
      BY <1>0, <2>1, <2>2, SameStatus DEF UpdatesOnly, SameHolders, Stutters
    <3> QED
      BY <2>1, <3>4, <3>5, StrandStep
  <2> QED
    BY <2>3, <2>4
<1>9. ASSUME NEW w \in Workers, NEW j \in Jobs, Claim(w, j)
      PROVE  Lifecycle!Take(w, j) \/ Lifecycle!Strand({j})
  <2>1. rec[j].state \in Waiting
    BY <1>9 DEF Claim, IsNext, Due
  <2>2. rec'[j].state = "RUNNING" /\ \A k \in Jobs : k # j => rec'[k] = rec[k]
    BY <1>0, <1>9 DEF Claim, Taken, TypeOK
  <2>3. ~Held(j)
    BY <1>0, <2>1, HeldRow DEF Waiting, Final
  <2>4. StatusOf(j) = "waiting" /\ OwnerOf(j) = "nobody"
    BY <1>1, <2>1, <2>3 DEF StatusKnown, OwnerKnown
  <2>5. CASE Sqlite
    <3>1. \A k \in Jobs : SameHolders(k)
      BY <1>3, <1>9, <2>5 DEF Claim
    <3>2. StatusOf(j)' = "stranded" /\ OwnerOf(j)' = "nobody"
      BY <1>1, <2>2, <2>3, <2>4, <3>1 DEF StatusKnown, SameHolders
    <3>3. \A k \in Jobs \ {j} : Stutters(k)
      BY <1>0, <2>2, <3>1, SameStatus DEF SameHolders, Stutters
    <3> QED
      BY <2>4, <2>5, <3>2, <3>3, StrandStep
  <2>6. CASE ~Sqlite
    <3>1. PICK s \in Slots : /\ FirstFree(w, s)
                             /\ SetSlot(w, s, "claimed", Start(Copy(j)))
      BY <1>9, <2>6 DEF Claim
    <3>2. Start(Copy(j)).id = j
      BY DEF Start, Copy
    <3>3. \A v \in Workers, t \in Slots :
             slot'[v][t] = IF v = w /\ t = s
                           THEN [phase |-> "claimed", job |-> Start(Copy(j))]
                           ELSE slot[v][t]
      BY <1>0, <3>1 DEF TypeOK, SetSlot
    <3>4. Holds(w, j)'
      BY <3>2, <3>3 DEF Holds, Holding
    <3>5. ~Holding(w, s)
      BY <3>1 DEF FirstFree, Holding
    <3>6. ASSUME NEW k \in Jobs, k # j PROVE Stutters(k)
      <4>1. \A v \in Workers : Holds(v, k)' <=> Holds(v, k)
        BY <3>2, <3>3, <3>5, <3>6 DEF Holds, Holding
      <4> QED
        BY <1>0, <2>2, <3>6, <4>1, SameOwner, SameStatus DEF Stutters
    <3>7. OwnerOf(j)' = w /\ Held(j)'
      BY <1>1, <3>4 DEF OwnerKnown, Held
    <3>8. StatusOf(j)' = "running"
      BY <1>1, <2>2, <3>7 DEF StatusKnown
    <3> QED
      BY <2>4, <3>6, <3>7, <3>8, TakeStep
  <2> QED
    BY <2>5, <2>6
<1>10. ASSUME NEW w \in Workers, NEW s \in Slots,
              Push(w, s) \/ SeeCancelled(w, s) \/ Finish(w, s)
       PROVE  UNCHANGED Lifecycle!vars
  <2>1. Holding(w, s) /\ rec' = rec /\ slot[w][s].job \in Job
    BY <1>0, <1>10 DEF Push, SeeCancelled, Finish, Running, Holding, TypeOK
  <2>2. \E phase \in {"starting", "running", "finishing"}, job \in Job :
           SetSlot(w, s, phase, job) /\ job.id = slot[w][s].job.id
    BY <1>10, <2>1, MethodTypes DEF Push, SeeCancelled, Finish, Outcomes
  <2>3. \A k \in Jobs : SameHolders(k)
    BY <1>0, <2>1, <2>2, KeptPlace
  <2> QED
    BY <1>2, <2>1, <2>3
<1>11. ASSUME NEW w \in Workers, NEW s \in Slots, StartProcess(w, s)
       PROVE  UNCHANGED Lifecycle!vars
  <2> DEFINE job == slot[w][s].job
  <2>1. /\ Holding(w, s) /\ SetSlot(w, s, "running", job)
        /\ job \in Job /\ job.id \in Jobs
        /\ job.state = "RUNNING" /\ Update(job)
    BY <1>11, Writers DEF StartProcess, Holding
  <2>2. UpdatesOnly(job)
    BY <1>0, <2>1, UpdatedRow
  <2>3. rec[job.id].state = "RUNNING" \/ rec[job.id].settled
    BY <1>0, <2>1 DEF IInv, HeldRowNotWaiting
  <2>4. \A k \in Jobs : rec'[k].state = rec[k].state
    BY SMTT(30), <2>1, <2>2, <2>3 DEF UpdatesOnly, JobState
  <2>5. \A k \in Jobs : SameHolders(k)
    BY <1>0, <2>1, KeptPlace
  <2> QED
    BY <1>2, <2>4, <2>5
<1>12. ASSUME NEW w \in Workers, NEW s \in Slots, StartFails(w, s) \/ FinalUpdateFails(w, s)
       PROVE  \E id \in Jobs : Lifecycle!Strand({id})
  <2>1. /\ Holding(w, s) /\ rec' = rec /\ Faults # {}
        /\ SetSlot(w, s, "leaked", slot[w][s].job)
    BY <1>12 DEF StartFails, FinalUpdateFails, Holding
  <2>2. \A v \in Workers, t \in Slots :
           slot'[v][t] = IF v = w /\ t = s
                         THEN [phase |-> "leaked", job |-> slot[w][s].job]
                         ELSE slot[v][t]
    BY <1>0, <2>1 DEF TypeOK, SetSlot
  <2>3. ~Holding(w, s)'
    BY <2>2 DEF Holding
  <2> QED
    BY <1>0, <2>1, <2>2, <2>3, StrandOne
<1>13. ASSUME NEW w \in Workers, NEW s \in Slots, OnFailOrComplete(w, s)
       PROVE  \E id \in Jobs : Lifecycle!Release(id)
  <2> DEFINE job == slot[w][s].job
  <2> PICK id : id = slot[w][s].job.id
    OBVIOUS
  <2>1. /\ Holding(w, s) /\ job \in Job /\ job.state # "RUNNING"
        /\ (job.settled <=> job.state \in Final) \/ rec[id].settled
    BY <1>13, Writers DEF OnFailOrComplete, Holding
  <2>2. UpdatesOnly(job)
    BY <1>0, <1>13, <2>1, UpdatedRow DEF OnFailOrComplete
  <2>3. \A v \in Workers, t \in Slots :
           slot'[v][t] = IF v = w /\ t = s THEN Free ELSE slot[v][t]
    BY <1>0, <1>13 DEF OnFailOrComplete, RemoveJobFromActive, TypeOK
  <2>4. ~Holding(w, s)'
    BY <2>3 DEF Holding, Free
  <2>5. /\ id \in Jobs
        /\ Held(id) /\ OwnerOf(id) # "nobody"
        /\ ~Held(id)' /\ OwnerOf(id)' = "nobody"
        /\ \A k \in Jobs : k # id => SameHolders(k)
    BY <1>0, <2>1, <2>3, <2>4, LetGo
  <2>6. \A k \in Jobs : k # id => Stutters(k)
    BY <1>0, <2>2, <2>5, SameStatus DEF UpdatesOnly, SameHolders, Stutters
  <2>7. CASE rec[id].settled
    <3>1. rec'[id] = rec[id] /\ rec[id].state \in Final \cup {"removed"}
      BY <1>0, <2>2, <2>5, <2>7 DEF UpdatesOnly, SettledRowsDoNotWait
    <3>2. StatusOf(id) \in {"settled", "removed"} /\ StatusOf(id)' = StatusOf(id)
      BY <1>1, <2>5, <3>1 DEF StatusKnown
    <3> QED
      BY <2>5, <2>6, <3>2, ReleaseStep
  <2>8. CASE ~rec[id].settled
    <3>1. rec[id].state = "RUNNING"
      BY <1>0, <2>1, <2>8 DEF IInv, HeldRowNotWaiting
    <3>2. rec'[id].state \in Waiting \cup Final
      BY SMTT(30), <2>1, <2>2, <2>8, <3>1 DEF UpdatesOnly, Job, JobState
    <3>3. StatusOf(id) = "running" /\ StatusOf(id)' \in {"waiting", "settled"}
      BY <1>1, <2>5, <3>1, <3>2 DEF StatusKnown
    <3> QED
      BY <2>5, <2>6, <3>3, ReleaseStep
  <2> QED
    BY <2>5, <2>7, <2>8
<1>14. ASSUME NEW w \in Workers, StopSignal(w) PROVE UNCHANGED Lifecycle!vars
  <2>1. \A v \in Workers, t \in Slots :
           slot'[v][t] = IF v = w /\ slot[v][t].phase = "running"
                         THEN [phase |-> "finishing", job |-> Defer(slot[v][t].job)]
                         ELSE slot[v][t]
    BY <1>0, <1>14 DEF StopSignal, TypeOK
  <2>2. \A t \in Slots : slot[w][t].phase = "running" =>
           Defer(slot[w][t].job).id = slot[w][t].job.id
    BY <1>0, MethodTypes DEF TypeOK
  <2>3. \A k \in Jobs : SameHolders(k)
    <3>1. ASSUME NEW v \in Workers, NEW t \in Slots
          PROVE  /\ Holding(v, t)' <=> Holding(v, t)
                 /\ Holding(v, t) => slot'[v][t].job.id = slot[v][t].job.id
      <4>1. CASE v = w /\ slot[v][t].phase = "running"
        <5>1. slot'[v][t] = [phase |-> "finishing", job |-> Defer(slot[w][t].job)]
          BY <2>1, <4>1
        <5> QED
          BY <2>2, <4>1, <5>1 DEF Holding
      <4>2. CASE slot'[v][t] = slot[v][t]
        BY <4>2 DEF Holding
      <4> QED
        BY <2>1, <4>1, <4>2
    <3> QED
      BY <1>0, <3>1, PlacesHoldTheSame
  <2> QED
    BY <1>2, <1>14, <2>3 DEF StopSignal
<1>15. ASSUME NEW w \in Workers, ProcessEnds(w) PROVE \E S \in SUBSET Jobs : Lifecycle!Strand(S)
  <2> DEFINE S == {k \in Jobs : Holds(w, k)}
  <2>1. Faults # {} /\ rec' = rec
    BY <1>15 DEF ProcessEnds, QueueInv, FaultsExplain
  <2>2. \A v \in Workers, t \in Slots :
           slot'[v][t] = IF v = w THEN Free ELSE slot[v][t]
    BY <1>0, <1>15 DEF ProcessEnds, TypeOK
  <2>3. \A k \in Jobs, v \in Workers : Holds(v, k)' <=> v # w /\ Holds(v, k)
    BY <2>2 DEF Holds, Holding, Free
  <2>4. ASSUME NEW k \in Jobs \ S PROVE Stutters(k)
    <3>1. \A v \in Workers : Holds(v, k)' <=> Holds(v, k)
      BY <2>3
    <3> QED
      BY <1>0, <2>1, <3>1, SameOwner, SameStatus DEF Stutters
  <2>5. ASSUME NEW k \in S
        PROVE  /\ StatusOf(k) \notin {"none", "stranded"}
               /\ StatusOf(k)' = IF StatusOf(k) \in {"waiting", "running"}
                                 THEN "stranded" ELSE StatusOf(k)
               /\ OwnerOf(k)' = "nobody"
    <3>1. Held(k) /\ ~Held(k)'
      BY <1>0, <2>3 DEF Held, Holds, IInv, OneHolder
    <3>2. rec[k].state \in {"RUNNING", "removed"} \cup Final
      BY <1>0, <3>1, HeldRow
    <3>3. OwnerOf(k)' = "nobody"
      BY <1>1, <3>1 DEF OwnerKnown
    <3> QED
      BY <1>1, <2>1, <3>1, <3>2, <3>3 DEF StatusKnown
  <2> QED
    BY <2>1, <2>4, <2>5, StrandStep
<1>16. ASSUME NEW w \in Workers,
              \/ BeginRound(w) \/ NothingDue(w) \/ NextFails(w)
              \/ StartQueue(w) \/ StopQueue(w) \/ Drained(w) \/ Stopped(w)
       PROVE  UNCHANGED Lifecycle!vars
    BY <1>4, <1>16
    DEF BeginRound, NothingDue, NextFails, StartQueue, StopQueue, Drained, Stopped
<1>17. ASSUME NEW w \in Workers, NEW s \in Slots, SendProgress(w, s)
       PROVE  UNCHANGED Lifecycle!vars
    BY <1>4, <1>17 DEF SendProgress
<1>18. ASSUME NEW j \in Jobs, CancelRead(j) \/ BackoffElapses(j)
       PROVE  UNCHANGED Lifecycle!vars
    BY <1>4, <1>18 DEF CancelRead, BackoffElapses
<1>19. CASE UNCHANGED vars
    BY <1>4, <1>19 DEF vars
<1>20. ASSUME NEW job \in cancels PROVE job.id \in Jobs
    BY <1>0, <1>20 DEF TypeOK, Job
<1>21. ASSUME NEW m \in wire PROVE m.job.id \in Jobs
    BY <1>0, <1>21 DEF TypeOK, Job
<1> QED
    BY <1>5, <1>6, <1>7, <1>8, <1>9, <1>10, <1>11, <1>12, <1>13, <1>14, <1>15, <1>16,
       <1>17, <1>18, <1>19, <1>20, <1>21
    DEF Next, ApiStep, LoopStep, JobStep, ProcessStep, Lifecycle!Next

\* The queue implements JobLifecycle: whatever the workers, the timers, the
\* late writes and the crashes do, a job is taken only while it waits, has one
\* owner, and its outcome stands.
THEOREM QueueImplementsLifecycle == Spec => ImplementsLifecycle
<1>1. Init => Lifecycle!Init
  <2> SUFFICES ASSUME Init PROVE Lifecycle!Init
    OBVIOUS
  <2>1. ASSUME NEW j \in Jobs PROVE StatusOf(j) = "none" /\ OwnerOf(j) = "nobody"
    <3>1. ~Held(j)
      BY DEF Init, Held, Holds, Holding, Free
    <3>2. rec[j].state = "absent"
      BY DEF Init
    <3> QED
      BY <3>1, <3>2 DEF StatusOf, OwnerOf, Final, Waiting
  <2> QED
    BY <2>1 DEF Lifecycle!Init, Lifecycle!NoWorker
<1> QED
    BY <1>1, RefinementStep, QueueInvariance, PTL
    DEF Spec, ImplementsLifecycle, Lifecycle!Spec

-----------------------------------------------------------------------------
(***************************************************************************)
(* Without faults, on a database that can lock rows, nothing strands: it   *)
(* is the one step of JobLifecycle that could, and it is not allowed.      *)
(***************************************************************************)
NobodyStrands == ~(Faults # {} \/ Sqlite)
NoneStranded == \A j \in Jobs : StatusOf(j) # "stranded"

LEMMA LifecycleStrandsNobody ==
    ASSUME NobodyStrands, NoneStranded, Lifecycle!Next \/ UNCHANGED Lifecycle!vars
    PROVE  NoneStranded'
<1> SUFFICES ASSUME NEW k \in Jobs PROVE StatusOf(k)' # "stranded"
    BY DEF NoneStranded
<1> DEFINE status == [j \in Jobs |-> StatusOf(j)]
<1>1. status[k] = StatusOf(k) /\ status'[k] = StatusOf(k)' /\ StatusOf(k) # "stranded"
    BY DEF NoneStranded
<1>2. ASSUME NEW j \in Jobs, Lifecycle!Submit(j) \/ Lifecycle!Release(j) \/ Lifecycle!CancelJob(j)
      PROVE  status'[k] # "stranded"
    BY <1>1, <1>2 DEF Lifecycle!Submit, Lifecycle!Release, Lifecycle!CancelJob
<1>3. ASSUME NEW j \in Jobs, NEW w \in Workers, Lifecycle!Take(w, j)
      PROVE  status'[k] # "stranded"
    BY <1>1, <1>3 DEF Lifecycle!Take
<1>4. ASSUME NEW S \in SUBSET Jobs, Lifecycle!Remove(S) PROVE status'[k] # "stranded"
    BY <1>1, <1>4 DEF Lifecycle!Remove
<1>5. ASSUME NEW S \in SUBSET Jobs, Lifecycle!Strand(S) PROVE FALSE
    BY <1>5 DEF Lifecycle!Strand, NobodyStrands
<1>6. CASE UNCHANGED Lifecycle!vars
    BY <1>1, <1>6 DEF Lifecycle!vars
<1> QED
    BY <1>1, <1>2, <1>3, <1>4, <1>5, <1>6 DEF Lifecycle!Next

\* Without faults a RUNNING row always has a worker that will settle it.
THEOREM RunningJobsAreHeld ==
    ASSUME NobodyStrands
    PROVE  Spec => []RunningHasHolder
<1>1. Init => NoneStranded
    BY DEF Init, NoneStranded, StatusOf, Final, Waiting
<1>2. QueueInv /\ NoneStranded /\ [Next]_vars => NoneStranded'
    BY RefinementStep, LifecycleStrandsNobody
<1>3. QueueInv /\ NoneStranded => RunningHasHolder
    BY StatusFacts DEF QueueInv, IInv, NoneStranded, StatusKnown, RunningHasHolder
<1> QED
    BY <1>1, <1>2, <1>3, QueueInvariance, PTL DEF Spec

-----------------------------------------------------------------------------
(***************************************************************************)
(* How often a job is executed, which JobLifecycle does not say.  The row  *)
(* counts the attempts only while the job waits: late progress writes may  *)
(* put anything there while it runs.  In between the copy counts them.     *)
(***************************************************************************)
RowCounts(j) ==
    /\ runs[j] <= Retries + 1
    /\ rec[j].state = "absent" => rec[j].attempts = 0 /\ runs[j] = 0
    /\ rec[j].state \in Waiting => rec[j].attempts = runs[j] /\ runs[j] <= Retries
    /\ rec[j].state = "FAILED" => runs[j] = Retries + 1 /\ ~Held(j)

CopyCounts(w, s) ==
    LET phase == slot[w][s].phase
        job == slot[w][s].job
    IN  /\ phase \in {"claimed", "starting"} =>
              job.attempts = runs[job.id] + 1 /\ job.attempts <= Retries + 1
        /\ phase \in {"running", "finishing"} => job.attempts = runs[job.id]
        /\ phase = "running" => job.state \in {"RUNNING", "CANCELLED"}
        /\ phase = "finishing" /\ job.state \in Waiting => job.attempts <= Retries
        /\ phase = "finishing" /\ job.state = "FAILED" => job.attempts = Retries + 1

AttemptsInv ==
    /\ \A j \in Jobs : RowCounts(j)
    /\ \A w \in Workers, s \in Slots : CopyCounts(w, s)

LEMMA InitAttempts == Init => AttemptsInv
<1> SUFFICES ASSUME Init PROVE AttemptsInv
    OBVIOUS
<1>1. ASSUME NEW j \in Jobs PROVE RowCounts(j)
  <2>1. rec[j].state = "absent" /\ rec[j].attempts = 0 /\ runs[j] = 0
    BY DEF Init
  <2> QED
    BY <2>1 DEF RowCounts, Waiting
<1>2. \A w \in Workers, s \in Slots : CopyCounts(w, s)
    BY DEF Init, CopyCounts, Free
<1> QED
    BY <1>1, <1>2 DEF AttemptsInv

\* What a step leaves alone goes on counting.
LEMMA SameRowCounts ==
    ASSUME NEW j \in Jobs, RowCounts(j), rec'[j] = rec[j], runs'[j] = runs[j],
           Held(j)' => Held(j)
    PROVE  RowCounts(j)'
BY DEF RowCounts

LEMMA SameCopyCounts ==
    ASSUME NEW w \in Workers, NEW s \in Slots, CopyCounts(w, s),
           slot'[w][s] = slot[w][s],
           Holding(w, s) => runs'[slot[w][s].job.id] = runs[slot[w][s].job.id]
    PROVE  CopyCounts(w, s)'
BY DEF CopyCounts, Holding

\* The three writes that do not count attempts: into a settled row, over a
\* running one, or CANCELLED.
LEMMA UncountedWrite ==
    ASSUME IInv, IInv', AttemptsInv, NEW job \in Job, UpdatesOnly(job),
           job.state \in {"RUNNING", "CANCELLED"} \/ rec[job.id].settled,
           slot' = slot, runs' = runs
    PROVE  AttemptsInv'
<1>1. \A k \in Jobs : SameHolders(k)
    BY PlacesHoldTheSame DEF Holding
<1>2. ASSUME NEW k \in Jobs PROVE RowCounts(k)'
  <2>1. CASE rec'[k] = rec[k]
    BY <1>1, <2>1, SameRowCounts DEF AttemptsInv, SameHolders
  <2>2. CASE rec'[k] # rec[k]
    <3>1. rec'[k].state \in {"RUNNING", "CANCELLED"}
      BY <2>2 DEF UpdatesOnly
    <3> QED
      BY <3>1 DEF AttemptsInv, RowCounts, Waiting
  <2> QED
    BY <2>1, <2>2
<1>3. \A v \in Workers, t \in Slots : CopyCounts(v, t)'
    BY SameCopyCounts DEF AttemptsInv
<1> QED
    BY <1>2, <1>3 DEF AttemptsInv

LEMMA NextAttempts == QueueInv /\ AttemptsInv /\ [Next]_vars => AttemptsInv'
<1> SUFFICES ASSUME QueueInv, AttemptsInv, [Next]_vars PROVE AttemptsInv'
    OBVIOUS
<1> USE DEF dbVars, workerVars
<1>0. IInv /\ IInv' /\ TypeOK /\ TypeOK' /\ SettledRowsDoNotWait
    BY NextQueueInv DEF QueueInv, IInv
<1>1. ASSUME slot' = slot PROVE \A k \in Jobs : SameHolders(k)
    BY <1>0, <1>1, PlacesHoldTheSame DEF Holding
<1>2. ASSUME rec' = rec, slot' = slot, runs' = runs PROVE AttemptsInv'
    BY <1>1, <1>2, SameRowCounts, SameCopyCounts DEF AttemptsInv, SameHolders
<1>3. ASSUME NEW j \in Jobs, Add(j) PROVE AttemptsInv'
  <2>1. /\ rec[j].state = "absent" /\ rec'[j].state = "PENDING"
        /\ rec'[j].attempts = rec[j].attempts
        /\ \A k \in Jobs : k # j => rec'[k] = rec[k]
        /\ slot' = slot /\ runs' = runs
    BY <1>0, <1>3 DEF Add, TypeOK
  <2>2. RowCounts(j)'
    <3>1. rec'[j].attempts = 0 /\ runs'[j] = 0 /\ rec'[j].state = "PENDING"
      BY <2>1 DEF AttemptsInv, RowCounts
    <3> QED
      BY <3>1 DEF RowCounts, Waiting
  <2> QED
    BY <1>1, <2>1, <2>2, SameRowCounts, SameCopyCounts DEF AttemptsInv, SameHolders
<1>4. ASSUME NEW S \in SUBSET Jobs, RemoveSettledJobs(S) PROVE AttemptsInv'
  <2>1. /\ rec' = [k \in Jobs |-> IF k \in S THEN [rec[k] EXCEPT !.state = "removed"]
                                             ELSE rec[k]]
        /\ slot' = slot /\ runs' = runs
    BY <1>4 DEF RemoveSettledJobs
  <2>2. ASSUME NEW k \in S PROVE RowCounts(k)'
    <3>1. rec'[k].state = "removed"
      BY <1>0, <2>1 DEF TypeOK
    <3> QED
      BY <2>1, <3>1 DEF AttemptsInv, RowCounts, Waiting
  <2>3. ASSUME NEW k \in Jobs \ S PROVE RowCounts(k)'
    BY <1>1, <2>1, SameRowCounts DEF AttemptsInv, SameHolders
  <2> QED
    BY <2>1, <2>2, <2>3, SameCopyCounts DEF AttemptsInv
<1>5. ASSUME NEW job \in cancels, CancelWrite(job) PROVE AttemptsInv'
    BY <1>0, <1>5, Writers, UpdatedRow, UncountedWrite DEF CancelWrite
<1>6. ASSUME NEW m \in wire, ProgressWrite(m) PROVE AttemptsInv'
    BY <1>0, <1>6, Writers, UpdatedRow, UncountedWrite DEF ProgressWrite
<1>7. ASSUME NEW w \in Workers, NEW j \in Jobs, Claim(w, j) PROVE AttemptsInv'
  <2>1. rec[j].state \in Waiting /\ runs' = runs /\ ~Held(j)
    BY <1>0, <1>7, HeldRow DEF Claim, IsNext, Due, Waiting, Final
  <2>2. rec'[j].state = "RUNNING" /\ \A k \in Jobs : k # j => rec'[k] = rec[k]
    BY <1>0, <1>7 DEF Claim, Taken, TypeOK
  <2>3. RowCounts(j)'
    BY <2>1, <2>2 DEF AttemptsInv, RowCounts, Waiting
  <2>4. CASE Sqlite
    <3>1. slot' = slot
      BY <1>7, <2>4 DEF Claim
    <3> QED
      BY <1>1, <2>1, <2>2, <2>3, <3>1, SameRowCounts, SameCopyCounts
      DEF AttemptsInv, SameHolders
  <2>5. CASE ~Sqlite
    <3>1. PICK s \in Slots : /\ FirstFree(w, s)
                             /\ SetSlot(w, s, "claimed", Start(Copy(j)))
      BY <1>7, <2>5 DEF Claim
    <3>2. \A v \in Workers, t \in Slots :
             slot'[v][t] = IF v = w /\ t = s
                           THEN [phase |-> "claimed", job |-> Start(Copy(j))]
                           ELSE slot[v][t]
      BY <1>0, <3>1 DEF TypeOK, SetSlot
    <3>3. Start(Copy(j)).id = j /\ Start(Copy(j)).attempts = rec[j].attempts + 1
      BY DEF Start, Copy
    <3>4. rec[j].attempts = runs[j] /\ runs[j] <= Retries /\ runs[j] \in Nat
      BY <1>0, <2>1 DEF AttemptsInv, RowCounts, TypeOK
    <3>5. CopyCounts(w, s)'
      <4>1. /\ slot'[w][s].phase = "claimed" /\ slot'[w][s].job.id = j
            /\ slot'[w][s].job.attempts = runs'[j] + 1
        BY <2>1, <3>2, <3>3, <3>4
      <4>2. runs'[j] + 1 <= Retries + 1
        BY <2>1, <3>4
      <4> QED
        BY <4>1, <4>2 DEF CopyCounts
    <3>6. \A v \in Workers, t \in Slots : CopyCounts(v, t)'
      BY <2>1, <3>2, <3>5, SameCopyCounts DEF AttemptsInv
    <3>7. ASSUME NEW k \in Jobs, k # j PROVE RowCounts(k)'
      <4>1. Held(k)' => Held(k)
        BY <3>2, <3>3, <3>7 DEF Held, Holds, Holding
      <4> QED
        BY <2>1, <2>2, <3>7, <4>1, SameRowCounts DEF AttemptsInv
    <3> QED
      BY <2>3, <3>6, <3>7 DEF AttemptsInv
  <2> QED
    BY <2>4, <2>5
<1>8. ASSUME NEW w \in Workers, NEW s \in Slots,
             \/ Push(w, s) \/ StartFails(w, s) \/ SeeCancelled(w, s) \/ Finish(w, s)
             \/ FinalUpdateFails(w, s)
      PROVE  AttemptsInv'
  <2> DEFINE old == slot[w][s].job
  <2>1. /\ Holding(w, s) /\ old \in Job /\ old.id \in Jobs
        /\ rec' = rec /\ runs' = runs
    BY <1>8, Writers
    DEF Push, StartFails, SeeCancelled, Finish, FinalUpdateFails, Running, Holding
  <2>2. runs[old.id] \in Nat /\ runs[old.id] <= Retries + 1
    BY <1>0, <2>1 DEF TypeOK, AttemptsInv, RowCounts
  <2>3. PICK phase \in Phase, job \in Job :
           /\ SetSlot(w, s, phase, job) /\ job.id = old.id /\ job.attempts = old.attempts
           /\ \/ phase = "leaked"
              \/ phase = "starting" /\ slot[w][s].phase = "claimed"
              \/ /\ phase = "running" /\ slot[w][s].phase = "running"
                 /\ job.state = "CANCELLED"
              \/ /\ phase = "finishing" /\ slot[w][s].phase = "running"
                 /\ job \in Outcomes(old)
    <3>1. /\ Complete(old) \in Job /\ Complete(old).id = old.id
          /\ Cancel(old) \in Job /\ Cancel(old).id = old.id
          /\ Fail(old) \in Job /\ Fail(old).id = old.id
      BY <2>1, MethodTypes
    <3>2. /\ Complete(old).attempts = old.attempts
          /\ Cancel(old).attempts = old.attempts
          /\ Fail(old).attempts = old.attempts
      BY <2>1 DEF Complete, Cancel, Fail, Job
    <3>3. CASE Push(w, s)
      BY <2>1, <3>3 DEF Push, Phase
    <3>4. CASE StartFails(w, s) \/ FinalUpdateFails(w, s)
      <4>1. SetSlot(w, s, "leaked", old) /\ "leaked" \in Phase
        BY <3>4 DEF StartFails, FinalUpdateFails, Phase
      <4> QED
        BY <2>1, <4>1
    <3>5. CASE SeeCancelled(w, s)
      <4>1. SetSlot(w, s, "running", Cancel(old)) /\ slot[w][s].phase = "running"
        BY <3>5 DEF SeeCancelled, Running
      <4>2. Cancel(old).state = "CANCELLED" /\ "running" \in Phase
        BY <2>1 DEF Cancel, Job, Phase
      <4> QED
        BY <3>1, <3>2, <4>1, <4>2
    <3>6. CASE Finish(w, s)
      <4>1. PICK job \in Outcomes(old) : SetSlot(w, s, "finishing", job)
        BY <3>6 DEF Finish
      <4>2. job \in Job /\ job.id = old.id /\ job.attempts = old.attempts
        BY <3>1, <3>2, <4>1 DEF Outcomes
      <4> QED
        BY <3>6, <4>1, <4>2 DEF Finish, Running, Phase
    <3> QED
      BY <1>8, <3>3, <3>4, <3>5, <3>6
  <2>4. \A v \in Workers, t \in Slots :
           slot'[v][t] = IF v = w /\ t = s THEN [phase |-> phase, job |-> job]
                                          ELSE slot[v][t]
    BY <1>0, <2>3 DEF TypeOK, SetSlot
  <2>5. CopyCounts(w, s)
    BY DEF AttemptsInv
  <2>6. CopyCounts(w, s)'
    <3>1. CASE phase \in {"leaked", "starting", "running"}
      BY <2>1, <2>3, <2>4, <2>5, <3>1 DEF CopyCounts
    <3>2. CASE phase = "finishing"
      <4>1. job.attempts = runs[job.id] /\ job.attempts \in Nat /\ job.attempts <= Retries + 1
        BY <2>1, <2>2, <2>3, <2>5, <3>2 DEF CopyCounts
      <4>2. /\ job.state \in Waiting => job.attempts <= Retries
            /\ job.state = "FAILED" => job.attempts = Retries + 1
        <5>1. job \in {Complete(old), Fail(old), Cancel(old)}
          BY <2>3, <3>2 DEF Outcomes
        <5>2. Complete(old).state = "COMPLETED" /\ Cancel(old).state = "CANCELLED"
          BY <2>1 DEF Complete, Cancel, Job
        <5>3. CASE job = Fail(old) /\ Retries >= old.attempts
          <6>1. Fail(old).state = "RETRYING"
            BY <2>1, <5>3 DEF Fail, Job
          <6> QED
            BY <2>3, <5>3, <6>1 DEF Waiting
        <5>4. CASE job = Fail(old) /\ ~(Retries >= old.attempts)
          <6>1. Fail(old).state \in {"CANCELLED", "FAILED"}
            BY <2>1, <5>4 DEF Fail, Job
          <6>2. old.attempts \in Nat /\ job.attempts = old.attempts
            BY <2>1, <2>3 DEF Job
          <6>3. job.attempts = Retries + 1
            BY <4>1, <5>4, <6>2
          <6> QED
            BY <5>4, <6>1, <6>3 DEF Waiting
        <5> QED
          BY <5>1, <5>2, <5>3, <5>4 DEF Waiting
      <4> QED
        BY <2>1, <2>4, <3>2, <4>1, <4>2 DEF CopyCounts
    <3> QED
      BY <2>3, <3>1, <3>2
  <2>7. \A v \in Workers, t \in Slots : CopyCounts(v, t)'
    BY <2>1, <2>4, <2>6, SameCopyCounts DEF AttemptsInv
  <2>8. ASSUME NEW k \in Jobs PROVE RowCounts(k)'
    <3>1. Held(k)' => Held(k)
      BY <2>1, <2>3, <2>4 DEF Held, Holds, Holding
    <3> QED
      BY <2>1, <3>1, SameRowCounts DEF AttemptsInv
  <2> QED
    BY <2>7, <2>8 DEF AttemptsInv
<1>9. ASSUME NEW w \in Workers, NEW s \in Slots, StartProcess(w, s) PROVE AttemptsInv'
  <2> PICK id : id = slot[w][s].job.id
    OBVIOUS
  <2> DEFINE job == slot[w][s].job
  <2>1. /\ Holding(w, s) /\ SetSlot(w, s, "running", job)
        /\ job \in Job /\ id \in Jobs /\ job.state = "RUNNING" /\ Update(job)
        /\ runs' = [runs EXCEPT ![id] = @ + 1]
    BY <1>9, Writers DEF StartProcess, Holding
  <2>2. UpdatesOnly(job)
    BY <1>0, <2>1, UpdatedRow
  <2>3. job.attempts = runs[id] + 1 /\ job.attempts <= Retries + 1 /\ runs[id] \in Nat
    BY <1>0, <1>9, <2>1 DEF AttemptsInv, CopyCounts, StartProcess, TypeOK
  <2>4. runs'[id] = runs[id] + 1 /\ \A k \in Jobs : k # id => runs'[k] = runs[k]
    BY <1>0, <2>1 DEF TypeOK
  <2>5. \A v \in Workers, t \in Slots :
           slot'[v][t] = IF v = w /\ t = s THEN [phase |-> "running", job |-> job]
                                          ELSE slot[v][t]
    BY <1>0, <2>1 DEF TypeOK, SetSlot
  <2>6. CopyCounts(w, s)'
    <3>1. /\ slot'[w][s].phase = "running" /\ slot'[w][s].job.id = id
          /\ slot'[w][s].job.attempts = runs'[id] /\ slot'[w][s].job.state = "RUNNING"
      BY SMTT(30), <2>1, <2>3, <2>4, <2>5
    <3> QED
      BY <3>1 DEF CopyCounts
  <2>7. ASSUME NEW v \in Workers, NEW t \in Slots, ~(v = w /\ t = s) PROVE CopyCounts(v, t)'
    <3>1. Holding(v, t) => slot[v][t].job.id # id /\ slot[v][t].job.id \in Jobs
      BY ZenonT(60), <1>0, <2>1, <2>7, Writers DEF IInv, OneHolder
    <3> QED
      BY <2>4, <2>5, <2>7, <3>1, SameCopyCounts DEF AttemptsInv
  <2>8. \A k \in Jobs : SameHolders(k)
    BY <1>0, <2>1, KeptPlace
  <2>9. ASSUME NEW k \in Jobs, k # id PROVE RowCounts(k)'
    BY <2>2, <2>4, <2>8, <2>9, SameRowCounts DEF UpdatesOnly, AttemptsInv, SameHolders
  <2>10. RowCounts(id)'
    <3>1. Held(id)
      BY <2>1 DEF Held, Holds
    <3>2. rec'[id].state \in {"RUNNING", "removed"} \cup Final /\ rec'[id].state # "FAILED"
      <4>1. rec[id].state \in {"RUNNING", "removed"} \cup Final /\ rec[id].state # "FAILED"
        BY <1>0, <2>1, <3>1, HeldRow DEF AttemptsInv, RowCounts
      <4> QED
        BY SMTT(30), <2>1, <2>2, <4>1 DEF UpdatesOnly
    <3>3. rec'[id].state \notin Waiting \cup {"absent", "FAILED"}
      BY <3>2 DEF Waiting, Final
    <3> QED
      BY <2>3, <2>4, <3>3 DEF RowCounts
  <2> QED
    BY <2>6, <2>7, <2>9, <2>10 DEF AttemptsInv
<1>10. ASSUME NEW w \in Workers, NEW s \in Slots, OnFailOrComplete(w, s) PROVE AttemptsInv'
  <2> PICK id : id = slot[w][s].job.id
    OBVIOUS
  <2> DEFINE job == slot[w][s].job
  <2>1. /\ Holding(w, s) /\ job \in Job /\ job.state # "RUNNING" /\ Update(job)
        /\ runs' = runs /\ slot[w][s].phase = "finishing"
    BY <1>10, Writers DEF OnFailOrComplete, Holding
  <2>2. UpdatesOnly(job)
    BY <1>0, <2>1, UpdatedRow
  <2>3. \A v \in Workers, t \in Slots :
           slot'[v][t] = IF v = w /\ t = s THEN Free ELSE slot[v][t]
    BY <1>0, <1>10 DEF OnFailOrComplete, RemoveJobFromActive, TypeOK
  <2>4. ~Holding(w, s)'
    BY <2>3 DEF Holding, Free
  <2>5. /\ id \in Jobs /\ Held(id) /\ ~Held(id)'
        /\ \A k \in Jobs : k # id => SameHolders(k)
    BY <1>0, <2>1, <2>3, <2>4, LetGo
  <2>6. \A v \in Workers, t \in Slots : CopyCounts(v, t)'
    <3>1. CopyCounts(w, s)'
      BY <2>3 DEF CopyCounts, Free
    <3> QED
      BY <2>1, <2>3, <3>1, SameCopyCounts DEF AttemptsInv
  <2>7. ASSUME NEW k \in Jobs, k # id PROVE RowCounts(k)'
    BY <2>1, <2>2, <2>5, <2>7, SameRowCounts DEF UpdatesOnly, AttemptsInv, SameHolders
  <2>8. RowCounts(id)'
    <3>1. CASE rec'[id] = rec[id]
      BY <2>1, <2>5, <3>1, SameRowCounts DEF AttemptsInv
    <3>2. CASE rec'[id] # rec[id]
      <4>1. rec'[id].state = job.state /\ rec'[id].attempts = job.attempts
        BY SMTT(30), <2>2, <3>2 DEF UpdatesOnly
      <4>2. /\ job.attempts = runs[id]
            /\ job.state \in Waiting => job.attempts <= Retries
            /\ job.state = "FAILED" => job.attempts = Retries + 1
            /\ job.state \in JobState
        BY <2>1 DEF AttemptsInv, CopyCounts, Job
      <4> QED
        BY <2>1, <2>5, <4>1, <4>2 DEF AttemptsInv, RowCounts, JobState, Waiting, Final
    <3> QED
      BY <3>1, <3>2
  <2> QED
    BY <2>6, <2>7, <2>8 DEF AttemptsInv
<1>11. ASSUME NEW w \in Workers, StopSignal(w) PROVE AttemptsInv'
  <2> DEFINE Deferred(k) == \E t \in Slots : /\ slot[w][t].phase = "running"
                                             /\ slot[w][t].job.id = k
                                             /\ slot[w][t].job.state = "RUNNING"
  <2>1. /\ \A v \in Workers, t \in Slots :
              slot'[v][t] = IF v = w /\ slot[v][t].phase = "running"
                            THEN [phase |-> "finishing", job |-> Defer(slot[v][t].job)]
                            ELSE slot[v][t]
        /\ rec' = rec
    BY <1>0, <1>11 DEF StopSignal, TypeOK
  <2>2. \A k \in Jobs : runs'[k] = IF Deferred(k) THEN 0 ELSE runs[k]
    BY <1>11 DEF StopSignal
  <2>3. \A v \in Workers, t \in Slots : Holding(v, t) =>
           slot[v][t].job \in Job /\ slot[v][t].job.id \in Jobs
    BY Writers
  <2>4. ASSUME NEW t \in Slots, slot[w][t].phase = "running" PROVE CopyCounts(w, t)'
    <3> PICK old : old = slot[w][t].job
      OBVIOUS
    <3>1. old \in Job /\ old.id \in Jobs /\ old.attempts = runs[old.id]
      BY <2>3, <2>4 DEF Holding, AttemptsInv, CopyCounts
    <3>2. slot'[w][t] = [phase |-> "finishing", job |-> Defer(old)]
      BY <2>1, <2>4
    <3>3. CASE old.state = "RUNNING"
      <4>1. /\ Defer(old).attempts = 0 /\ Defer(old).id = old.id
            /\ Defer(old).state = "PENDING"
        BY <3>1, <3>3 DEF Defer, Job
      <4>2. runs'[old.id] = 0
        BY <2>2, <2>4, <3>1, <3>3
      <4>3. /\ slot'[w][t].phase = "finishing" /\ slot'[w][t].job.id = old.id
            /\ slot'[w][t].job.attempts = 0 /\ slot'[w][t].job.state = "PENDING"
        BY <3>2, <4>1
      <4> QED
        BY <4>2, <4>3 DEF CopyCounts
    <3>4. CASE old.state # "RUNNING"
      <4>1. Defer(old) = old
        BY <3>4 DEF Defer
      <4>2. ~Deferred(old.id)
        BY <1>0, <2>4, <3>4 DEF IInv, OneHolder, Holding
      <4>3. runs'[old.id] = runs[old.id]
        BY <2>2, <3>1, <4>2
      <4>4. old.state = "CANCELLED"
        BY <2>4, <3>4 DEF AttemptsInv, CopyCounts
      <4> QED
        BY <3>1, <3>2, <4>1, <4>3, <4>4 DEF CopyCounts, Waiting
    <3> QED
      BY <3>3, <3>4
  <2>5. ASSUME NEW v \in Workers, NEW t \in Slots, ~(v = w /\ slot[v][t].phase = "running")
        PROVE  CopyCounts(v, t)'
    <3>1. slot'[v][t] = slot[v][t]
      BY <2>1, <2>5
    <3>2. Holding(v, t) => ~Deferred(slot[v][t].job.id)
      BY <1>0, <2>5 DEF IInv, OneHolder, Holding
    <3>3. Holding(v, t) => runs'[slot[v][t].job.id] = runs[slot[v][t].job.id]
      BY <2>2, <2>3, <3>2
    <3> QED
      BY <3>1, <3>3, SameCopyCounts DEF AttemptsInv
  <2>6. \A k \in Jobs : Held(k)' => Held(k)
    <3>1. ASSUME NEW v \in Workers, NEW t \in Slots, Holding(v, t)'
          PROVE  Holding(v, t) /\ slot'[v][t].job.id = slot[v][t].job.id
      <4>1. CASE v = w /\ slot[v][t].phase = "running"
        <5>1. Holding(v, t)
          BY <4>1 DEF Holding
        <5>2. Defer(slot[v][t].job).id = slot[v][t].job.id
          BY <2>3, <5>1, MethodTypes
        <5>3. slot'[v][t] = [phase |-> "finishing", job |-> Defer(slot[v][t].job)]
          BY <2>1, <4>1
        <5> QED
          BY <5>1, <5>2, <5>3
      <4>2. CASE ~(v = w /\ slot[v][t].phase = "running")
        BY <2>1, <3>1, <4>2 DEF Holding
      <4> QED
        BY <4>1, <4>2
    <3> QED
      BY <3>1 DEF Held, Holds
  <2>7. ASSUME NEW k \in Jobs PROVE RowCounts(k)'
    <3>1. CASE ~Deferred(k)
      BY <2>1, <2>2, <2>6, <3>1, SameRowCounts DEF AttemptsInv
    <3>2. CASE Deferred(k)
      <4>1. Held(k)
        BY <3>2 DEF Held, Holds, Holding
      <4>2. rec'[k].state \notin Waiting \cup {"absent", "FAILED"}
        <5>1. rec[k].state \in {"RUNNING", "removed"} \cup Final
          BY <1>0, <4>1, HeldRow
        <5>2. rec[k].state # "FAILED"
          BY <4>1 DEF AttemptsInv, RowCounts
        <5> QED
          BY <2>1, <5>1, <5>2 DEF Waiting, Final
      <4>3. runs'[k] = 0
        BY <2>2, <3>2
      <4> QED
        BY <4>2, <4>3 DEF RowCounts
    <3> QED
      BY <3>1, <3>2
  <2> QED
    BY <2>4, <2>5, <2>7 DEF AttemptsInv
<1>12. ASSUME NEW w \in Workers, ProcessEnds(w) PROVE AttemptsInv'
  <2>1. /\ \A v \in Workers, t \in Slots :
              slot'[v][t] = IF v = w THEN Free ELSE slot[v][t]
        /\ rec' = rec /\ runs' = runs
    BY <1>0, <1>12 DEF ProcessEnds, TypeOK
  <2>2. \A k \in Jobs : Held(k)' => Held(k)
    BY <2>1 DEF Held, Holds, Holding, Free
  <2>3. \A k \in Jobs : RowCounts(k)'
    BY <2>1, <2>2, SameRowCounts DEF AttemptsInv
  <2>4. ASSUME NEW v \in Workers, NEW t \in Slots PROVE CopyCounts(v, t)'
    <3>1. CASE v = w
      BY <2>1, <3>1 DEF CopyCounts, Free
    <3>2. CASE v # w
      BY <2>1, <3>2, SameCopyCounts DEF AttemptsInv
    <3> QED
      BY <3>1, <3>2
  <2> QED
    BY <2>3, <2>4 DEF AttemptsInv
<1>13. ASSUME NEW w \in Workers,
              \/ BeginRound(w) \/ NothingDue(w) \/ NextFails(w)
              \/ StartQueue(w) \/ StopQueue(w) \/ Drained(w) \/ Stopped(w)
       PROVE  AttemptsInv'
    BY <1>2, <1>13
    DEF BeginRound, NothingDue, NextFails, StartQueue, StopQueue, Drained, Stopped
<1>14. ASSUME NEW w \in Workers, NEW s \in Slots, SendProgress(w, s) PROVE AttemptsInv'
    BY <1>2, <1>14 DEF SendProgress
<1>15. ASSUME NEW j \in Jobs, CancelRead(j) \/ BackoffElapses(j) PROVE AttemptsInv'
    BY <1>2, <1>15 DEF CancelRead, BackoffElapses
<1>16. CASE UNCHANGED vars
    BY <1>2, <1>16 DEF vars
<1> QED
    BY <1>3, <1>4, <1>5, <1>6, <1>7, <1>8, <1>9, <1>10, <1>11, <1>12, <1>13, <1>14,
       <1>15, <1>16
    DEF Next, ApiStep, LoopStep, JobStep, ProcessStep

\* A job is executed at most retries + 1 times since it was last deferred, and
\* not given up before, whatever late progress writes put into its row.
THEOREM AttemptsAreCounted == Spec => []AttemptsCounted
<1>1. AttemptsInv => AttemptsCounted
    BY DEF AttemptsInv, RowCounts, AttemptsCounted
<1> QED
    BY <1>1, InitAttempts, NextAttempts, QueueInvariance, PTL DEF Spec
=============================================================================
