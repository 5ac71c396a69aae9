--------------------------- MODULE JobQueueProofs ---------------------------
(***************************************************************************)
(* For every set of jobs and workers, every concurrency and number of      *)
(* retries, and every combination of faults: a job has one holder at a     *)
(* time and its outcome is final.                                          *)
(***************************************************************************)
EXTENDS JobQueue, FiniteSetTheorems, TLAPS

USE JobsAssumption, ConcurrencyAssumption, RetriesAssumption

\* What UPDATE ... WHERE settledAt IS NULL does to one row, in the four cases
\* the proofs need.
LEMMA WrittenRow ==
    ASSUME NEW row, NEW job \in Job,
           row \in [state : RowState, attempts : Nat, settled : BOOLEAN]
    PROVE  /\ Written(row, job) \in [state : RowState, attempts : Nat, settled : BOOLEAN]
           /\ row.settled => Written(row, job) = row
           /\ row.state \notin JobState => Written(row, job) = row
           /\ row.state \in JobState /\ ~row.settled =>
                 /\ Written(row, job).state = job.state
                 /\ Written(row, job).settled = job.settled
BY DEF Written, Job, RowState

LEMMA InitIInv == Init => IInv
<1> SUFFICES ASSUME Init PROVE IInv
    OBVIOUS
<1>1. TypeOK
    BY DEF Init, TypeOK, RowState, ProcState, LoopState, Phase, Free, JobState, NoJob
<1>2. \A w \in Workers, s \in Slots : slot[w][s].phase = "free"
    BY DEF Init, Free
<1>3. OneHolder /\ HeldRowNotWaiting /\ CopiesAreOwnOrStale
    BY <1>2 DEF OneHolder, HeldRowNotWaiting, CopiesAreOwnOrStale,
                 CopyIsOwnOrStale, Holding
<1>4. SettledRowsDoNotWait /\ WritesAreOwnOrStale
    BY DEF Init, SettledRowsDoNotWait, WritesAreOwnOrStale
<1> QED
    BY <1>1, <1>3, <1>4 DEF IInv

-----------------------------------------------------------------------------
(***************************************************************************)
(* Type correctness, action by action.                                     *)
(***************************************************************************)
LEMMA UpdateType ==
    ASSUME TypeOK, NEW job \in Job, Update(job)
    PROVE  /\ rec' \in [Jobs -> [state : RowState, attempts : Nat, settled : BOOLEAN]]
           /\ cooling' \subseteq Jobs
<1>1. job.id \in Jobs
    BY DEF Job
<1>2. Written(rec[job.id], job) \in [state : RowState, attempts : Nat, settled : BOOLEAN]
  <2>1. rec[job.id] \in [state : RowState, attempts : Nat, settled : BOOLEAN]
      BY <1>1 DEF TypeOK
  <2> QED
      BY <2>1, WrittenRow
<1>3. rec' = [rec EXCEPT ![job.id] = Written(@, job)]
    BY DEF Update
<1>4. cooling' \subseteq Jobs
    BY <1>1 DEF Update, TypeOK
<1> QED
    BY <1>1, <1>2, <1>3, <1>4 DEF TypeOK

SlotType == [phase : Phase, job : Job \cup {NoJob}]

LEMMA SetSlotType ==
    ASSUME TypeOK, NEW w \in Workers, NEW s \in Slots, NEW phase \in Phase,
           NEW job \in Job, SetSlot(w, s, phase, job)
    PROVE  /\ slot' \in [Workers -> [Slots -> SlotType]]
           /\ \A v \in Workers, t \in Slots :
                 slot'[v][t] = IF v = w /\ t = s THEN [phase |-> phase, job |-> job]
                                                ELSE slot[v][t]
           /\ \A v \in Workers, t \in Slots :
                 slot'[v][t].phase # "free" => slot'[v][t].job \in Job
<1>1. slot \in [Workers -> [Slots -> SlotType]]
    BY DEF TypeOK, SlotType
<1>2. [phase |-> phase, job |-> job] \in SlotType
    BY DEF SlotType
<1> DEFINE place == [phase |-> phase, job |-> job]
           places == [slot[w] EXCEPT ![s] = place]
<1>3. slot' \in [Workers -> [Slots -> SlotType]]
  <2>1. places \in [Slots -> SlotType]
    BY <1>1, <1>2
  <2>2. slot' = [slot EXCEPT ![w] = places]
    BY DEF SetSlot
  <2> QED
    BY <2>1, <2>2, <1>1
<1>4. \A v \in Workers, t \in Slots :
         slot'[v][t] = IF v = w /\ t = s THEN [phase |-> phase, job |-> job]
                                        ELSE slot[v][t]
    BY <1>1 DEF SetSlot
<1>5. ASSUME NEW v \in Workers, NEW t \in Slots, slot'[v][t].phase # "free"
      PROVE  slot'[v][t].job \in Job
    BY <1>4, <1>5 DEF TypeOK
<1> QED
    BY <1>3, <1>4, <1>5

LEMMA LoopType ==
    ASSUME TypeOK, NEW w \in Workers, NextIteration(w) \/ EndRound(w)
    PROVE  loop' \in [Workers -> LoopState] /\ i' \in [Workers -> Nat]
<1>1. loop \in [Workers -> LoopState] /\ i \in [Workers -> Nat]
    BY DEF TypeOK
<1>2. CASE EndRound(w)
    BY <1>1, <1>2 DEF EndRound, LoopState
<1>3. CASE NextIteration(w) /\ ~EndRound(w)
  <2>1. /\ loop' = [loop EXCEPT ![w] = "next"]
        /\ i' = [i EXCEPT ![w] = i[w] + 1]
    BY <1>3 DEF NextIteration
  <2> QED
    BY <1>1, <2>1 DEF LoopState
<1> QED
    BY <1>2, <1>3

LEMMA CountUp ==
    ASSUME NEW f \in [Jobs -> Nat], NEW j \in Jobs
    PROVE  [f EXCEPT ![j] = @ + 1] \in [Jobs -> Nat]
OBVIOUS

LEMMA CopyType ==
    ASSUME TypeOK, NEW j \in Jobs, rec[j].state \in JobState
    PROVE  Copy(j) \in Job /\ Copy(j).id = j
BY DEF TypeOK, Copy, Job

LEMMA MethodTypes ==
    ASSUME NEW job \in Job
    PROVE  /\ Start(job) \in Job /\ Start(job).id = job.id
           /\ Complete(job) \in Job /\ Complete(job).id = job.id
           /\ Fail(job) \in Job /\ Fail(job).id = job.id
           /\ Cancel(job) \in Job /\ Cancel(job).id = job.id
           /\ Defer(job) \in Job /\ Defer(job).id = job.id
<1> USE DEF Job, JobState, Waiting, Final
<1>1. Start(job) \in Job /\ Start(job).id = job.id
  <2>1. job.attempts + 1 \in Nat
    OBVIOUS
  <2> QED
    BY <2>1 DEF Start
<1>2. Complete(job) \in Job /\ Complete(job).id = job.id
    BY DEF Complete
<1>3. Fail(job) \in Job /\ Fail(job).id = job.id
  <2>1. CASE Retries >= job.attempts
    BY <2>1 DEF Fail
  <2>2. CASE ~(Retries >= job.attempts) /\ job.state = "CANCELLED"
    BY <2>2 DEF Fail
  <2>3. CASE ~(Retries >= job.attempts) /\ job.state # "CANCELLED"
    BY <2>3 DEF Fail
  <2> QED
    BY <2>1, <2>2, <2>3
<1>4. Cancel(job) \in Job /\ Cancel(job).id = job.id
    BY DEF Cancel
<1>5. Defer(job) \in Job /\ Defer(job).id = job.id
    BY DEF Defer
<1> QED
    BY <1>1, <1>2, <1>3, <1>4, <1>5

LEMMA NextTypeOK == TypeOK /\ [Next]_vars => TypeOK'
<1> SUFFICES ASSUME TypeOK, [Next]_vars PROVE TypeOK'
    OBVIOUS
<1> USE DEF dbVars, workerVars
<1>1. ASSUME NEW j \in Jobs, Add(j) PROVE TypeOK'
    BY <1>1 DEF Add, TypeOK, RowState, JobState, Waiting
<1>2. ASSUME NEW S \in SUBSET Jobs, RemoveSettledJobs(S) PROVE TypeOK'
    BY <1>2 DEF RemoveSettledJobs, TypeOK, RowState
<1>3. ASSUME NEW j \in Jobs, CancelRead(j) PROVE TypeOK'
    BY <1>3, CopyType, MethodTypes DEF CancelRead, Exists, TypeOK
<1>4. ASSUME NEW job \in cancels, CancelWrite(job) PROVE TypeOK'
    BY <1>4, UpdateType DEF CancelWrite, TypeOK
<1>5. ASSUME NEW j \in Jobs, BackoffElapses(j) PROVE TypeOK'
    BY <1>5 DEF BackoffElapses, TypeOK
<1>6. ASSUME NEW m \in wire, ProgressWrite(m) PROVE TypeOK'
    BY <1>6, UpdateType DEF ProgressWrite, TypeOK
<1>7. ASSUME NEW w \in Workers, BeginRound(w) PROVE TypeOK'
  <2>1. Active(w) \subseteq Slots /\ IsFiniteSet(Slots)
    BY FS_Interval DEF Active, Slots
  <2>2. RunningJobsCount(w) \in Nat
    BY <2>1, FS_Subset, FS_CardinalityType DEF RunningJobsCount
  <2> QED
    BY <1>7, <2>2 DEF BeginRound, TypeOK, LoopState
<1>8. ASSUME NEW w \in Workers, NEW j \in Jobs, Claim(w, j) PROVE TypeOK'
  <2>1. rec' \in [Jobs -> [state : RowState, attempts : Nat, settled : BOOLEAN]]
    BY SMTT(60), <1>8 DEF Claim, Taken, TypeOK, RowState, JobState
  <2>2. CASE Sqlite
    BY <1>8, <2>1, <2>2, LoopType DEF Claim, TypeOK
  <2>3. CASE ~Sqlite
    <3>1. Start(Copy(j)) \in Job
      BY <1>8, CopyType, MethodTypes DEF Claim, IsNext, Due, JobState
    <3>2. PICK s \in Slots : SetSlot(w, s, "claimed", Start(Copy(j)))
      BY <1>8, <2>3 DEF Claim
    <3>3. /\ slot' \in [Workers -> [Slots -> SlotType]]
          /\ \A v \in Workers, t \in Slots :
                slot'[v][t].phase # "free" => slot'[v][t].job \in Job
      BY <3>1, <3>2, SetSlotType DEF Phase
    <3> QED
      BY <1>8, <2>1, <2>3, <3>3 DEF Claim, TypeOK, LoopState, SlotType
  <2> QED
    BY <2>2, <2>3
<1>9. ASSUME NEW w \in Workers, NothingDue(w) \/ NextFails(w) PROVE TypeOK'
    BY <1>9, LoopType DEF NothingDue, NextFails, TypeOK
<1>10. ASSUME NEW w \in Workers, NEW s \in Slots,
              Push(w, s) \/ SeeCancelled(w, s) \/ Finish(w, s) \/ FinalUpdateFails(w, s)
       PROVE  TypeOK'
  <2>1. slot[w][s].job \in Job
    BY <1>10 DEF TypeOK, Push, SeeCancelled, Finish, FinalUpdateFails, Running
  <2>2. \E phase \in Phase, job \in Job : SetSlot(w, s, phase, job)
    BY <1>10, <2>1, MethodTypes
    DEF Push, SeeCancelled, Finish, FinalUpdateFails, Outcomes, Phase
  <2>3. /\ slot' \in [Workers -> [Slots -> SlotType]]
        /\ \A v \in Workers, t \in Slots :
              slot'[v][t].phase # "free" => slot'[v][t].job \in Job
    BY <2>2, SetSlotType
  <2>4. UNCHANGED <<rec, cooling, proc, loop, i, wire, cancels, runs>>
    BY <1>10 DEF Push, SeeCancelled, Finish, FinalUpdateFails
  <2> QED
    BY <2>3, <2>4 DEF TypeOK, SlotType
<1>11. ASSUME NEW w \in Workers, NEW s \in Slots, StartProcess(w, s) PROVE TypeOK'
  <2>1. slot[w][s].job \in Job
    BY <1>11 DEF TypeOK, StartProcess
  <2>2. /\ slot' \in [Workers -> [Slots -> SlotType]]
        /\ \A v \in Workers, t \in Slots :
              slot'[v][t].phase # "free" => slot'[v][t].job \in Job
    BY <1>11, <2>1, SetSlotType DEF StartProcess, Phase
  <2>3. runs' \in [Jobs -> Nat]
    <3>1. runs \in [Jobs -> Nat] /\ slot[w][s].job.id \in Jobs
      BY <2>1 DEF TypeOK, Job
    <3>2. runs' = [runs EXCEPT ![slot[w][s].job.id] = @ + 1]
      BY <1>11 DEF StartProcess
    <3> QED
      BY <3>1, <3>2, CountUp
  <2> QED
    <3>1. /\ rec' \in [Jobs -> [state : RowState, attempts : Nat, settled : BOOLEAN]]
          /\ cooling' \subseteq Jobs
      BY <1>11, <2>1, UpdateType DEF StartProcess
    <3>2. loop' \in [Workers -> LoopState] /\ i' \in [Workers -> Nat]
      BY <1>11, LoopType DEF StartProcess
    <3> QED
      BY <1>11, <2>1, <2>2, <2>3, <3>1, <3>2 DEF StartProcess, TypeOK, SlotType
<1>12. ASSUME NEW w \in Workers, NEW s \in Slots, StartFails(w, s) PROVE TypeOK'
  <2>1. slot[w][s].job \in Job
    BY <1>12 DEF TypeOK, StartFails
  <2>2. /\ slot' \in [Workers -> [Slots -> SlotType]]
        /\ \A v \in Workers, t \in Slots :
              slot'[v][t].phase # "free" => slot'[v][t].job \in Job
    BY <1>12, <2>1, SetSlotType DEF StartFails, Phase
  <2> QED
    BY <1>12, <2>2, LoopType DEF StartFails, TypeOK, SlotType
<1>13. ASSUME NEW w \in Workers, NEW s \in Slots, SendProgress(w, s) PROVE TypeOK'
    BY <1>13 DEF SendProgress, Running, TypeOK
<1>14. ASSUME NEW w \in Workers, NEW s \in Slots, OnFailOrComplete(w, s) PROVE TypeOK'
  <2>1. slot[w][s].job \in Job
    BY <1>14 DEF TypeOK, OnFailOrComplete
  <2>2. Free \in SlotType
    BY DEF Free, SlotType, Phase
  <2>3. slot' \in [Workers -> [Slots -> SlotType]]
    BY <1>14, <2>2 DEF OnFailOrComplete, RemoveJobFromActive, TypeOK, SlotType
  <2>4. \A v \in Workers, t \in Slots :
           slot'[v][t] = Free \/ slot'[v][t] = slot[v][t]
    BY <1>14 DEF OnFailOrComplete, RemoveJobFromActive, TypeOK
  <2>5. \A v \in Workers, t \in Slots :
           slot'[v][t].phase # "free" => slot'[v][t].job \in Job
    BY SMTT(30), <2>4 DEF TypeOK, Free
  <2> QED
    BY <1>14, <2>1, <2>3, <2>5, UpdateType DEF OnFailOrComplete, TypeOK, SlotType
<1>15. ASSUME NEW w \in Workers,
              StartQueue(w) \/ StopQueue(w) \/ Drained(w) \/ Stopped(w)
       PROVE  TypeOK'
    BY <1>15 DEF StartQueue, StopQueue, Drained, Stopped, TypeOK, ProcState, LoopState
<1>16. ASSUME NEW w \in Workers, StopSignal(w) PROVE TypeOK'
  <2>1. \A s \in Slots : slot[w][s].phase = "running" => slot[w][s].job \in Job
    BY DEF TypeOK
  <2> DEFINE place(s) == IF slot[w][s].phase = "running"
                         THEN [phase |-> "finishing", job |-> Defer(slot[w][s].job)]
                         ELSE slot[w][s]
             places == [s \in Slots |-> place(s)]
  <2>2. \A s \in Slots : place(s) \in SlotType /\ (place(s).phase # "free" => place(s).job \in Job)
    BY <2>1, MethodTypes DEF TypeOK, SlotType, Phase
  <2>3. slot' = [slot EXCEPT ![w] = places]
    BY <1>16 DEF StopSignal
  <2>4. slot' \in [Workers -> [Slots -> SlotType]]
    BY <2>2, <2>3 DEF TypeOK, SlotType
  <2>5. \A v \in Workers, t \in Slots :
           slot'[v][t].phase # "free" => slot'[v][t].job \in Job
    BY <2>2, <2>3 DEF TypeOK
  <2>6. runs' \in [Jobs -> Nat]
    BY <1>16 DEF StopSignal, TypeOK
  <2> QED
    BY <1>16, <2>4, <2>5, <2>6 DEF StopSignal, TypeOK, ProcState, SlotType
<1>17. ASSUME NEW w \in Workers, ProcessEnds(w) PROVE TypeOK'
  <2>1. slot' = [slot EXCEPT ![w] = [s \in Slots |-> Free]]
    BY <1>17 DEF ProcessEnds
  <2>2. slot' \in [Workers -> [Slots -> SlotType]]
    BY <2>1 DEF TypeOK, SlotType, Free, Phase
  <2>3. \A v \in Workers, t \in Slots :
           slot'[v][t].phase # "free" => slot'[v][t].job \in Job
    BY <2>1 DEF TypeOK, Free
  <2> QED
    BY <1>17, <2>2, <2>3 DEF ProcessEnds, TypeOK, ProcState, LoopState, SlotType
<1>18. CASE UNCHANGED vars
    BY <1>18 DEF vars, TypeOK
<1> QED
    BY <1>1, <1>2, <1>3, <1>4, <1>5, <1>6, <1>7, <1>8, <1>9, <1>10, <1>11, <1>12,
       <1>13, <1>14, <1>15, <1>16, <1>17, <1>18
    DEF Next, ApiStep, LoopStep, JobStep, ProcessStep

-----------------------------------------------------------------------------
(***************************************************************************)
(* The inductive step.  An action that leaves every place as it was, gives *)
(* it up, or keeps the job it held, and unsettles no row, is harmless as   *)
(* long as no held row starts to wait.                                     *)
(***************************************************************************)
RowsStaySettled ==
    \A k \in Jobs : /\ rec[k].settled => rec'[k].settled
                    /\ rec'[k].settled => rec'[k].state \in Final \cup {"removed"}

PlacesKeepTheirJobs ==
    \A v \in Workers, t \in Slots :
       \/ slot'[v][t] = slot[v][t]
       \/ ~Holding(v, t)'
       \/ /\ Holding(v, t)
          /\ slot'[v][t].job.id = slot[v][t].job.id
          /\ CopyIsOwnOrStale(v, t)'

LEMMA HarmlessStep ==
    ASSUME IInv, TypeOK', RowsStaySettled, PlacesKeepTheirJobs, HeldRowNotWaiting',
           wire' \subseteq wire, cancels' \subseteq cancels
    PROVE  IInv'
<1>1. OneHolder'
  <2> SUFFICES ASSUME NEW v1 \in Workers, NEW v2 \in Workers,
                      NEW t1 \in Slots, NEW t2 \in Slots,
                      Holding(v1, t1)', Holding(v2, t2)',
                      slot'[v1][t1].job.id = slot'[v2][t2].job.id
               PROVE  v1 = v2 /\ t1 = t2
    BY DEF OneHolder
  <2>1. Holding(v1, t1) /\ slot'[v1][t1].job.id = slot[v1][t1].job.id
    BY DEF PlacesKeepTheirJobs, Holding
  <2>2. Holding(v2, t2) /\ slot'[v2][t2].job.id = slot[v2][t2].job.id
    BY DEF PlacesKeepTheirJobs, Holding
  <2> QED
    BY <2>1, <2>2 DEF IInv, OneHolder
<1>2. SettledRowsDoNotWait'
    BY DEF RowsStaySettled, SettledRowsDoNotWait
<1>3. CopiesAreOwnOrStale'
  <2> SUFFICES ASSUME NEW v \in Workers, NEW t \in Slots, Holding(v, t)'
               PROVE  CopyIsOwnOrStale(v, t)'
    BY DEF CopiesAreOwnOrStale, CopyIsOwnOrStale, Holding
  <2>1. CASE slot'[v][t] = slot[v][t]
    <3>1. slot[v][t].job.id \in Jobs
      BY <2>1 DEF IInv, TypeOK, Holding, Job
    <3>2. rec[slot[v][t].job.id].settled => rec'[slot[v][t].job.id].settled
      BY <3>1 DEF RowsStaySettled
    <3>3. CopyIsOwnOrStale(v, t)
      BY DEF IInv, CopiesAreOwnOrStale
    <3> QED
      BY <2>1, <3>2, <3>3 DEF CopyIsOwnOrStale
  <2> QED
    BY <2>1 DEF PlacesKeepTheirJobs
<1>4. WritesAreOwnOrStale'
    BY DEF IInv, TypeOK, WritesAreOwnOrStale, RowsStaySettled, Job
<1> QED
    BY <1>1, <1>2, <1>3, <1>4 DEF IInv

\* Two shapes such an action has.
LEMMA HeldRowStep ==
    ASSUME IInv, PlacesKeepTheirJobs,
           \A k \in Jobs : rec[k].state = "RUNNING" \/ rec[k].settled
                           => rec'[k].state = "RUNNING" \/ rec'[k].settled
    PROVE  HeldRowNotWaiting'
<1> SUFFICES ASSUME NEW v \in Workers, NEW t \in Slots, Holding(v, t)'
             PROVE  LET row == rec'[slot'[v][t].job.id] IN
                    row.state = "RUNNING" \/ row.settled
    BY DEF HeldRowNotWaiting
<1>1. Holding(v, t) /\ slot'[v][t].job.id = slot[v][t].job.id
    BY DEF PlacesKeepTheirJobs, Holding
<1>2. slot[v][t].job.id \in Jobs
    BY <1>1 DEF IInv, TypeOK, Holding, Job
<1> QED
    BY <1>1, <1>2 DEF IInv, HeldRowNotWaiting

LEMMA RowsUnchanged ==
    ASSUME IInv, rec' = rec
    PROVE  /\ RowsStaySettled
           /\ \A k \in Jobs : rec[k].state = "RUNNING" \/ rec[k].settled
                              => rec'[k].state = "RUNNING" \/ rec'[k].settled
BY DEF IInv, SettledRowsDoNotWait, RowsStaySettled

\* One UPDATE by somebody whose copy is RUNNING or settled for good.
LEMMA UpdateRow ==
    ASSUME IInv, NEW job \in Job, Update(job),
           \/ job.settled <=> job.state \in Final
           \/ rec[job.id].settled
    PROVE  /\ RowsStaySettled
           /\ \A k \in Jobs : k # job.id => rec'[k] = rec[k]
           /\ job.state = "RUNNING" \/ job.settled \/ rec[job.id].settled =>
                 \A k \in Jobs : rec[k].state = "RUNNING" \/ rec[k].settled
                                 => rec'[k].state = "RUNNING" \/ rec'[k].settled
<1> DEFINE id == job.id
<1>1. id \in Jobs
    BY DEF Job
<1>2. rec' = [rec EXCEPT ![id] = Written(rec[id], job)]
    BY DEF Update
<1>3. rec[id] \in [state : RowState, attempts : Nat, settled : BOOLEAN]
    BY <1>1 DEF IInv, TypeOK
<1>4. /\ rec[id].settled => rec'[id] = rec[id]
      /\ rec[id].state \notin JobState => rec'[id] = rec[id]
      /\ rec[id].state \in JobState /\ ~rec[id].settled =>
            rec'[id].state = job.state /\ rec'[id].settled = job.settled
    BY <1>1, <1>2, <1>3, WrittenRow DEF IInv, TypeOK
<1>5. \A k \in Jobs : k # id => rec'[k] = rec[k]
    BY <1>2 DEF IInv, TypeOK
<1>6. \A k \in Jobs : rec[k].settled => rec[k].state \in Final \cup {"removed"}
    BY DEF IInv, SettledRowsDoNotWait
<1>7. RowsStaySettled
    BY <1>1, <1>4, <1>5, <1>6 DEF RowsStaySettled, Job
<1> QED
    BY <1>1, <1>4, <1>5, <1>7 DEF JobState

\* One place of one worker changes and goes on holding the same job, or lets
\* it go.
LEMMA PlaceStep ==
    ASSUME IInv, TypeOK', RowsStaySettled,
           NEW w \in Workers, NEW s \in Slots, NEW phase \in Phase, NEW job \in Job,
           SetSlot(w, s, phase, job), Holding(w, s),
           phase # "leaked" => job.id = slot[w][s].job.id /\ CopyIsOwnOrStale(w, s)'
    PROVE  PlacesKeepTheirJobs
<1>1. \A v \in Workers, t \in Slots :
         slot'[v][t] = IF v = w /\ t = s THEN [phase |-> phase, job |-> job]
                                        ELSE slot[v][t]
    BY SetSlotType DEF IInv
<1> QED
    BY <1>1 DEF PlacesKeepTheirJobs, Holding

LEMMA NextIInv == IInv /\ [Next]_vars => IInv'
<1> SUFFICES ASSUME IInv, [Next]_vars PROVE IInv'
    OBVIOUS
<1> USE DEF dbVars, workerVars
<1>0. TypeOK /\ TypeOK'
    BY NextTypeOK DEF IInv
<1>1. ASSUME NEW j \in Jobs, Add(j) PROVE IInv'
  <2>1. RowsStaySettled
    BY <1>0, <1>1 DEF Add, IInv, TypeOK, SettledRowsDoNotWait, RowsStaySettled, Final
  <2>2. PlacesKeepTheirJobs
    BY <1>1 DEF Add, PlacesKeepTheirJobs
  <2>3. \A k \in Jobs : rec[k].state = "RUNNING" \/ rec[k].settled
                        => rec'[k].state = "RUNNING" \/ rec'[k].settled
    BY <1>0, <1>1 DEF Add, TypeOK
  <2> QED
    BY <1>0, <1>1, <2>1, <2>2, <2>3, HeldRowStep, HarmlessStep DEF Add
<1>2. ASSUME NEW S \in SUBSET Jobs, RemoveSettledJobs(S) PROVE IInv'
  <2>1. /\ RowsStaySettled
        /\ \A k \in Jobs : rec[k].state = "RUNNING" \/ rec[k].settled
                           => rec'[k].state = "RUNNING" \/ rec'[k].settled
    BY <1>0, <1>2
    DEF RemoveSettledJobs, Removable, IInv, TypeOK, SettledRowsDoNotWait, RowsStaySettled
  <2>2. PlacesKeepTheirJobs
    BY <1>2 DEF RemoveSettledJobs, PlacesKeepTheirJobs
  <2> QED
    BY <1>0, <1>2, <2>1, <2>2, HeldRowStep, HarmlessStep DEF RemoveSettledJobs
<1>3. ASSUME NEW j \in Jobs, CancelRead(j) PROVE IInv'
  <2>1. /\ OneHolder' /\ HeldRowNotWaiting' /\ SettledRowsDoNotWait'
        /\ CopiesAreOwnOrStale'
    BY SMTT(30), <1>3 DEF CancelRead, IInv, OneHolder, HeldRowNotWaiting, SettledRowsDoNotWait,
                CopiesAreOwnOrStale, CopyIsOwnOrStale, Holding
  <2>2. Cancel(Copy(j)).state = "CANCELLED" /\ Cancel(Copy(j)).settled
    BY DEF Cancel, Copy
  <2>3. WritesAreOwnOrStale'
    BY <1>3, <2>2 DEF CancelRead, IInv, WritesAreOwnOrStale
  <2> QED
    BY <1>0, <2>1, <2>3 DEF IInv
<1>4. ASSUME NEW job \in cancels, CancelWrite(job) PROVE IInv'
  <2>1. job \in Job /\ job.state = "CANCELLED" /\ job.settled
    BY <1>0 DEF IInv, TypeOK, WritesAreOwnOrStale
  <2>2. /\ RowsStaySettled
        /\ \A k \in Jobs : rec[k].state = "RUNNING" \/ rec[k].settled
                           => rec'[k].state = "RUNNING" \/ rec'[k].settled
    BY <1>4, <2>1, UpdateRow DEF CancelWrite, Final
  <2>3. PlacesKeepTheirJobs
    BY <1>4 DEF CancelWrite, PlacesKeepTheirJobs
  <2> QED
    BY <1>0, <1>4, <2>2, <2>3, HeldRowStep, HarmlessStep DEF CancelWrite
<1>5. ASSUME NEW m \in wire, ProgressWrite(m) PROVE IInv'
  <2>1. /\ m.job \in Job
        /\ (m.job.state = "RUNNING" /\ ~m.job.settled) \/ rec[m.job.id].settled
    BY <1>0 DEF IInv, TypeOK, WritesAreOwnOrStale
  <2>2. /\ RowsStaySettled
        /\ \A k \in Jobs : rec[k].state = "RUNNING" \/ rec[k].settled
                           => rec'[k].state = "RUNNING" \/ rec'[k].settled
    BY <1>5, <2>1, UpdateRow DEF ProgressWrite, Final
  <2>3. PlacesKeepTheirJobs
    BY <1>5 DEF ProgressWrite, PlacesKeepTheirJobs
  <2> QED
    BY <1>0, <1>5, <2>2, <2>3, HeldRowStep, HarmlessStep DEF ProgressWrite
<1>6. ASSUME rec' = rec, slot' = slot, wire' = wire, cancels' = cancels PROVE IInv'
  <2>1. PlacesKeepTheirJobs
    BY <1>6 DEF PlacesKeepTheirJobs
  <2> QED
    BY <1>0, <1>6, <2>1, RowsUnchanged, HeldRowStep, HarmlessStep
<1>7. ASSUME NEW w \in Workers, NEW j \in Jobs, Claim(w, j) PROVE IInv'
  <2>1. rec[j].state \in Waiting /\ ~rec[j].settled
    BY <1>7 DEF Claim, IsNext, Due, IInv, SettledRowsDoNotWait, Waiting, Final
  <2>2. /\ rec'[j].state = "RUNNING" /\ rec'[j].settled = rec[j].settled
        /\ \A k \in Jobs : k # j => rec'[k] = rec[k]
    BY <1>0, <1>7 DEF Claim, Taken, TypeOK
  <2>3. RowsStaySettled
    BY <2>1, <2>2 DEF IInv, SettledRowsDoNotWait, RowsStaySettled
  <2>4. CASE Sqlite
    <3>1. slot' = slot /\ wire' = wire /\ cancels' = cancels
      BY <1>7, <2>4 DEF Claim
    <3>2. PlacesKeepTheirJobs
      BY <3>1 DEF PlacesKeepTheirJobs
    <3> QED
      BY <1>0, <2>2, <2>3, <3>1, <3>2, HeldRowStep, HarmlessStep
  <2>5. CASE ~Sqlite
    <3> DEFINE job == Start(Copy(j))
    <3>1. PICK s \in Slots : FirstFree(w, s) /\ SetSlot(w, s, "claimed", job)
      BY <1>7, <2>5 DEF Claim
    <3>2. job \in Job /\ job.id = j /\ job.state = "RUNNING" /\ ~job.settled
      BY <1>0, <2>1, CopyType, MethodTypes DEF JobState, Start, Copy
    <3>3. \A v \in Workers, t \in Slots :
             slot'[v][t] = IF v = w /\ t = s THEN [phase |-> "claimed", job |-> job]
                                            ELSE slot[v][t]
      BY <1>0, <3>1, <3>2, SetSlotType DEF Phase
    <3>4. \A v \in Workers, t \in Slots :
             Holding(v, t) => slot[v][t].job.id # j /\ slot[v][t].job.id \in Jobs
      BY <1>0, <2>1 DEF IInv, HeldRowNotWaiting, Waiting, TypeOK, Holding, Job
    <3>5. \A v \in Workers, t \in Slots : Holding(v, t)' =>
             \/ v = w /\ t = s
             \/ Holding(v, t) /\ slot'[v][t] = slot[v][t]
      BY <3>3 DEF Holding
    <3>6. OneHolder'
      <4> SUFFICES ASSUME NEW v1 \in Workers, NEW v2 \in Workers,
                          NEW t1 \in Slots, NEW t2 \in Slots,
                          Holding(v1, t1)', Holding(v2, t2)',
                          slot'[v1][t1].job.id = slot'[v2][t2].job.id
                   PROVE  v1 = v2 /\ t1 = t2
        BY DEF OneHolder
      <4>1. slot'[w][s].job.id = j
        BY <3>2, <3>3
      <4> QED
        BY SMTT(30), <3>4, <3>5, <4>1 DEF IInv, OneHolder
    <3>7. HeldRowNotWaiting'
      <4> SUFFICES ASSUME NEW v \in Workers, NEW t \in Slots, Holding(v, t)'
                   PROVE  LET row == rec'[slot'[v][t].job.id] IN
                          row.state = "RUNNING" \/ row.settled
        BY DEF HeldRowNotWaiting
      <4>1. CASE v = w /\ t = s
        BY <2>2, <3>2, <3>3, <4>1
      <4>2. CASE Holding(v, t) /\ slot'[v][t] = slot[v][t]
        BY ZenonT(60), <2>2, <3>4, <4>2 DEF IInv, HeldRowNotWaiting
      <4> QED
        BY <3>5, <4>1, <4>2
    <3>8. CopiesAreOwnOrStale'
      <4> SUFFICES ASSUME NEW v \in Workers, NEW t \in Slots, Holding(v, t)'
                   PROVE  CopyIsOwnOrStale(v, t)'
        BY DEF CopiesAreOwnOrStale, CopyIsOwnOrStale, Holding
      <4>1. CASE v = w /\ t = s
        BY <3>2, <3>3, <4>1 DEF CopyIsOwnOrStale
      <4>2. CASE Holding(v, t) /\ slot'[v][t] = slot[v][t]
        <5>1. rec'[slot[v][t].job.id] = rec[slot[v][t].job.id]
          BY <2>2, <3>4, <4>2
        <5>2. CopyIsOwnOrStale(v, t)
          BY DEF IInv, CopiesAreOwnOrStale
        <5> QED
          BY <4>2, <5>1, <5>2 DEF CopyIsOwnOrStale
      <4> QED
        BY <3>5, <4>1, <4>2
    <3>9. WritesAreOwnOrStale'
      <4>1. wire' = wire /\ cancels' = cancels
        BY <1>7 DEF Claim
      <4> QED
        BY <1>0, <2>3, <4>1 DEF IInv, TypeOK, WritesAreOwnOrStale, RowsStaySettled, Job
    <3> QED
      BY <1>0, <2>3, <3>6, <3>7, <3>8, <3>9
      DEF IInv, RowsStaySettled, SettledRowsDoNotWait
  <2> QED
    BY <2>4, <2>5
<1>8. ASSUME NEW w \in Workers, NEW s \in Slots,
             Push(w, s) \/ StartFails(w, s) \/ SeeCancelled(w, s) \/ Finish(w, s)
                \/ FinalUpdateFails(w, s)
      PROVE  IInv'
  <2>1. /\ rec' = rec /\ wire' = wire /\ cancels' = cancels
        /\ Holding(w, s)
    BY <1>8 DEF Push, StartFails, SeeCancelled, Finish, FinalUpdateFails, Running, Holding
  <2> DEFINE old == slot[w][s].job
  <2>2. old \in Job /\ CopyIsOwnOrStale(w, s)
    BY <1>0, <2>1 DEF TypeOK, Holding, IInv, CopiesAreOwnOrStale
  <2>3. PICK phase \in Phase, job \in Job :
           /\ SetSlot(w, s, phase, job)
           /\ job.id = old.id
           /\ \/ phase = "leaked"
              \/ phase = "starting" /\ job = old /\ slot[w][s].phase = "claimed"
              \/ phase = "running" /\ job.settled /\ rec[old.id].settled
              \/ /\ phase = "finishing"
                 /\ slot[w][s].phase = "running"
                 /\ job \in Outcomes(old)
    <3>1. CASE Push(w, s)
      BY <2>2, <3>1 DEF Push, Phase
    <3>2. CASE StartFails(w, s) \/ FinalUpdateFails(w, s)
      <4>1. SetSlot(w, s, "leaked", old) /\ "leaked" \in Phase
        BY <3>2 DEF StartFails, FinalUpdateFails, Phase
      <4> QED
        BY <2>2, <4>1
    <3>3. CASE SeeCancelled(w, s)
      <4>1. Cancel(old).settled /\ Cancel(old) \in Job /\ Cancel(old).id = old.id
        <5>1. Cancel(old) \in Job /\ Cancel(old).id = old.id
          BY <2>2, MethodTypes
        <5>2. Cancel(old).settled
          BY <2>2 DEF Cancel, Job
        <5> QED
          BY <5>1, <5>2
      <4>2. rec[old.id].settled
        <5>1. rec[old.id].state = "CANCELLED"
          BY <3>3 DEF SeeCancelled
        <5>2. rec[old.id].state = "RUNNING" \/ rec[old.id].settled
          BY <2>1 DEF IInv, HeldRowNotWaiting
        <5> QED
          BY <5>1, <5>2
      <4>3. SetSlot(w, s, "running", Cancel(old)) /\ "running" \in Phase
        BY <3>3 DEF SeeCancelled, Phase
      <4> QED
        BY <4>1, <4>2, <4>3
    <3>4. CASE Finish(w, s)
      BY <2>2, <3>4, MethodTypes DEF Finish, Running, Outcomes, Phase
    <3> QED
      BY <1>8, <3>1, <3>2, <3>3, <3>4
  <2>4. ASSUME slot[w][s].phase = "running", NEW outcome \in Outcomes(old)
        PROVE  (outcome.settled <=> outcome.state \in Final) \/ rec[old.id].settled
    <3>1. CASE rec[old.id].settled
      BY <3>1
    <3>2. CASE ~rec[old.id].settled
      <4>1. old.state = "RUNNING" /\ ~old.settled
        BY <2>2, <2>4, <3>2 DEF CopyIsOwnOrStale
      <4> QED
        BY <2>2, <2>4, <4>1 DEF Outcomes, Complete, Fail, Final, Job
    <3> QED
      BY <3>1, <3>2
  <2>5. slot'[w][s] = [phase |-> phase, job |-> job]
    BY <1>0, <2>3, SetSlotType
  <2>6. phase # "leaked" => job.id = old.id /\ CopyIsOwnOrStale(w, s)'
    BY SMTT(30), <2>1, <2>2, <2>3, <2>4, <2>5 DEF CopyIsOwnOrStale
  <2>7. PlacesKeepTheirJobs
    BY <1>0, <2>1, <2>3, <2>6, RowsUnchanged, PlaceStep
  <2> QED
    BY <1>0, <2>1, <2>7, RowsUnchanged, HeldRowStep, HarmlessStep
<1>9. ASSUME NEW w \in Workers, NEW s \in Slots, StartProcess(w, s) PROVE IInv'
  <2> DEFINE old == slot[w][s].job
  <2>1. /\ Holding(w, s) /\ old \in Job
        /\ old.state = "RUNNING" /\ ~old.settled
        /\ wire' = wire /\ cancels' = cancels
    BY <1>0, <1>9
    DEF StartProcess, Holding, TypeOK, IInv, CopiesAreOwnOrStale, CopyIsOwnOrStale
  <2>2. /\ RowsStaySettled
        /\ \A k \in Jobs : rec[k].state = "RUNNING" \/ rec[k].settled
                           => rec'[k].state = "RUNNING" \/ rec'[k].settled
    BY <1>9, <2>1, UpdateRow DEF StartProcess, Final
  <2>3. SetSlot(w, s, "running", old) /\ "running" \in Phase
    BY <1>9 DEF StartProcess, Phase
  <2>4. slot'[w][s] = [phase |-> "running", job |-> old]
    BY <1>0, <2>1, <2>3, SetSlotType
  <2>5. CopyIsOwnOrStale(w, s)'
    BY <2>1, <2>4 DEF CopyIsOwnOrStale
  <2>6. PlacesKeepTheirJobs
    BY <1>0, <2>1, <2>2, <2>3, <2>5, PlaceStep
  <2> QED
    BY <1>0, <2>1, <2>2, <2>6, HeldRowStep, HarmlessStep
<1>10. ASSUME NEW w \in Workers, NEW s \in Slots, SendProgress(w, s) PROVE IInv'
  <2>1. rec' = rec /\ slot' = slot /\ cancels' = cancels
    BY <1>10 DEF SendProgress
  <2>2. /\ OneHolder' /\ HeldRowNotWaiting' /\ SettledRowsDoNotWait'
        /\ CopiesAreOwnOrStale'
    BY SMTT(30), <2>1 DEF IInv, OneHolder, HeldRowNotWaiting, SettledRowsDoNotWait,
                CopiesAreOwnOrStale, CopyIsOwnOrStale, Holding
  <2>3. \/ slot[w][s].job.state = "RUNNING" /\ ~slot[w][s].job.settled
        \/ rec[slot[w][s].job.id].settled
    BY <1>10 DEF SendProgress, Running, IInv, CopiesAreOwnOrStale, CopyIsOwnOrStale
  <2>4. wire' = wire \cup {[worker |-> w, job |-> slot[w][s].job]}
    BY <1>10 DEF SendProgress
  <2>5. WritesAreOwnOrStale'
    BY <2>1, <2>3, <2>4 DEF IInv, WritesAreOwnOrStale
  <2> QED
    BY <1>0, <2>2, <2>5 DEF IInv
<1>11. ASSUME NEW w \in Workers, NEW s \in Slots, OnFailOrComplete(w, s) PROVE IInv'
  <2> DEFINE old == slot[w][s].job
  <2>1. /\ Holding(w, s) /\ old \in Job
        /\ (old.settled <=> old.state \in Final) \/ rec[old.id].settled
        /\ wire' = wire /\ cancels' = cancels
    BY <1>0, <1>11
    DEF OnFailOrComplete, Holding, TypeOK, IInv, CopiesAreOwnOrStale, CopyIsOwnOrStale
  <2>2. RowsStaySettled /\ \A k \in Jobs : k # old.id => rec'[k] = rec[k]
    BY <1>11, <2>1, UpdateRow DEF OnFailOrComplete
  <2>3. \A v \in Workers, t \in Slots :
           slot'[v][t] = IF v = w /\ t = s THEN Free ELSE slot[v][t]
    BY <1>0, <1>11 DEF OnFailOrComplete, RemoveJobFromActive, TypeOK
  <2>4. PlacesKeepTheirJobs
    BY <2>3 DEF PlacesKeepTheirJobs, Holding, Free
  <2>5. HeldRowNotWaiting'
    <3> SUFFICES ASSUME NEW v \in Workers, NEW t \in Slots, Holding(v, t)'
                 PROVE  LET row == rec'[slot'[v][t].job.id] IN
                        row.state = "RUNNING" \/ row.settled
      BY DEF HeldRowNotWaiting
    <3>1. ~(v = w /\ t = s) /\ slot'[v][t] = slot[v][t] /\ Holding(v, t)
      BY <2>3 DEF Holding, Free
    <3>2. slot[v][t].job.id # old.id /\ slot[v][t].job.id \in Jobs
      BY <1>0, <2>1, <3>1 DEF IInv, OneHolder, TypeOK, Holding, Job
    <3>3. rec'[slot[v][t].job.id] = rec[slot[v][t].job.id]
      BY <2>2, <3>2
    <3>4. LET row == rec[slot[v][t].job.id] IN row.state = "RUNNING" \/ row.settled
      BY <3>1 DEF IInv, HeldRowNotWaiting
    <3> QED
      BY <3>1, <3>3, <3>4
  <2> QED
    BY <1>0, <2>1, <2>2, <2>4, <2>5, HarmlessStep
<1>12. ASSUME NEW w \in Workers, StopSignal(w) PROVE IInv'
  <2>1. rec' = rec /\ wire' = wire /\ cancels' = cancels
    BY <1>12 DEF StopSignal
  <2>2. \A v \in Workers, t \in Slots :
           slot'[v][t] = IF v = w /\ slot[v][t].phase = "running"
                         THEN [phase |-> "finishing", job |-> Defer(slot[v][t].job)]
                         ELSE slot[v][t]
    BY <1>0, <1>12 DEF StopSignal, TypeOK
  <2>3. ASSUME NEW t \in Slots, slot[w][t].phase = "running"
        PROVE  /\ Defer(slot[w][t].job).id = slot[w][t].job.id
               /\ CopyIsOwnOrStale(w, t)'
    <3> DEFINE old == slot[w][t].job
    <3>1. old \in Job /\ Defer(old).id = old.id
      BY <1>0, <2>3, MethodTypes DEF TypeOK
    <3>2. (old.state = "RUNNING" /\ ~old.settled) \/ rec[old.id].settled
      BY <2>3 DEF IInv, CopiesAreOwnOrStale, CopyIsOwnOrStale
    <3>3. (Defer(old).settled <=> Defer(old).state \in Final) \/ rec[old.id].settled
      BY <3>1, <3>2 DEF Defer, Final, Job
    <3>4. slot'[w][t] = [phase |-> "finishing", job |-> Defer(old)]
      BY <2>2, <2>3
    <3> QED
      BY <2>1, <3>1, <3>3, <3>4 DEF CopyIsOwnOrStale
  <2>4. PlacesKeepTheirJobs
    <3> SUFFICES ASSUME NEW v \in Workers, NEW t \in Slots, slot'[v][t] # slot[v][t]
                 PROVE  /\ Holding(v, t)
                        /\ slot'[v][t].job.id = slot[v][t].job.id
                        /\ CopyIsOwnOrStale(v, t)'
      BY DEF PlacesKeepTheirJobs
    <3>1. /\ v = w /\ slot[w][t].phase = "running"
          /\ slot'[v][t] = [phase |-> "finishing", job |-> Defer(slot[v][t].job)]
      BY <2>2
    <3> QED
      BY <2>3, <3>1 DEF Holding
  <2> QED
    BY <1>0, <2>1, <2>4, RowsUnchanged, HeldRowStep, HarmlessStep
<1>13. ASSUME NEW w \in Workers, ProcessEnds(w) PROVE IInv'
  <2>1. rec' = rec /\ wire' \subseteq wire /\ cancels' = cancels
    BY <1>13 DEF ProcessEnds
  <2>2. \A v \in Workers, t \in Slots : slot'[v][t] = IF v = w THEN Free ELSE slot[v][t]
    BY <1>0, <1>13 DEF ProcessEnds, TypeOK
  <2>3. PlacesKeepTheirJobs
    BY <2>2 DEF PlacesKeepTheirJobs, Holding, Free
  <2> QED
    BY <1>0, <2>1, <2>3, RowsUnchanged, HeldRowStep, HarmlessStep
<1>14. ASSUME NEW w \in Workers,
              \/ BeginRound(w) \/ NothingDue(w) \/ NextFails(w)
              \/ StartQueue(w) \/ StopQueue(w) \/ Drained(w) \/ Stopped(w)
       PROVE  IInv'
    BY <1>6, <1>14
    DEF BeginRound, NothingDue, NextFails, StartQueue, StopQueue, Drained, Stopped
<1>15. ASSUME NEW j \in Jobs, BackoffElapses(j) PROVE IInv'
    BY <1>6, <1>15 DEF BackoffElapses
<1>16. CASE UNCHANGED vars
    BY <1>6, <1>16 DEF vars
<1> QED
    BY <1>1, <1>2, <1>3, <1>4, <1>5, <1>7, <1>8, <1>9, <1>10, <1>11, <1>12, <1>13,
       <1>14, <1>15, <1>16
    DEF Next, ApiStep, LoopStep, JobStep, ProcessStep

-----------------------------------------------------------------------------
THEOREM Invariance == Spec => []IInv
<1>1. Init => IInv
    BY InitIInv
<1>2. IInv /\ [Next]_vars => IInv'
    BY NextIInv
<1> QED
    BY <1>1, <1>2, PTL DEF Spec

\* Every reachable state is well typed.
THEOREM TypeCorrect == Spec => []TypeOK
<1>1. IInv => TypeOK
    BY DEF IInv
<1> QED
    BY <1>1, Invariance, PTL

\* No two workers hold one job, for any number of workers and any mixture of
\* crashes, shutdowns, failing calls, late progress writes and cancellations.
THEOREM MutualExclusion == Spec => []OneHolder
<1>1. IInv => OneHolder
    BY DEF IInv
<1> QED
    BY <1>1, Invariance, PTL

\* A settled row changes in one way only: it is removed.
LEMMA SettledStep ==
    ASSUME IInv, [Next]_vars, NEW j \in Jobs, rec[j].settled
    PROVE  rec'[j] = rec[j] \/ rec'[j].state = "removed"
<1> USE DEF dbVars, workerVars
<1>1. rec[j].state \in Final \cup {"removed"} /\ TypeOK
    BY DEF IInv, SettledRowsDoNotWait
<1>2. ASSUME NEW job \in Job, Update(job) PROVE rec'[j] = rec[j]
  <2>1. rec' = [rec EXCEPT ![job.id] = Written(rec[job.id], job)]
    BY <1>2 DEF Update
  <2>2. CASE j # job.id
    BY <1>1, <2>1, <2>2 DEF TypeOK
  <2>3. CASE j = job.id
    <3>1. rec[j] \in [state : RowState, attempts : Nat, settled : BOOLEAN]
      BY <1>1 DEF TypeOK
    <3>2. Written(rec[j], job) = rec[j]
      BY <3>1, WrittenRow
    <3> QED
      BY <1>1, <2>1, <2>3, <3>2 DEF TypeOK
  <2> QED
    BY <2>2, <2>3
<1>3. CASE ApiStep
  <2>1. ASSUME NEW k \in Jobs, Add(k) PROVE rec'[j] = rec[j]
    BY <1>1, <2>1 DEF Add, TypeOK, Final
  <2>2. ASSUME NEW k \in Jobs, CancelRead(k) PROVE rec'[j] = rec[j]
    BY <2>2 DEF CancelRead
  <2>3. ASSUME NEW S \in SUBSET Jobs, RemoveSettledJobs(S)
        PROVE  rec'[j] = rec[j] \/ rec'[j].state = "removed"
    BY <1>1, <2>3 DEF RemoveSettledJobs, TypeOK
  <2>4. ASSUME NEW job \in cancels, CancelWrite(job) PROVE rec'[j] = rec[j]
    BY <1>1, <1>2, <2>4 DEF CancelWrite, TypeOK
  <2> QED
    BY <1>3, <2>1, <2>2, <2>3, <2>4 DEF ApiStep
<1>4. ASSUME NEW w \in Workers, NEW k \in Jobs, Claim(w, k) PROVE rec'[j] = rec[j]
    BY <1>1, <1>4 DEF Claim, IsNext, Due, Waiting, Final, TypeOK
<1>5. ASSUME NEW w \in Workers, NEW s \in Slots,
             StartProcess(w, s) \/ OnFailOrComplete(w, s)
      PROVE  rec'[j] = rec[j]
  <2>1. slot[w][s].job \in Job /\ Update(slot[w][s].job)
    BY <1>1, <1>5 DEF StartProcess, OnFailOrComplete, TypeOK
  <2> QED
    BY <1>2, <2>1
<1>6. ASSUME NEW m \in wire, ProgressWrite(m) PROVE rec'[j] = rec[j]
    BY <1>1, <1>2, <1>6 DEF ProgressWrite, TypeOK
<1>7. ASSUME NEW w \in Workers, LoopStep(w),
             ~\E k \in Jobs : Claim(w, k), ~\E s \in Slots : StartProcess(w, s)
      PROVE  rec' = rec
    BY <1>7 DEF LoopStep, BeginRound, NothingDue, NextFails, Push, StartFails
<1>8. ASSUME NEW w \in Workers, NEW s \in Slots, JobStep(w, s), ~OnFailOrComplete(w, s)
      PROVE  rec' = rec
    BY <1>8 DEF JobStep, SendProgress, SeeCancelled, Finish, FinalUpdateFails
<1>9. ASSUME NEW w \in Workers, ProcessStep(w) PROVE rec' = rec
    BY <1>9 DEF ProcessStep, StartQueue, StopQueue, Drained, StopSignal, Stopped, ProcessEnds
<1>10. ASSUME NEW k \in Jobs, BackoffElapses(k) PROVE rec' = rec
    BY <1>10 DEF BackoffElapses
<1> QED
    BY <1>3, <1>4, <1>5, <1>6, <1>7, <1>8, <1>9, <1>10 DEF Next, vars

\* The outcome of a job is final.
THEOREM OutcomeIsFinal == Spec => SettledIsFinal
<1>1. IInv /\ [Next]_vars =>
        [\A j \in Jobs : rec[j].settled =>
            \/ rec'[j] = rec[j]
            \/ rec'[j].state = "removed"]_vars
    BY SettledStep
<1> QED
    BY <1>1, Invariance, PTL DEF Spec, SettledIsFinal

-----------------------------------------------------------------------------
(***************************************************************************)
(* The places of a worker.  activeJobs stays within the concurrency        *)
(* because the loop counter is never behind the jobs that execute, and     *)
(* the loop has one job at most on its way between next() and process().   *)
(***************************************************************************)
Executing(w) == {s \in Slots : slot[w][s].phase \in {"running", "finishing", "leaked"}}
OnTheWay(w) == {s \in Slots : slot[w][s].phase \in {"claimed", "starting"}}

PlacesCounted(w) ==
    /\ proc[w] = "off" => loop[w] = "ended"
    /\ loop[w] # "busy" => OnTheWay(w) = {}
    /\ \A s, t \in OnTheWay(w) : s = t
    /\ loop[w] \in {"next", "busy"} =>
          i[w] < Concurrency /\ Cardinality(Executing(w)) <= i[w]
    /\ Cardinality(Executing(w)) <= Concurrency

PlacesAreCounted == \A w \in Workers : PlacesCounted(w)

LEMMA PlacesFinite ==
    ASSUME NEW S \in SUBSET Slots
    PROVE  IsFiniteSet(S) /\ Cardinality(S) \in Nat
<1>1. IsFiniteSet(Slots)
    BY FS_Interval DEF Slots
<1> QED
    BY <1>1, FS_Subset, FS_CardinalityType

LEMMA Fewer ==
    ASSUME NEW S \in SUBSET Slots, NEW T \in SUBSET Slots, S \subseteq T
    PROVE  Cardinality(S) <= Cardinality(T)
BY PlacesFinite, FS_Subset

LEMMA OneMore ==
    ASSUME NEW S \in SUBSET Slots, NEW T \in SUBSET Slots, NEW s \in Slots,
           S \subseteq T \cup {s}
    PROVE  Cardinality(S) <= Cardinality(T) + 1
<1>1. Cardinality(T \cup {s}) <= Cardinality(T) + 1
    BY PlacesFinite, FS_AddElement
<1>2. Cardinality(S) <= Cardinality(T \cup {s})
    BY Fewer
<1>3. /\ Cardinality(S) \in Nat /\ Cardinality(T) \in Nat
      /\ Cardinality(T \cup {s}) \in Nat
    BY PlacesFinite
<1> QED
    BY <1>1, <1>2, <1>3

\* The loop stands still and no place is taken that was not.
LEMMA PlacesGivenUp ==
    ASSUME NEW w \in Workers, PlacesCounted(w), loop'[w] = loop[w], i'[w] = i[w],
           i[w] \in Nat, proc'[w] = "off" => proc[w] = "off",
           Executing(w)' \subseteq Executing(w), OnTheWay(w)' \subseteq OnTheWay(w)
    PROVE  PlacesCounted(w)'
<1>1. Executing(w) \in SUBSET Slots /\ Executing(w)' \in SUBSET Slots
    BY DEF Executing
<1>2. /\ Cardinality(Executing(w)') <= Cardinality(Executing(w))
      /\ Cardinality(Executing(w)') \in Nat /\ Cardinality(Executing(w)) \in Nat
    BY <1>1, Fewer, PlacesFinite
<1> QED
    BY <1>2 DEF PlacesCounted

\* An iteration, or the whole round, is over.
LEMMA IterationEnds ==
    ASSUME TypeOK, NEW w \in Workers, PlacesCounted(w), loop[w] \in {"next", "busy"},
           NextIteration(w) \/ EndRound(w), proc'[w] = proc[w], proc[w] # "off",
           OnTheWay(w)' = {},
           Cardinality(Executing(w)') <= Cardinality(Executing(w)) + 1
    PROVE  PlacesCounted(w)'
<1>1. /\ Cardinality(Executing(w)) \in Nat /\ Cardinality(Executing(w)') \in Nat
      /\ i[w] \in Nat
    BY PlacesFinite DEF Executing, TypeOK
<1>2. i[w] < Concurrency /\ Cardinality(Executing(w)') <= i[w] + 1
    BY <1>1 DEF PlacesCounted
<1>3. CASE EndRound(w)
  <2>1. loop'[w] \in {"idle", "ended"}
    BY <1>3 DEF EndRound, TypeOK
  <2> QED
    BY <1>1, <1>2, <2>1 DEF PlacesCounted
<1>4. CASE ~EndRound(w)
  <2>1. i[w] + 1 < Concurrency /\ loop'[w] = "next" /\ i'[w] = i[w] + 1
    BY <1>4 DEF NextIteration, TypeOK
  <2> QED
    BY <1>1, <1>2, <2>1 DEF PlacesCounted
<1> QED
    BY <1>3, <1>4

LEMMA InitPlaces == Init => PlacesAreCounted
<1> SUFFICES ASSUME Init, NEW w \in Workers PROVE PlacesCounted(w)
    BY DEF PlacesAreCounted
<1>1. /\ Executing(w) = {} /\ OnTheWay(w) = {}
      /\ loop[w] = "ended"
    BY DEF Init, Executing, OnTheWay, Free
<1>2. Cardinality({}) = 0
    BY FS_EmptySet
<1> QED
    BY <1>1, <1>2 DEF PlacesCounted

LEMMA NextPlaces == TypeOK /\ PlacesAreCounted /\ [Next]_vars => PlacesAreCounted'
<1> SUFFICES ASSUME TypeOK, \A w \in Workers : PlacesCounted(w), [Next]_vars,
                    NEW v \in Workers
             PROVE  PlacesCounted(v)'
    BY DEF PlacesAreCounted
<1> USE DEF dbVars, workerVars
<1>0. i[v] \in Nat /\ PlacesCounted(v)
    BY DEF TypeOK
\* Nothing happens to this worker, or to its places and its loop.
<1>1. ASSUME slot'[v] = slot[v], loop'[v] = loop[v], i'[v] = i[v],
             proc'[v] = "off" => proc[v] = "off"
      PROVE  PlacesCounted(v)'
    BY <1>0, <1>1, PlacesGivenUp DEF Executing, OnTheWay
<1>2. ASSUME NEW w \in Workers, BeginRound(w) PROVE PlacesCounted(v)'
  <2>1. CASE v # w
    BY <1>1, <1>2, <2>1 DEF BeginRound, TypeOK
  <2>2. CASE v = w
    <3>1. /\ loop[v] = "idle" /\ proc[v] = "up" /\ OnTheWay(v) = {}
          /\ slot' = slot /\ proc' = proc
      BY <1>0, <1>2, <2>2 DEF BeginRound, PlacesCounted
    <3>2. Active(v) = Executing(v)
      <4>1. \A s \in Slots : slot[v][s].phase \in Phase
        BY DEF TypeOK
      <4> QED
        BY <3>1, <4>1 DEF Active, Executing, OnTheWay, Phase
    <3>3. Executing(v)' = Executing(v) /\ OnTheWay(v)' = OnTheWay(v)
      BY <3>1 DEF Executing, OnTheWay
    <3>4. CASE RunningJobsCount(v) < Concurrency
      <4>1. loop'[v] = "next" /\ i'[v] = Cardinality(Executing(v))
        BY <1>2, <2>2, <3>2, <3>4 DEF BeginRound, RunningJobsCount, TypeOK
      <4>2. Cardinality(Executing(v)) \in Nat /\ Cardinality(Executing(v)) < Concurrency
        BY <3>2, <3>4, PlacesFinite DEF Executing, RunningJobsCount
      <4> QED
        BY <1>0, <3>1, <3>3, <4>1, <4>2 DEF PlacesCounted
    <3>5. CASE ~(RunningJobsCount(v) < Concurrency)
      BY <1>1, <1>2, <2>2, <3>1, <3>5 DEF BeginRound
    <3> QED
      BY <3>4, <3>5
  <2> QED
    BY <2>1, <2>2
<1>3. ASSUME NEW w \in Workers, NEW s \in Slots, NEW phase, NEW job,
             SetSlot(w, s, phase, job)
      PROVE  /\ w # v => slot'[v] = slot[v]
             /\ slot'[w][s].phase = phase
             /\ \A t \in Slots : t # s => slot'[w][t] = slot[w][t]
    BY <1>3 DEF SetSlot, TypeOK
<1>4. ASSUME NEW w \in Workers, NextIteration(w) \/ EndRound(w)
      PROVE  w # v => loop'[v] = loop[v] /\ i'[v] = i[v]
    BY <1>4 DEF NextIteration, EndRound, TypeOK
<1>5. ASSUME NEW w \in Workers, NEW j \in Jobs, Claim(w, j) PROVE PlacesCounted(v)'
  <2>1. /\ loop[w] = "next" /\ proc' = proc /\ proc[w] # "off"
        /\ OnTheWay(w) = {}
    BY <1>5 DEF Claim, Alive, PlacesCounted
  <2>2. CASE Sqlite
    <3>1. slot' = slot /\ NextIteration(w)
      BY <1>5, <2>2 DEF Claim
    <3>2. /\ Executing(w)' = Executing(w) /\ OnTheWay(w)' = {}
          /\ Cardinality(Executing(w)) \in Nat
      BY <2>1, <3>1, PlacesFinite DEF Executing, OnTheWay
    <3>3. CASE v = w
      BY <1>0, <2>1, <3>1, <3>2, <3>3, IterationEnds
    <3>4. CASE v # w
      BY <1>1, <1>4, <2>1, <3>1, <3>4
    <3> QED
      BY <3>3, <3>4
  <2>3. CASE ~Sqlite
    <3>1. PICK s \in Slots : FirstFree(w, s) /\ SetSlot(w, s, "claimed", Start(Copy(j)))
      BY <1>5, <2>3 DEF Claim
    <3>2. loop' = [loop EXCEPT ![w] = "busy"] /\ i' = i
      BY <1>5, <2>3 DEF Claim
    <3>3. CASE v # w
      BY <1>1, <1>3, <2>1, <3>1, <3>2, <3>3 DEF TypeOK
    <3>4. CASE v = w
      <4>1. /\ slot'[v][s].phase = "claimed" /\ slot[v][s].phase = "free"
            /\ \A t \in Slots : t # s => slot'[v][t] = slot[v][t]
        BY <1>3, <3>1, <3>4 DEF FirstFree
      <4>2. Executing(v)' = Executing(v)
        BY <4>1 DEF Executing
      <4>3. OnTheWay(v)' = {s}
        BY <2>1, <3>4, <4>1 DEF OnTheWay
      <4>4. loop[v] = "next" /\ loop'[v] = "busy" /\ i'[v] = i[v]
        BY <2>1, <3>2, <3>4 DEF TypeOK
      <4> QED
        BY <1>0, <2>1, <3>4, <4>2, <4>3, <4>4 DEF PlacesCounted
    <3> QED
      BY <3>3, <3>4
  <2> QED
    BY <2>2, <2>3
<1>6. ASSUME NEW w \in Workers, NothingDue(w) \/ NextFails(w) PROVE PlacesCounted(v)'
  <2>1. /\ loop[w] = "next" /\ slot' = slot /\ proc' = proc /\ proc[w] # "off"
        /\ OnTheWay(w) = {} /\ (NextIteration(w) \/ EndRound(w))
    BY <1>6 DEF NothingDue, NextFails, Alive, PlacesCounted
  <2>2. /\ Executing(w)' = Executing(w) /\ OnTheWay(w)' = {}
        /\ Cardinality(Executing(w)) \in Nat
    BY <2>1, PlacesFinite DEF Executing, OnTheWay
  <2>3. CASE v = w
    BY <1>0, <2>1, <2>2, <2>3, IterationEnds
  <2>4. CASE v # w
    BY <1>1, <1>4, <2>1, <2>4
  <2> QED
    BY <2>3, <2>4
<1>7. ASSUME NEW w \in Workers, NEW s \in Slots, StartProcess(w, s) \/ StartFails(w, s)
      PROVE  PlacesCounted(v)'
  <2>1. /\ slot[w][s].phase = "starting" /\ proc' = proc /\ proc[w] # "off"
        /\ NextIteration(w) \/ EndRound(w)
    BY <1>7 DEF StartProcess, StartFails, Alive
  <2>2. PICK phase \in {"running", "leaked"} : SetSlot(w, s, phase, slot[w][s].job)
    BY <1>7 DEF StartProcess, StartFails
  <2>3. CASE v = w
    <3>1. s \in OnTheWay(v) /\ loop[v] = "busy" /\ OnTheWay(v) = {s}
      <4>1. s \in OnTheWay(v)
        BY <2>1, <2>3 DEF OnTheWay
      <4>2. loop[v] = "busy"
        BY <1>0, <4>1 DEF PlacesCounted
      <4>3. \A t \in OnTheWay(v) : t = s
        BY <1>0, <4>1 DEF PlacesCounted
      <4> QED
        BY <4>1, <4>2, <4>3
    <3>2. /\ slot'[v][s].phase = phase
          /\ \A t \in Slots : t # s => slot'[v][t] = slot[v][t]
      BY <1>3, <2>2, <2>3
    <3>3. OnTheWay(v)' = {}
      BY <3>1, <3>2 DEF OnTheWay
    <3>4. Executing(v)' \subseteq Executing(v) \cup {s}
      BY <3>2 DEF Executing
    <3>5. Cardinality(Executing(v)') <= Cardinality(Executing(v)) + 1
      BY <3>4, OneMore DEF Executing
    <3> QED
      BY <1>0, <2>1, <2>3, <3>1, <3>3, <3>5, IterationEnds
  <2>4. CASE v # w
    BY <1>1, <1>3, <1>4, <2>1, <2>2, <2>4
  <2> QED
    BY <2>3, <2>4
<1>8. ASSUME NEW w \in Workers, NEW s \in Slots,
             Push(w, s) \/ SeeCancelled(w, s) \/ Finish(w, s) \/ FinalUpdateFails(w, s)
      PROVE  PlacesCounted(v)'
  <2>1. loop' = loop /\ i' = i /\ proc' = proc
    BY <1>8 DEF Push, SeeCancelled, Finish, FinalUpdateFails
  <2>2. PICK phase, job :
           /\ SetSlot(w, s, phase, job)
           /\ \/ slot[w][s].phase = "claimed" /\ phase = "starting"
              \/ slot[w][s].phase = "running" /\ phase \in {"running", "finishing"}
              \/ slot[w][s].phase = "finishing" /\ phase = "leaked"
    BY <1>8 DEF Push, SeeCancelled, Finish, FinalUpdateFails, Running
  <2>3. CASE v = w
    <3>1. /\ slot'[v][s].phase = phase
          /\ \A t \in Slots : t # s => slot'[v][t] = slot[v][t]
      BY <1>3, <2>2, <2>3
    <3>2. Executing(v)' \subseteq Executing(v) /\ OnTheWay(v)' \subseteq OnTheWay(v)
      BY <2>2, <2>3, <3>1 DEF Executing, OnTheWay
    <3> QED
      BY <1>0, <2>1, <3>2, PlacesGivenUp
  <2>4. CASE v # w
    BY <1>1, <1>3, <2>1, <2>2, <2>4
  <2> QED
    BY <2>3, <2>4
<1>9. ASSUME NEW w \in Workers, NEW s \in Slots, OnFailOrComplete(w, s)
      PROVE  PlacesCounted(v)'
  <2>1. /\ loop' = loop /\ i' = i /\ proc' = proc
        /\ \A t \in Slots : slot'[v][t] = Free \/ slot'[v][t] = slot[v][t]
    BY <1>9 DEF OnFailOrComplete, RemoveJobFromActive, TypeOK
  <2>2. Executing(v)' \subseteq Executing(v) /\ OnTheWay(v)' \subseteq OnTheWay(v)
    BY <2>1 DEF Executing, OnTheWay, Free
  <2> QED
    BY <1>0, <2>1, <2>2, PlacesGivenUp
<1>10. ASSUME NEW w \in Workers, StartQueue(w) PROVE PlacesCounted(v)'
  <2>1. CASE v # w
    BY <1>1, <1>10, <2>1 DEF StartQueue, TypeOK
  <2>2. CASE v = w
    <3>1. /\ proc[v] = "off" /\ proc'[v] = "up" /\ loop'[v] = "idle" /\ slot' = slot
      BY <1>10, <2>2 DEF StartQueue, TypeOK
    <3>2. OnTheWay(v)' = {} /\ Executing(v)' = Executing(v)
      BY <1>0, <3>1 DEF PlacesCounted, OnTheWay, Executing
    <3> QED
      BY <1>0, <3>1, <3>2 DEF PlacesCounted
  <2> QED
    BY <2>1, <2>2
<1>11. ASSUME NEW w \in Workers, StopQueue(w) PROVE PlacesCounted(v)'
  <2>1. CASE loop'[v] = loop[v]
    BY <1>1, <1>11, <2>1 DEF StopQueue, TypeOK
  <2>2. CASE loop'[v] # loop[v]
    <3>1. /\ loop[v] = "idle" /\ loop'[v] = "ended" /\ slot' = slot
      BY <1>11, <2>2 DEF StopQueue, TypeOK
    <3>2. OnTheWay(v)' = {} /\ Executing(v)' = Executing(v)
      BY <1>0, <3>1 DEF PlacesCounted, OnTheWay, Executing
    <3> QED
      BY <1>0, <3>1, <3>2 DEF PlacesCounted
  <2> QED
    BY <2>1, <2>2
<1>12. ASSUME NEW w \in Workers, Drained(w) \/ Stopped(w) PROVE PlacesCounted(v)'
    BY <1>1, <1>12 DEF Drained, Stopped, TypeOK
<1>13. ASSUME NEW w \in Workers, StopSignal(w) PROVE PlacesCounted(v)'
  <2>1. /\ loop' = loop /\ i' = i /\ (proc'[v] = "off" => proc[v] = "off")
        /\ \A t \in Slots :
              \/ slot[v][t].phase = "running" /\ slot'[v][t].phase = "finishing"
              \/ slot'[v][t] = slot[v][t]
    BY <1>13 DEF StopSignal, TypeOK
  <2>2. Executing(v)' \subseteq Executing(v) /\ OnTheWay(v)' \subseteq OnTheWay(v)
    BY <2>1 DEF Executing, OnTheWay
  <2> QED
    BY <1>0, <2>1, <2>2, PlacesGivenUp
<1>14. ASSUME NEW w \in Workers, ProcessEnds(w) PROVE PlacesCounted(v)'
  <2>1. CASE v # w
    BY <1>1, <1>14, <2>1 DEF ProcessEnds, TypeOK
  <2>2. CASE v = w
    <3>1. loop'[v] = "ended" /\ \A t \in Slots : slot'[v][t] = Free
      BY <1>14, <2>2 DEF ProcessEnds, TypeOK
    <3>2. OnTheWay(v)' = {} /\ Executing(v)' = {}
      BY <3>1 DEF OnTheWay, Executing, Free
    <3> QED
      BY <3>1, <3>2, FS_EmptySet DEF PlacesCounted
  <2> QED
    BY <2>1, <2>2
<1>15. ASSUME slot' = slot, loop' = loop, i' = i, proc' = proc PROVE PlacesCounted(v)'
    BY <1>1, <1>15
<1>16. CASE \/ ApiStep \/ (\E j \in Jobs : BackoffElapses(j))
            \/ (\E m \in wire : ProgressWrite(m))
            \/ (\E w \in Workers, s \in Slots : SendProgress(w, s)) \/ UNCHANGED vars
    BY <1>15, <1>16 DEF ApiStep, Add, CancelRead, RemoveSettledJobs, CancelWrite,
                        BackoffElapses, ProgressWrite, SendProgress, vars
<1> QED
    BY <1>2, <1>5, <1>6, <1>7, <1>8, <1>9, <1>10, <1>11, <1>12, <1>13, <1>14, <1>16
    DEF Next, LoopStep, JobStep, ProcessStep

\* No worker works on more jobs at a time than its concurrency, although a
\* round of runNextJobs counts them once and then awaits between the pushes.
THEOREM ConcurrencyKept == Spec => []ActiveWithinConcurrency
<1>1. ASSUME TypeOK, NEW w \in Workers, PlacesCounted(w)
      PROVE  Cardinality(Active(w)) <= Concurrency
  <2>1. Executing(w) \in SUBSET Slots /\ Active(w) \in SUBSET Slots
    BY DEF Executing, Active
  <2>2. /\ Cardinality(Executing(w)) \in Nat /\ Cardinality(Active(w)) \in Nat
        /\ i[w] \in Nat
    BY <1>1, <2>1, PlacesFinite DEF TypeOK
  <2>3. Active(w) \subseteq Executing(w) \cup OnTheWay(w)
    BY <1>1 DEF TypeOK, Phase, Active, Executing, OnTheWay
  <2>4. CASE OnTheWay(w) = {}
    <3>1. Cardinality(Active(w)) <= Cardinality(Executing(w))
      BY <2>1, <2>3, <2>4, Fewer
    <3> QED
      BY <1>1, <2>2, <3>1 DEF PlacesCounted
  <2>5. CASE OnTheWay(w) # {}
    <3>1. PICK s \in Slots : OnTheWay(w) = {s}
      BY <1>1, <2>5 DEF PlacesCounted, OnTheWay
    <3>2. Cardinality(Active(w)) <= Cardinality(Executing(w)) + 1
      BY <2>1, <2>3, <3>1, OneMore
    <3>3. Cardinality(Executing(w)) <= i[w] /\ i[w] < Concurrency
      BY <1>1, <2>5 DEF PlacesCounted
    <3> QED
      BY <2>2, <3>2, <3>3
  <2> QED
    BY <2>4, <2>5
<1>2. TypeOK /\ PlacesAreCounted => ActiveWithinConcurrency
    BY <1>1 DEF PlacesAreCounted, ActiveWithinConcurrency
<1> QED
    BY <1>2, InitPlaces, NextPlaces, TypeCorrect, PTL DEF Spec
=============================================================================
