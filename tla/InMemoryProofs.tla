--------------------------- MODULE InMemoryProofs ---------------------------
(***************************************************************************)
(* For every set of jobs, every concurrency and every number of retries    *)
(* and cancellations: the in-memory strategy neither forgets a job nor     *)
(* runs one twice at a time, and each cancellation costs one execution.    *)
(* And it implements JobLifecycle for every set of jobs that nobody        *)
(* cancels, whatever happens to the others.                                *)
(***************************************************************************)
EXTENDS InMemoryJobQueue, FiniteSetTheorems, TLAPS

USE MemoryConcurrencyAssumption, MemoryRetriesAssumption

MemorySpec == MemoryQueueInit /\ [][MemoryQueueNext]_memoryQueueVars

\* A job that waits has attempts left; one that was not added is blank.
AttemptsLeft ==
    \A j \in MemoryJobs :
       /\ object[j].state \in MemoryWaiting => object[j].attempts <= MemoryRetries
       /\ object[j].state = "absent" => object[j] = NotAdded

\* Only jobs that were added are in the collections.
OnlyAdded == \A j \in MemoryJobs : Listed(j) \/ j \in activeJobs \/ j \in found => Added(j)

\* A job that is listed although it is over will be executed once more.
Owed(j) == IF Listed(j) /\ object[j].state \in MemoryFinal THEN 1 ELSE 0

ExecutionsPaid ==
    \A j \in MemoryJobs : executions[j] + Owed(j) <= object[j].attempts + cancelled[j]

\* The loop counter is never behind the number of active jobs.
ActiveCounted == IsFiniteSet(activeJobs) /\ Cardinality(activeJobs) <= turn

MemoryInv ==
    /\ MemoryQueueTypeOK /\ AttemptsLeft /\ OnlyAdded /\ ListedOrActive /\ ExecutionsPaid
    /\ ActiveCounted

-----------------------------------------------------------------------------
(***************************************************************************)
(* What the four ways to change unsettledJobs do to the jobs in it.        *)
(***************************************************************************)
In(s, j) == \E k \in DOMAIN s : s[k] = j
NoneTwice(s) == \A k, l \in DOMAIN s : s[k] = s[l] => k = l

LEMMA AppendOne ==
    ASSUME NEW S, NEW s \in Seq(S), NEW x \in S, ~In(s, x), NoneTwice(s)
    PROVE  /\ Append(s, x) \in Seq(S) /\ NoneTwice(Append(s, x))
           /\ \A j : In(Append(s, x), j) <=> In(s, j) \/ j = x
<1>1. /\ Append(s, x) \in Seq(S)
      /\ Len(Append(s, x)) = Len(s) + 1
      /\ Append(s, x)[Len(s) + 1] = x
      /\ \A k \in 1 .. Len(s) : Append(s, x)[k] = s[k]
    OBVIOUS
<1>2. DOMAIN s = 1 .. Len(s) /\ DOMAIN Append(s, x) = 1 .. Len(s) + 1 /\ Len(s) \in Nat
    BY <1>1
<1>3. NoneTwice(Append(s, x))
    BY <1>1, <1>2 DEF In, NoneTwice
<1>4. ASSUME NEW j PROVE In(Append(s, x), j) <=> In(s, j) \/ j = x
    BY <1>1, <1>2 DEF In
<1> QED
    BY <1>1, <1>3, <1>4

LEMMA DropHead ==
    ASSUME NEW S, NEW s \in Seq(S), s # <<>>, NoneTwice(s)
    PROVE  /\ Head(s) \in S /\ In(s, Head(s))
           /\ Tail(s) \in Seq(S) /\ NoneTwice(Tail(s)) /\ ~In(Tail(s), Head(s))
           /\ \A j : In(Tail(s), j) <=> In(s, j) /\ j # Head(s)
<1>1. /\ Tail(s) \in Seq(S) /\ Len(s) \in Nat \ {0}
      /\ Len(Tail(s)) = Len(s) - 1
      /\ Head(s) = s[1] /\ Head(s) \in S
      /\ \A k \in 1 .. Len(s) - 1 : Tail(s)[k] = s[k + 1]
    OBVIOUS
<1>2. DOMAIN s = 1 .. Len(s) /\ DOMAIN Tail(s) = 1 .. Len(s) - 1
    BY <1>1
<1>3. NoneTwice(Tail(s))
    BY <1>1, <1>2 DEF NoneTwice
<1>4. ~In(Tail(s), Head(s)) /\ In(s, Head(s))
    BY <1>1, <1>2 DEF In, NoneTwice
<1>5. ASSUME NEW j, In(s, j), j # Head(s) PROVE In(Tail(s), j)
  <2>1. PICK k \in 1 .. Len(s) : s[k] = j
      BY <1>2, <1>5 DEF In
  <2>2. k - 1 \in 1 .. Len(s) - 1 /\ Tail(s)[k - 1] = j
      BY <1>1, <1>5, <2>1
  <2> QED
      BY <1>2, <2>2 DEF In
<1>6. ASSUME NEW j, In(Tail(s), j) PROVE In(s, j)
    BY <1>1, <1>2, <1>6 DEF In
<1> QED
    BY <1>1, <1>3, <1>4, <1>5, <1>6

LEMMA PutFirst ==
    ASSUME NEW S, NEW s \in Seq(S), NEW x \in S, ~In(s, x), NoneTwice(s)
    PROVE  /\ <<x>> \o s \in Seq(S) /\ NoneTwice(<<x>> \o s)
           /\ \A j : In(<<x>> \o s, j) <=> In(s, j) \/ j = x
<1> DEFINE t == <<x>> \o s
<1>1. /\ t \in Seq(S) /\ Len(s) \in Nat
      /\ Len(t) = Len(s) + 1
      /\ t[1] = x
      /\ \A k \in 1 .. Len(s) : t[k + 1] = s[k]
    OBVIOUS
<1> HIDE DEF t
<1>2. DOMAIN s = 1 .. Len(s) /\ DOMAIN t = 1 .. Len(s) + 1
    BY <1>1
<1>3. \A k \in 2 .. Len(s) + 1 : k - 1 \in 1 .. Len(s) /\ t[k] = s[k - 1]
  <2> SUFFICES ASSUME NEW k \in 2 .. Len(s) + 1
               PROVE  k - 1 \in 1 .. Len(s) /\ t[k] = s[k - 1]
      OBVIOUS
  <2>1. k - 1 \in 1 .. Len(s) /\ (k - 1) + 1 = k
      BY <1>1
  <2> QED
      BY <1>1, <2>1
<1>4. \A k \in 2 .. Len(s) + 1 : t[k] # t[1]
    BY <1>1, <1>2, <1>3 DEF In
<1>5. ASSUME NEW k \in DOMAIN t, NEW l \in DOMAIN t, t[k] = t[l] PROVE k = l
  <2>1. CASE k = 1 \/ l = 1
      BY <1>1, <1>2, <1>4, <1>5, <2>1
  <2>2. CASE k # 1 /\ l # 1
    <3>1. k \in 2 .. Len(s) + 1 /\ l \in 2 .. Len(s) + 1
        BY <1>1, <1>2, <2>2
    <3>2. s[k - 1] = s[l - 1] /\ k - 1 \in DOMAIN s /\ l - 1 \in DOMAIN s
        BY <1>2, <1>3, <1>5, <3>1
    <3>3. k - 1 = l - 1
        BY <3>2 DEF NoneTwice
    <3> QED
        BY <3>1, <3>3, <1>1
  <2> QED
      BY <2>1, <2>2
<1>6. ASSUME NEW j, In(t, j) PROVE In(s, j) \/ j = x
  <2>1. PICK k \in DOMAIN t : t[k] = j
      BY <1>6 DEF In
  <2>2. k = 1 \/ k \in 2 .. Len(s) + 1
      BY <1>1, <1>2
  <2> QED
      BY <1>1, <1>2, <1>3, <2>1, <2>2 DEF In
<1>7. ASSUME NEW j, In(s, j) PROVE In(t, j)
  <2>1. PICK k \in 1 .. Len(s) : s[k] = j
      BY <1>2, <1>7 DEF In
  <2>2. k + 1 \in DOMAIN t /\ t[k + 1] = j
      BY <1>1, <1>2, <2>1
  <2> QED
      BY <2>2 DEF In
<1>8. In(t, x)
    BY <1>1, <1>2 DEF In
<1> QED
    BY <1>1, <1>5, <1>6, <1>7, <1>8 DEF t, NoneTwice

-----------------------------------------------------------------------------
(***************************************************************************)
(* What happens to one Job object.                                         *)
(***************************************************************************)
LEMMA NotAddedJob == NotAdded \in MemoryJob /\ NotAdded.state \notin MemoryState
BY DEF NotAdded, MemoryJob, MemoryState, MemoryWaiting, MemoryFinal

LEMMA StartedJob ==
    ASSUME NEW job \in MemoryJob, job.state \in MemoryState,
           job.state \in MemoryWaiting => job.attempts <= MemoryRetries
    PROVE  /\ Started(job) \in MemoryJob
           /\ Started(job).state \in MemoryFinal \cup {"RUNNING"}
           /\ job.state \in MemoryWaiting =>
                 Started(job).state = "RUNNING" /\ Started(job).attempts = job.attempts + 1
           /\ job.state \notin MemoryWaiting => Started(job) = job
<1>1. CASE job.state \in MemoryWaiting
  <2>1. job.attempts + 1 \in 0 .. MemoryRetries + 1
      BY <1>1 DEF MemoryJob
  <2> QED
      BY <1>1, <2>1 DEF Started, MemoryJob, MemoryState
<1>2. CASE job.state \notin MemoryWaiting
    BY <1>2 DEF Started, MemoryState
<1> QED
    BY <1>1, <1>2

LEMMA CancelledJob ==
    ASSUME NEW job \in MemoryJob
    PROVE  /\ Cancelled(job) \in MemoryJob
           /\ Cancelled(job).state = "CANCELLED" /\ Cancelled(job).settled
           /\ Cancelled(job).attempts = job.attempts
BY DEF Cancelled, MemoryJob, MemoryState, MemoryFinal

LEMMA OutcomeJob ==
    ASSUME NEW job \in MemoryJob, NEW out \in MemoryOutcomes(job)
    PROVE  /\ out \in MemoryJob
           /\ out.attempts = job.attempts
           /\ out.state \in MemoryFinal \cup {"RETRYING"}
           /\ out.state \in MemoryWaiting => out.attempts <= MemoryRetries
<1>1. CASE out = Completed(job)
    BY <1>1 DEF Completed, MemoryJob, MemoryState, MemoryFinal, MemoryWaiting
<1>2. CASE out = Failed(job)
    BY <1>2 DEF Failed, MemoryJob, MemoryState, MemoryFinal, MemoryWaiting
<1>3. CASE out = job /\ job.state = "CANCELLED"
    BY <1>3 DEF MemoryFinal, MemoryWaiting
<1> QED
    BY <1>1, <1>2, <1>3 DEF MemoryOutcomes

\* A step that changes neither the objects nor what is listed and active, and
\* removes settled jobs at most.
LEMMA QuietStep ==
    ASSUME MemoryInv, MemoryQueueTypeOK',
           UNCHANGED <<object, activeJobs, executions, cancelled>>,
           \A j \in MemoryJobs : Listed(j)' <=> Listed(j),
           NoneTwice(unsettled)',
           found' \subseteq found, \A j \in found \ found' : IsSettled(j),
           ActiveCounted'
    PROVE  MemoryInv'
<1>1. AttemptsLeft'
    BY DEF MemoryInv, AttemptsLeft
<1>2. OnlyAdded'
    BY DEF MemoryInv, OnlyAdded, Added
<1>3. ListedOrActive'
    BY DEF MemoryInv, ListedOrActive, Added, IsSettled, NoneTwice
<1>4. ExecutionsPaid'
    BY DEF MemoryInv, ExecutionsPaid, Owed
<1> QED
    BY <1>1, <1>2, <1>3, <1>4 DEF MemoryInv

\* A step of job j: j's conjuncts, and the other jobs are left alone.
LEMMA OneJobStep ==
    ASSUME MemoryInv, MemoryQueueTypeOK', NEW j \in MemoryJobs,
           NoneTwice(unsettled)',
           \A i \in MemoryJobs \ {j} :
              /\ object'[i] = object[i] /\ executions'[i] = executions[i]
              /\ cancelled'[i] = cancelled[i]
              /\ Listed(i)' <=> Listed(i)
              /\ i \in activeJobs' <=> i \in activeJobs
              /\ i \in found' <=> i \in found,
           object'[j].state \in MemoryState,
           object'[j].state \in MemoryWaiting =>
              Listed(j)' /\ object'[j].attempts <= MemoryRetries,
           object'[j].state = "RUNNING" => j \in activeJobs',
           object'[j].state \notin MemoryFinal \/ ~object'[j].settled => j \in found',
           ~(Listed(j)' /\ j \in activeJobs'),
           executions'[j] + Owed(j)' <= object'[j].attempts + cancelled'[j],
           ActiveCounted'
    PROVE  MemoryInv'
<1>1. ASSUME NEW i \in MemoryJobs
      PROVE  /\ object'[i].state \in MemoryWaiting => object'[i].attempts <= MemoryRetries
             /\ object'[i].state = "absent" => object'[i] = NotAdded
  <2>1. CASE i = j
      BY <2>1, NotAddedJob DEF MemoryState, MemoryWaiting, MemoryFinal
  <2>2. CASE i # j
      BY <2>2 DEF MemoryInv, AttemptsLeft
  <2> QED
      BY <2>1, <2>2
<1>2. ASSUME NEW i \in MemoryJobs, Listed(i)' \/ i \in activeJobs' \/ i \in found'
      PROVE  Added(i)'
    BY <1>2 DEF MemoryInv, OnlyAdded, Added
<1>3. ASSUME NEW i \in MemoryJobs
      PROVE  /\ object'[i].state \in MemoryWaiting => Listed(i)'
             /\ object'[i].state = "RUNNING" => i \in activeJobs'
             /\ Added(i)' /\ ~IsSettled(i)' => i \in found'
             /\ ~(Listed(i)' /\ i \in activeJobs')
  <2>1. CASE i = j
      BY <2>1 DEF IsSettled
  <2>2. CASE i # j
      BY <2>2 DEF MemoryInv, ListedOrActive, Added, IsSettled
  <2> QED
      BY <2>1, <2>2
<1>4. ASSUME NEW i \in MemoryJobs
      PROVE  executions'[i] + Owed(i)' <= object'[i].attempts + cancelled'[i]
  <2>1. CASE i = j
      BY <2>1
  <2>2. CASE i # j
    <3>1. Owed(i)' = Owed(i)
        BY <2>2 DEF Owed
    <3> QED
        BY <2>2, <3>1 DEF MemoryInv, ExecutionsPaid
  <2> QED
      BY <2>1, <2>2
<1> QED
    BY <1>1, <1>2, <1>3, <1>4
       DEF MemoryInv, AttemptsLeft, OnlyAdded, ListedOrActive, ExecutionsPaid, NoneTwice

-----------------------------------------------------------------------------
LEMMA InitMemory == MemoryQueueInit => MemoryInv
<1> SUFFICES ASSUME MemoryQueueInit PROVE MemoryInv
    OBVIOUS
<1>1. Len(<<>>) = 0 /\ 1 .. 0 = {}
    OBVIOUS
<1>2. \A j \in MemoryJobs : ~Listed(j) /\ object[j] = NotAdded /\ ~Added(j)
    BY <1>1, NotAddedJob DEF MemoryQueueInit, Listed, Added
<1>3. MemoryQueueTypeOK
  <2>1. object \in [MemoryJobs -> MemoryJob]
      BY NotAddedJob DEF MemoryQueueInit
  <2> QED
      BY <2>1 DEF MemoryQueueInit, MemoryQueueTypeOK
<1>4. AttemptsLeft /\ OnlyAdded
    BY <1>2, NotAddedJob DEF AttemptsLeft, OnlyAdded, MemoryQueueInit, MemoryState, Added
<1>5. ListedOrActive
  <2>1. \A j \in MemoryJobs : object[j].state \notin MemoryWaiting /\ object[j].state # "RUNNING"
      BY <1>2, NotAddedJob DEF MemoryState
  <2> QED
      BY <1>1, <1>2, <2>1 DEF ListedOrActive, MemoryQueueInit
<1>6. ExecutionsPaid
    BY <1>2 DEF ExecutionsPaid, Owed, MemoryQueueInit, NotAdded
<1>7. ActiveCounted
    BY FS_EmptySet DEF MemoryQueueInit, ActiveCounted
<1> QED
    BY <1>3, <1>4, <1>5, <1>6, <1>7 DEF MemoryInv

\* unsettledJobs as the four lemmas on sequences see it.
LEMMA UnsettledIsSound ==
    ASSUME MemoryInv
    PROVE  /\ unsettled \in Seq(MemoryJobs) /\ NoneTwice(unsettled)
           /\ \A j : Listed(j) <=> In(unsettled, j)
           /\ \A j : Listed(j)' <=> In(unsettled', j)
BY DEF MemoryInv, MemoryQueueTypeOK, ListedOrActive, NoneTwice, Listed, In

LEMMA ActiveStays ==
    ASSUME MemoryInv, UNCHANGED <<activeJobs, turn>>
    PROVE  ActiveCounted'
BY DEF MemoryInv, ActiveCounted

LEMMA AddKeeps ==
    ASSUME MemoryInv, NEW j \in MemoryJobs, AddToMemory(j)
    PROVE  MemoryInv'
<1>1. ~Listed(j) /\ j \notin activeJobs
    BY NotAddedJob DEF MemoryInv, OnlyAdded, AddToMemory, Added
<1>2. /\ unsettled' \in Seq(MemoryJobs) /\ NoneTwice(unsettled)'
      /\ \A i : Listed(i)' <=> Listed(i) \/ i = j
    BY <1>1, UnsettledIsSound, AppendOne DEF AddToMemory
<1>3. /\ object \in [MemoryJobs -> MemoryJob] /\ object[j] = NotAdded
      /\ object' = [object EXCEPT ![j] = [NotAdded EXCEPT !.state = "PENDING"]]
    BY DEF AddToMemory, MemoryInv, MemoryQueueTypeOK
<1> DEFINE new == [NotAdded EXCEPT !.state = "PENDING"]
<1>4. new \in MemoryJob /\ new.state = "PENDING" /\ new.attempts = 0
  <2>1. NotAdded \in MemoryJob /\ "PENDING" \in MemoryState
      BY NotAddedJob DEF MemoryState, MemoryWaiting
  <2>2. new \in MemoryJob /\ new.state = "PENDING"
      BY <2>1 DEF MemoryJob
  <2>3. NotAdded.attempts = 0
      BY DEF NotAdded
  <2>4. new.attempts = NotAdded.attempts
      BY <2>1 DEF MemoryJob
  <2> QED
      BY <2>2, <2>3, <2>4
<1> HIDE DEF new
<1>5. MemoryQueueTypeOK'
    BY <1>2, <1>3, <1>4 DEF AddToMemory, MemoryInv, MemoryQueueTypeOK, new
<1>6. object'[j].state = "PENDING" /\ object'[j].attempts = 0
    BY <1>3, <1>4 DEF new
<1>7. executions'[j] + Owed(j)' <= object'[j].attempts + cancelled'[j]
  <2>1. object[j].attempts = 0 /\ object[j].state = "absent"
      BY <1>3 DEF NotAdded
  <2>2. Owed(j) = 0 /\ Owed(j)' = 0
      BY <1>6, <2>1 DEF Owed, MemoryFinal
  <2>3. executions[j] + Owed(j) <= object[j].attempts + cancelled[j]
      BY DEF MemoryInv, ExecutionsPaid
  <2>4. executions'[j] = executions[j] /\ cancelled'[j] = cancelled[j]
      BY DEF AddToMemory
  <2> QED
      BY <1>6, <2>1, <2>2, <2>3, <2>4
<1>8. \A i \in MemoryJobs \ {j} : object'[i] = object[i]
    BY <1>3
<1> QED
    BY <1>1, <1>2, <1>5, <1>6, <1>7, <1>8, ActiveStays, OneJobStep
       DEF AddToMemory, MemoryState, MemoryWaiting, MemoryFinal

LEMMA CancelKeeps ==
    ASSUME MemoryInv, NEW j \in MemoryJobs, CancelInMemory(j)
    PROVE  MemoryInv'
<1>1. /\ object \in [MemoryJobs -> MemoryJob]
      /\ object' = [object EXCEPT ![j] = Cancelled(object[j])]
    BY DEF CancelInMemory, MemoryInv, MemoryQueueTypeOK
<1>2. /\ Cancelled(object[j]) \in MemoryJob
      /\ object'[j].state = "CANCELLED" /\ object'[j].settled
      /\ object'[j].attempts = object[j].attempts
    BY <1>1, CancelledJob
<1>3. cancelled'[j] = cancelled[j] + 1 /\ cancelled' \in [MemoryJobs -> Nat]
    BY DEF CancelInMemory, MemoryInv, MemoryQueueTypeOK
<1>4. MemoryQueueTypeOK'
    BY <1>1, <1>2, <1>3 DEF CancelInMemory, MemoryInv, MemoryQueueTypeOK
<1>5. /\ \A i : Listed(i)' <=> Listed(i)
      /\ NoneTwice(unsettled)'
    BY UnsettledIsSound DEF CancelInMemory, Listed, NoneTwice
<1>6. executions'[j] + Owed(j)' <= object'[j].attempts + cancelled'[j]
  <2>1. executions[j] + Owed(j) <= object[j].attempts + cancelled[j]
      BY DEF MemoryInv, ExecutionsPaid
  <2>2. Owed(j) \in {0, 1} /\ Owed(j)' \in {0, 1}
      BY DEF Owed
  <2>3. executions'[j] = executions[j] /\ executions[j] \in Nat
        /\ cancelled[j] \in Nat /\ object[j].attempts \in Nat
      BY <1>1 DEF CancelInMemory, MemoryInv, MemoryQueueTypeOK, MemoryJob
  <2> QED
      BY <1>2, <1>3, <2>1, <2>2, <2>3
<1>7. \A i \in MemoryJobs \ {j} : object'[i] = object[i] /\ cancelled'[i] = cancelled[i]
    BY <1>1 DEF CancelInMemory, MemoryInv, MemoryQueueTypeOK
<1>8. ~(Listed(j) /\ j \in activeJobs)
    BY DEF MemoryInv, ListedOrActive
<1> QED
    BY <1>2, <1>4, <1>5, <1>6, <1>7, <1>8, ActiveStays, OneJobStep
       DEF CancelInMemory, MemoryState, MemoryWaiting, MemoryFinal

LEMMA RemoveKeeps ==
    ASSUME MemoryInv, NEW S \in SUBSET MemoryJobs, RemoveFromMemory(S)
    PROVE  MemoryInv'
<1>1. MemoryQueueTypeOK'
    BY DEF RemoveFromMemory, MemoryInv, MemoryQueueTypeOK
<1>2. /\ \A i : Listed(i)' <=> Listed(i)
      /\ NoneTwice(unsettled)'
    BY UnsettledIsSound DEF RemoveFromMemory, Listed, NoneTwice
<1> QED
    BY <1>1, <1>2, ActiveStays, QuietStep DEF RemoveFromMemory

LEMMA IdleKeeps ==
    ASSUME MemoryInv,
           PollMemory \/ NothingListed \/ \E j \in MemoryJobs : BackoffPasses(j)
    PROVE  MemoryInv'
<1>1. /\ UNCHANGED <<object, found, unsettled, activeJobs, executions, cancelled>>
      /\ delayed' \subseteq delayed
    BY DEF PollMemory, NothingListed, BackoffPasses
<1>2. turn' \in 0 .. MemoryConcurrency /\ Cardinality(activeJobs) <= turn'
  <2>0. /\ Cardinality(activeJobs) \in Nat /\ Cardinality(activeJobs) <= turn
        /\ turn \in 0 .. MemoryConcurrency
      BY FS_CardinalityType DEF MemoryInv, ActiveCounted, MemoryQueueTypeOK
  <2>1. CASE PollMemory
      BY <2>0, <2>1 DEF PollMemory
  <2>2. CASE NothingListed
      BY <2>0, <2>2 DEF NothingListed
  <2>3. CASE \E j \in MemoryJobs : BackoffPasses(j)
      BY <2>0, <2>3 DEF BackoffPasses
  <2> QED
      BY <2>1, <2>2, <2>3
<1>3. MemoryQueueTypeOK'
    BY <1>1, <1>2 DEF MemoryInv, MemoryQueueTypeOK
<1>4. /\ \A i : Listed(i)' <=> Listed(i)
      /\ NoneTwice(unsettled)'
    BY <1>1, UnsettledIsSound DEF Listed, NoneTwice
<1>5. ActiveCounted'
    BY <1>1, <1>2 DEF MemoryInv, ActiveCounted
<1> QED
    BY <1>1, <1>3, <1>4, <1>5, QuietStep

LEMMA DelayedKeeps ==
    ASSUME MemoryInv, StillDelayed
    PROVE  MemoryInv'
<1> DEFINE j == Head(unsettled)
           rest == Tail(unsettled)
<1>1. unsettled \in Seq(MemoryJobs) /\ unsettled # <<>> /\ unsettled' = Append(rest, j)
    BY DEF StillDelayed, PutBack, MemoryInv, MemoryQueueTypeOK
<1>2. /\ j \in MemoryJobs /\ In(unsettled, j)
      /\ rest \in Seq(MemoryJobs) /\ NoneTwice(rest) /\ ~In(rest, j)
      /\ \A i : In(rest, i) <=> In(unsettled, i) /\ i # j
    BY <1>1, UnsettledIsSound, DropHead
<1> HIDE DEF j, rest
<1>3. /\ unsettled' \in Seq(MemoryJobs) /\ NoneTwice(unsettled')
      /\ \A i : In(unsettled', i) <=> In(rest, i) \/ i = j
    BY <1>1, <1>2, AppendOne
<1>4. \A i : Listed(i)' <=> Listed(i)
    BY <1>2, <1>3, UnsettledIsSound
<1>5. turn' = turn + 1 /\ turn' \in 0 .. MemoryConcurrency
    BY DEF StillDelayed, MemoryInv, MemoryQueueTypeOK
<1>6. MemoryQueueTypeOK'
    BY <1>3, <1>5 DEF StillDelayed, MemoryInv, MemoryQueueTypeOK
<1>7. ActiveCounted'
    BY <1>5, FS_CardinalityType
       DEF StillDelayed, MemoryInv, ActiveCounted, MemoryQueueTypeOK
<1> QED
    BY <1>3, <1>4, <1>6, <1>7, QuietStep DEF StillDelayed, NoneTwice

LEMMA RunKeeps ==
    ASSUME MemoryInv, RunNext
    PROVE  MemoryInv'
<1>0. PICK j : j = Head(unsettled)
    OBVIOUS
<1>1. /\ unsettled \in Seq(MemoryJobs) /\ unsettled # <<>>
      /\ unsettled' = Tail(unsettled)
      /\ object \in [MemoryJobs -> MemoryJob]
      /\ object' = [object EXCEPT ![j] = Started(object[j])]
      /\ found' = found \cup {j}
      /\ activeJobs' = activeJobs \cup {j}
      /\ executions' = [executions EXCEPT ![j] = @ + 1]
      /\ turn' = turn + 1 /\ UNCHANGED <<delayed, cancelled>>
    BY <1>0 DEF RunNext, Restored, MemoryInv, MemoryQueueTypeOK
<1>2. /\ j \in MemoryJobs /\ Listed(j)
      /\ unsettled' \in Seq(MemoryJobs) /\ NoneTwice(unsettled') /\ ~Listed(j)'
      /\ \A i : i # j => (Listed(i)' <=> Listed(i))
    BY <1>0, <1>1, UnsettledIsSound, DropHead
<1>3. /\ object[j] \in MemoryJob /\ object[j].state \in MemoryState \ {"RUNNING"}
      /\ object[j].state \in MemoryWaiting => object[j].attempts <= MemoryRetries
      /\ j \notin activeJobs
    BY <1>1, <1>2 DEF MemoryInv, OnlyAdded, Added, ListedOrActive, AttemptsLeft
<1>4. /\ Started(object[j]) \in MemoryJob
      /\ object'[j] = Started(object[j])
      /\ object'[j].state \in MemoryFinal \cup {"RUNNING"}
      /\ object[j].state \in MemoryWaiting => object'[j].attempts = object[j].attempts + 1
      /\ object[j].state \notin MemoryWaiting => object'[j] = object[j]
    BY <1>1, <1>2, <1>3, StartedJob
<1>5. turn' \in 0 .. MemoryConcurrency /\ executions' \in [MemoryJobs -> Nat]
    BY <1>1, <1>2 DEF RunNext, MemoryInv, MemoryQueueTypeOK
<1>6. MemoryQueueTypeOK'
    BY <1>1, <1>2, <1>4, <1>5 DEF MemoryInv, MemoryQueueTypeOK
<1>7. executions'[j] + Owed(j)' <= object'[j].attempts + cancelled'[j]
  <2>1. executions[j] + Owed(j) <= object[j].attempts + cancelled[j]
      BY <1>2 DEF MemoryInv, ExecutionsPaid
  <2>2. /\ executions[j] \in Nat /\ cancelled[j] \in Nat /\ object[j].attempts \in Nat
        /\ executions'[j] = executions[j] + 1 /\ cancelled'[j] = cancelled[j]
      BY <1>1, <1>2, <1>3 DEF MemoryInv, MemoryQueueTypeOK, MemoryJob
  <2>3. Owed(j)' = 0
      BY <1>2 DEF Owed
  <2>4. CASE object[j].state \in MemoryWaiting
    <3>1. Owed(j) = 0
        BY <2>4 DEF Owed, MemoryWaiting, MemoryFinal
    <3> QED
        BY <1>4, <2>1, <2>2, <2>3, <2>4, <3>1
  <2>5. CASE object[j].state \notin MemoryWaiting
    <3>1. Owed(j) = 1
        BY <1>2, <1>3, <2>5 DEF Owed, MemoryState
    <3> QED
        BY <1>4, <2>1, <2>2, <2>3, <2>5, <3>1
  <2> QED
      BY <2>4, <2>5
<1>8. ActiveCounted'
  <2>1. /\ IsFiniteSet(activeJobs) /\ Cardinality(activeJobs) <= turn
        /\ Cardinality(activeJobs) \in Nat /\ turn \in Nat
      BY FS_CardinalityType DEF MemoryInv, ActiveCounted, MemoryQueueTypeOK
  <2>2. /\ IsFiniteSet(activeJobs \cup {j})
        /\ Cardinality(activeJobs \cup {j}) = Cardinality(activeJobs) + 1
      BY <1>3, <2>1, FS_AddElement
  <2> QED
      BY <1>1, <2>1, <2>2 DEF ActiveCounted
<1>9. \A i \in MemoryJobs \ {j} :
         object'[i] = object[i] /\ executions'[i] = executions[i]
    BY <1>1, <1>2 DEF MemoryInv, MemoryQueueTypeOK
<1>10. NoneTwice(unsettled)'
    BY <1>2 DEF NoneTwice
<1> QED
    BY <1>1, <1>2, <1>4, <1>6, <1>7, <1>8, <1>9, <1>10, OneJobStep
       DEF MemoryState, MemoryWaiting, MemoryFinal

LEMMA FinishKeeps ==
    ASSUME MemoryInv, NEW j \in MemoryJobs, FinishInMemory(j)
    PROVE  MemoryInv'
<1>1. PICK job \in MemoryOutcomes(object[j]) :
         /\ object' = [object EXCEPT ![j] = job]
         /\ IF job.state \in MemoryWaiting
            THEN unsettled' = <<j>> \o unsettled /\ delayed' = delayed \cup {j}
            ELSE UNCHANGED <<unsettled, delayed>>
    BY DEF FinishInMemory
<1>2. /\ object \in [MemoryJobs -> MemoryJob] /\ j \in activeJobs /\ ~Listed(j)
      /\ found' = found \cup {j} /\ activeJobs' = activeJobs \ {j}
      /\ UNCHANGED <<turn, executions, cancelled>>
    BY DEF FinishInMemory, Restored, MemoryInv, MemoryQueueTypeOK, ListedOrActive
<1>3. /\ job \in MemoryJob /\ job.attempts = object[j].attempts
      /\ job.state \in MemoryFinal \cup {"RETRYING"}
      /\ job.state \in MemoryWaiting => job.attempts <= MemoryRetries
    BY <1>2, OutcomeJob
<1>4. /\ object'[j] = job
      /\ \A i \in MemoryJobs \ {j} : object'[i] = object[i]
    BY <1>1, <1>2
<1>5. /\ unsettled' \in Seq(MemoryJobs) /\ NoneTwice(unsettled')
      /\ \A i : i # j => (Listed(i)' <=> Listed(i))
      /\ Listed(j)' <=> job.state \in MemoryWaiting
      /\ delayed' \subseteq MemoryJobs
  <2>1. CASE job.state \in MemoryWaiting
    <3>1. unsettled' = <<j>> \o unsettled /\ delayed' = delayed \cup {j}
        BY <1>1, <2>1
    <3>2. /\ unsettled' \in Seq(MemoryJobs) /\ NoneTwice(unsettled')
          /\ \A i : In(unsettled', i) <=> In(unsettled, i) \/ i = j
        BY <1>2, <3>1, UnsettledIsSound, PutFirst
    <3>3. \A i : Listed(i)' <=> Listed(i) \/ i = j
        BY <3>2, UnsettledIsSound
    <3>4. delayed' \subseteq MemoryJobs
        BY <3>1 DEF MemoryInv, MemoryQueueTypeOK
    <3> QED
        BY <2>1, <3>2, <3>3, <3>4
  <2>2. CASE job.state \notin MemoryWaiting
      BY <1>1, <1>2, <2>2, UnsettledIsSound DEF MemoryInv, MemoryQueueTypeOK
  <2> QED
      BY <2>1, <2>2
<1>6. MemoryQueueTypeOK'
    BY <1>1, <1>2, <1>3, <1>5 DEF MemoryInv, MemoryQueueTypeOK
<1>7. executions'[j] + Owed(j)' <= object'[j].attempts + cancelled'[j]
  <2>1. executions[j] + Owed(j) <= object[j].attempts + cancelled[j]
      BY DEF MemoryInv, ExecutionsPaid
  <2>2. Owed(j) = 0
      BY <1>2 DEF Owed
  <2>3. Owed(j)' = 0
      BY <1>4, <1>5 DEF Owed, MemoryWaiting, MemoryFinal
  <2> QED
      BY <1>2, <1>3, <1>4, <2>1, <2>2, <2>3
<1>8. ActiveCounted'
  <2>1. /\ IsFiniteSet(activeJobs) /\ Cardinality(activeJobs) <= turn
        /\ Cardinality(activeJobs) \in Nat /\ turn \in Nat
      BY FS_CardinalityType DEF MemoryInv, ActiveCounted, MemoryQueueTypeOK
  <2>2. /\ IsFiniteSet(activeJobs \ {j})
        /\ Cardinality(activeJobs \ {j}) = Cardinality(activeJobs) - 1
      BY <1>2, <2>1, FS_RemoveElement
  <2> QED
      BY <1>2, <2>1, <2>2 DEF ActiveCounted
<1>9. NoneTwice(unsettled)'
    BY <1>5 DEF NoneTwice
<1> QED
    BY <1>2, <1>3, <1>4, <1>5, <1>6, <1>7, <1>8, <1>9, OneJobStep
       DEF MemoryState, MemoryWaiting, MemoryFinal

-----------------------------------------------------------------------------
LEMMA MemoryStep ==
    ASSUME MemoryInv, [MemoryQueueNext]_memoryQueueVars
    PROVE  MemoryInv'
<1>1. CASE MemoryQueueNext
    BY <1>1, AddKeeps, CancelKeeps, RemoveKeeps, IdleKeeps, DelayedKeeps, RunKeeps, FinishKeeps
       DEF MemoryQueueNext, MemoryQueueLoop
<1>2. CASE UNCHANGED memoryQueueVars
    BY <1>2 DEF memoryQueueVars, MemoryInv, MemoryQueueTypeOK, AttemptsLeft, OnlyAdded,
                ListedOrActive, ExecutionsPaid, ActiveCounted, Owed, Listed, Added, IsSettled
<1> QED
    BY <1>1, <1>2

LEMMA MemoryInvariance == MemorySpec => []MemoryInv
BY InitMemory, MemoryStep, PTL DEF MemorySpec

\* InMemoryJobQueueStrategy: the fields of a Job and the collections keep their
\* types.
THEOREM MemoryTypeCorrect == MemorySpec => []MemoryQueueTypeOK
BY MemoryInvariance, PTL DEF MemoryInv

\* Whatever is cancelled or removed while the loop runs: a waiting job is listed
\* once, a running one is active and not listed, and one that is not settled is
\* found by its id.
THEOREM NothingForgotten == MemorySpec => []ListedOrActive
BY MemoryInvariance, PTL DEF MemoryInv

\* A job is executed once for each attempt it may have, and at most once more
\* for each time it was cancelled.
THEOREM ExecutionsAreBounded == MemorySpec => []ExecutionsBounded
<1>1. MemoryInv => ExecutionsBounded
  <2> SUFFICES ASSUME MemoryInv, NEW j \in MemoryJobs
               PROVE  executions[j] <= MemoryRetries + 1 + cancelled[j]
      BY DEF ExecutionsBounded
  <2>1. executions[j] + Owed(j) <= object[j].attempts + cancelled[j]
      BY DEF MemoryInv, ExecutionsPaid
  <2>2. Owed(j) \in {0, 1}
      BY DEF Owed
  <2>3. /\ executions[j] \in Nat /\ cancelled[j] \in Nat
        /\ object[j].attempts \in 0 .. MemoryRetries + 1
      BY DEF MemoryInv, MemoryQueueTypeOK, MemoryJob
  <2> QED
      BY <2>1, <2>2, <2>3
<1> QED
    BY <1>1, MemoryInvariance, PTL

\* runNextJobs: the number of active jobs is read once for several calls of
\* next(), and still never more jobs run than `concurrency' allows.
THEOREM MemoryConcurrencyKept ==
    MemorySpec => [](Cardinality(activeJobs) <= MemoryConcurrency)
<1>1. MemoryInv => Cardinality(activeJobs) <= MemoryConcurrency
    BY FS_CardinalityType DEF MemoryInv, ActiveCounted, MemoryQueueTypeOK
<1> QED
    BY <1>1, MemoryInvariance, PTL

-----------------------------------------------------------------------------
(***************************************************************************)
(* The strategy implements JobLifecycle for every set J of jobs that are   *)
(* not cancelled, whatever is cancelled beside them.  (A cancelled one it  *)
(* runs again: that is what ExecutionsBounded counts.)                     *)
(***************************************************************************)
MemoryStatus(j) ==
    CASE object[j].state = "absent" -> "none"
      [] IsSettled(j) -> IF j \in found THEN "settled" ELSE "removed"
      [] Added(j) /\ ~IsSettled(j) -> IF j \in activeJobs THEN "running" ELSE "waiting"

MemoryOwner(j) == IF j \in activeJobs THEN "queue" ELSE "nobody"

Life(J) == INSTANCE JobLifecycle WITH
    Jobs <- J, Workers <- {"queue"}, MayStrand <- FALSE,
    status <- [j \in J |-> MemoryStatus(j)],
    owner <- [j \in J |-> MemoryOwner(j)]

NoneCancelled(J) == \A j \in J : cancelled[j] = 0

\* A job that was not cancelled waits while it is listed, and runs while it is
\* active.
UncancelledRun ==
    \A j \in MemoryJobs : cancelled[j] = 0 =>
       /\ Listed(j) => object[j].state \in MemoryWaiting
       /\ j \in activeJobs => object[j].state = "RUNNING"

LEMMA UncancelledInit == MemoryQueueInit => UncancelledRun
<1>1. 1 .. 0 = {}
    OBVIOUS
<1> QED
    BY <1>1 DEF MemoryQueueInit, UncancelledRun, Listed

LEMMA UncancelledStep ==
    ASSUME MemoryInv, MemoryInv', UncancelledRun, [MemoryQueueNext]_memoryQueueVars
    PROVE  UncancelledRun'
<1>a. /\ object \in [MemoryJobs -> MemoryJob] /\ cancelled \in [MemoryJobs -> Nat]
      /\ unsettled \in Seq(MemoryJobs) /\ NoneTwice(unsettled)
      /\ \A j : Listed(j) <=> In(unsettled, j)
    BY UnsettledIsSound DEF MemoryInv, MemoryQueueTypeOK
<1> USE DEF UncancelledRun
<1>1. ASSUME NEW j \in MemoryJobs, AddToMemory(j) PROVE UncancelledRun'
  <2>1. /\ object' = [object EXCEPT ![j].state = "PENDING"] /\ ~Added(j)
        /\ unsettled' = Append(unsettled, j) /\ UNCHANGED <<activeJobs, cancelled>>
      BY <1>1, NotAddedJob DEF AddToMemory, Added
  <2>2. ~Listed(j) /\ j \notin activeJobs
      BY <2>1 DEF MemoryInv, OnlyAdded
  <2>3. \A i : Listed(i)' <=> Listed(i) \/ i = j
    <3>1. \A i : In(unsettled', i) <=> In(unsettled, i) \/ i = j
        BY <1>a, <2>1, <2>2, AppendOne
    <3> QED
        BY <1>a, <3>1 DEF In, Listed
  <2>4. object'[j].state \in MemoryWaiting /\ \A i \in MemoryJobs \ {j} : object'[i] = object[i]
      BY <1>a, <2>1 DEF MemoryJob, MemoryWaiting
  <2> QED
      BY <2>1, <2>2, <2>3, <2>4
<1>2. ASSUME NEW j \in MemoryJobs, CancelInMemory(j) PROVE UncancelledRun'
  <2>1. /\ \A i \in MemoryJobs \ {j} : object'[i] = object[i] /\ cancelled'[i] = cancelled[i]
        /\ cancelled'[j] # 0 /\ UNCHANGED <<unsettled, activeJobs>>
      BY <1>2, <1>a DEF CancelInMemory
  <2> QED
      BY <2>1 DEF Listed
<1>3. ASSUME RunNext PROVE UncancelledRun'
  <2>1. PICK j : j = Head(unsettled)
      OBVIOUS
  <2>2. /\ unsettled # <<>> /\ unsettled' = Tail(unsettled)
        /\ object' = [object EXCEPT ![j] = Started(object[j])]
        /\ activeJobs' = activeJobs \cup {j} /\ cancelled' = cancelled
      BY <1>3, <2>1 DEF RunNext
  <2>3. /\ j \in MemoryJobs /\ Listed(j) /\ ~Listed(j)'
        /\ \A i : i # j => (Listed(i)' <=> Listed(i))
      BY <1>a, <2>1, <2>2, DropHead DEF In, Listed
  <2>4. /\ object'[j] = Started(object[j]) /\ \A i \in MemoryJobs \ {j} : object'[i] = object[i]
      BY <1>a, <2>2, <2>3
  <2>5. object[j].state \in MemoryWaiting => object'[j].state = "RUNNING"
      BY <1>a, <2>3, <2>4 DEF Started, MemoryJob
  <2> QED
      BY <2>2, <2>3, <2>4, <2>5
<1>4. ASSUME NEW j \in MemoryJobs, FinishInMemory(j) PROVE UncancelledRun'
  <2>1. PICK job \in MemoryOutcomes(object[j]) :
           /\ object' = [object EXCEPT ![j] = job]
           /\ IF job.state \in MemoryWaiting
              THEN unsettled' = <<j>> \o unsettled
              ELSE unsettled' = unsettled
      BY <1>4 DEF FinishInMemory
  <2>2. /\ activeJobs' = activeJobs \ {j} /\ cancelled' = cancelled /\ ~Listed(j)
      BY <1>4 DEF FinishInMemory, MemoryInv, ListedOrActive
  <2>3. /\ Listed(j)' => job.state \in MemoryWaiting
        /\ \A i : i # j => (Listed(i)' <=> Listed(i))
    <3>1. CASE job.state \in MemoryWaiting
      <4>1. unsettled' = <<j>> \o unsettled
          BY <2>1, <3>1
      <4>2. ~In(unsettled, j)
          BY <1>a, <2>2
      <4>3. \A i : In(<<j>> \o unsettled, i) <=> In(unsettled, i) \/ i = j
          BY <1>a, <4>2, PutFirst
      <4> QED
          BY <1>a, <3>1, <4>1, <4>3 DEF In, Listed
    <3>2. CASE job.state \notin MemoryWaiting
        BY <2>1, <2>2, <3>2 DEF Listed
    <3> QED
        BY <3>1, <3>2
  <2>4. object'[j] = job /\ \A i \in MemoryJobs \ {j} : object'[i] = object[i]
      BY <1>a, <2>1
  <2> QED
      BY <2>2, <2>3, <2>4
<1>5. ASSUME StillDelayed PROVE UncancelledRun'
  <2>1. \A i \in MemoryJobs : Listed(i)' => Listed(i)
    <3>1. /\ unsettled # <<>> /\ unsettled' = Append(Tail(unsettled), Head(unsettled))
        BY <1>5 DEF StillDelayed, PutBack
    <3>2. PICK s, x : s = Tail(unsettled) /\ x = Head(unsettled)
        OBVIOUS
    <3>3. /\ s \in Seq(MemoryJobs) /\ NoneTwice(s) /\ x \in MemoryJobs /\ ~In(s, x)
          /\ \A i : In(unsettled, i) <=> In(s, i) \/ i = x
        BY <1>a, <3>1, <3>2, DropHead
    <3>4. \A i : In(unsettled', i) <=> In(s, i) \/ i = x
        BY ZenonT(60), <3>1, <3>2, <3>3, AppendOne
    <3> QED
        BY <1>a, <3>3, <3>4 DEF In, Listed
  <2>2. UNCHANGED <<object, activeJobs, cancelled>>
      BY <1>5 DEF StillDelayed
  <2> QED
      BY <2>1, <2>2
<1>6. ASSUME UNCHANGED <<object, unsettled, activeJobs, cancelled>> PROVE UncancelledRun'
    BY <1>6 DEF Listed
<1> QED
    BY <1>1, <1>2, <1>3, <1>4, <1>5, <1>6
    DEF MemoryQueueNext, MemoryQueueLoop, RemoveFromMemory, BackoffPasses, PollMemory,
        NothingListed, memoryQueueVars

-----------------------------------------------------------------------------
(***************************************************************************)
(* The two variables of JobLifecycle in terms of the queue's.              *)
(***************************************************************************)
MemoryStatusKnown(j) ==
    LET state == object[j].state IN
    /\ state = "absent" => MemoryStatus(j) = "none"
    /\ IsSettled(j) /\ j \in found => MemoryStatus(j) = "settled"
    /\ IsSettled(j) /\ j \notin found => MemoryStatus(j) = "removed"
    /\ Added(j) /\ ~IsSettled(j) /\ j \in activeJobs => MemoryStatus(j) = "running"
    /\ Added(j) /\ ~IsSettled(j) /\ j \notin activeJobs => MemoryStatus(j) = "waiting"
    /\ state = "absent" \/ Added(j)

LEMMA MemoryStatusFacts == MemoryQueueTypeOK => \A j \in MemoryJobs : MemoryStatusKnown(j)
<1> SUFFICES ASSUME MemoryQueueTypeOK, NEW j \in MemoryJobs PROVE MemoryStatusKnown(j)
    OBVIOUS
<1>1. object[j].state \in MemoryState \cup {"absent"}
    BY DEF MemoryQueueTypeOK, MemoryJob
<1>2. "absent" \notin MemoryState
    BY DEF MemoryState, MemoryWaiting, MemoryFinal
<1>3. Added(j) <=> object[j].state # "absent"
    BY <1>1, <1>2 DEF Added
<1>4. IsSettled(j) => Added(j)
    BY DEF IsSettled, Added, MemoryState
<1> QED
    BY <1>3, <1>4 DEF MemoryStatusKnown, MemoryStatus

LEMMA MemoryStatusFactsNext ==
    MemoryQueueTypeOK' => \A j \in MemoryJobs : MemoryStatusKnown(j)'
<1>1. (MemoryQueueTypeOK => \A j \in MemoryJobs : MemoryStatusKnown(j))'
    BY MemoryStatusFacts, PTL
<1> QED
    BY <1>1

MemoryStutters(j) == MemoryStatus(j)' = MemoryStatus(j) /\ MemoryOwner(j)' = MemoryOwner(j)

\* A job nothing happens to stays as it is.
LEMMA MemorySame ==
    ASSUME NEW j \in MemoryJobs, object'[j] = object[j],
           j \in found' <=> j \in found, j \in activeJobs' <=> j \in activeJobs
    PROVE  MemoryStutters(j)
BY DEF MemoryStutters, MemoryStatus, MemoryOwner, IsSettled, Added

LEMMA MemoryLifeStutters ==
    ASSUME NEW J \in SUBSET MemoryJobs, \A k \in J : MemoryStutters(k)
    PROVE  UNCHANGED Life(J)!vars
BY DEF MemoryStutters, Life!vars

LEMMA MemoryLifeSubmits ==
    ASSUME NEW J \in SUBSET MemoryJobs, NEW j \in J,
           \A k \in J : k # j => MemoryStutters(k),
           MemoryStatus(j) = "none", MemoryStatus(j)' = "waiting",
           MemoryOwner(j)' = MemoryOwner(j)
    PROVE  Life(J)!Next
<1>1. Life(J)!Submit(j)
    BY DEF MemoryStutters, Life!Submit
<1> QED
    BY <1>1 DEF Life!Next

LEMMA MemoryLifeTakes ==
    ASSUME NEW J \in SUBSET MemoryJobs, NEW j \in J,
           \A k \in J : k # j => MemoryStutters(k),
           MemoryStatus(j) = "waiting", MemoryOwner(j) = "nobody",
           MemoryStatus(j)' = "running", MemoryOwner(j)' = "queue"
    PROVE  Life(J)!Next
<1>1. Life(J)!Take("queue", j)
    BY DEF MemoryStutters, Life!Take, Life!NoWorker
<1> QED
    BY <1>1 DEF Life!Next

LEMMA MemoryLifeReleases ==
    ASSUME NEW J \in SUBSET MemoryJobs, NEW j \in J,
           \A k \in J : k # j => MemoryStutters(k),
           MemoryStatus(j) = "running", MemoryStatus(j)' \in {"waiting", "settled"},
           MemoryOwner(j) # "nobody", MemoryOwner(j)' = "nobody"
    PROVE  Life(J)!Next
<1>1. Life(J)!Release(j)
    BY DEF MemoryStutters, Life!Release, Life!NoWorker
<1> QED
    BY <1>1 DEF Life!Next

LEMMA MemoryLifeRemoves ==
    ASSUME NEW J \in SUBSET MemoryJobs, NEW S \in SUBSET J,
           \A k \in J \ S : MemoryStutters(k),
           \A k \in S : /\ MemoryStatus(k) = "settled" /\ MemoryStatus(k)' = "removed"
                        /\ MemoryOwner(k)' = MemoryOwner(k)
    PROVE  Life(J)!Next
<1>1. Life(J)!Remove(S)
    BY DEF MemoryStutters, Life!Remove
<1> QED
    BY <1>1 DEF Life!Next

-----------------------------------------------------------------------------
LEMMA MemoryLifeInit ==
    ASSUME NEW J \in SUBSET MemoryJobs, MemoryQueueInit
    PROVE  Life(J)!Init
<1>1. \A j \in J : object[j].state = "absent" /\ j \notin activeJobs
    BY DEF MemoryQueueInit, NotAdded
<1>2. \A j \in MemoryJobs : MemoryStatusKnown(j)
    BY InitMemory, MemoryStatusFacts DEF MemoryInv
<1>3. \A j \in J : MemoryStatus(j) = "none" /\ MemoryOwner(j) = "nobody"
    BY <1>1, <1>2 DEF MemoryStatusKnown, MemoryOwner
<1> QED
    BY <1>3 DEF Life!Init, Life!NoWorker

\* A job that is listed is waiting, and one that is active runs; neither is settled.
LastsUncancelled(j) ==
    cancelled[j] = 0 =>
       /\ Listed(j) => /\ MemoryStatus(j) = "waiting" /\ MemoryOwner(j) = "nobody"
       /\ j \in activeJobs => /\ MemoryStatus(j) = "running" /\ MemoryOwner(j) = "queue"
                              /\ object[j].state = "RUNNING"

LEMMA UncancelledFacts == MemoryInv /\ UncancelledRun => \A j \in MemoryJobs : LastsUncancelled(j)
<1> SUFFICES ASSUME MemoryInv, UncancelledRun, NEW j \in MemoryJobs, cancelled[j] = 0
             PROVE  LastsUncancelled(j)
    BY DEF LastsUncancelled
<1>1. MemoryStatusKnown(j)
    BY MemoryStatusFacts DEF MemoryInv
<1>2. ASSUME Listed(j) PROVE MemoryStatus(j) = "waiting" /\ MemoryOwner(j) = "nobody"
  <2>1. object[j].state \in MemoryWaiting /\ j \notin activeJobs
      BY <1>2 DEF UncancelledRun, MemoryInv, ListedOrActive
  <2>2. Added(j) /\ ~IsSettled(j)
      BY <2>1 DEF Added, IsSettled, MemoryState, MemoryWaiting, MemoryFinal
  <2> QED
      BY <1>1, <2>1, <2>2 DEF MemoryStatusKnown, MemoryOwner
<1>3. ASSUME j \in activeJobs
      PROVE  /\ MemoryStatus(j) = "running" /\ MemoryOwner(j) = "queue"
             /\ object[j].state = "RUNNING"
  <2>1. object[j].state = "RUNNING"
      BY <1>3 DEF UncancelledRun
  <2>2. Added(j) /\ ~IsSettled(j)
      BY <2>1 DEF Added, IsSettled, MemoryState, MemoryWaiting, MemoryFinal
  <2> QED
      BY <1>1, <1>3, <2>1, <2>2 DEF MemoryStatusKnown, MemoryOwner
<1> QED
    BY <1>2, <1>3 DEF LastsUncancelled

LEMMA UncancelledFactsNext ==
    MemoryInv' /\ UncancelledRun' => \A j \in MemoryJobs : LastsUncancelled(j)'
<1>1. (MemoryInv /\ UncancelledRun => \A j \in MemoryJobs : LastsUncancelled(j))'
    BY UncancelledFacts, PTL
<1> QED
    BY <1>1

LEMMA MemoryLifeStep ==
    ASSUME NEW J \in SUBSET MemoryJobs, MemoryInv, MemoryInv', UncancelledRun,
           UncancelledRun', NoneCancelled(J), NoneCancelled(J)',
           [MemoryQueueNext]_memoryQueueVars
    PROVE  [Life(J)!Next]_(Life(J)!vars)
<1>a. /\ object \in [MemoryJobs -> MemoryJob] /\ cancelled \in [MemoryJobs -> Nat]
      /\ unsettled \in Seq(MemoryJobs) /\ NoneTwice(unsettled)
      /\ \A j : Listed(j) <=> In(unsettled, j)
    BY UnsettledIsSound DEF MemoryInv, MemoryQueueTypeOK
<1>b. \A j \in J : j \in MemoryJobs /\ cancelled[j] = 0 /\ cancelled'[j] = 0
    BY DEF NoneCancelled
<1>c. \A j \in MemoryJobs : MemoryStatusKnown(j) /\ MemoryStatusKnown(j)'
    BY MemoryStatusFacts, MemoryStatusFactsNext DEF MemoryInv
<1>1. ASSUME NEW j \in MemoryJobs, AddToMemory(j) PROVE [Life(J)!Next]_(Life(J)!vars)
  <2>1. /\ object' = [object EXCEPT ![j].state = "PENDING"] /\ object[j] = NotAdded
        /\ found' = found \cup {j} /\ activeJobs' = activeJobs /\ ~Added(j)
      BY <1>1, NotAddedJob DEF AddToMemory, Added
  <2>2. \A k \in J : k # j => MemoryStutters(k)
      BY <1>a, <2>1, MemorySame
  <2>3. CASE j \in J
    <3>1. j \notin activeJobs /\ object[j].state = "absent"
        BY <2>1 DEF MemoryInv, OnlyAdded, NotAdded
    <3>2. object'[j].state = "PENDING"
        BY <1>a, <2>1 DEF MemoryJob
    <3>3. Added(j)' /\ ~IsSettled(j)'
        BY <3>2 DEF Added, IsSettled, MemoryState, MemoryWaiting, MemoryFinal
    <3>4. MemoryStatus(j) = "none" /\ MemoryStatus(j)' = "waiting"
        BY <1>c, <2>1, <3>1, <3>3 DEF MemoryStatusKnown
    <3>5. MemoryOwner(j)' = MemoryOwner(j)
        BY <2>1 DEF MemoryOwner
    <3> QED
        BY <2>2, <2>3, <3>4, <3>5, MemoryLifeSubmits
  <2> QED
      BY <2>2, <2>3, MemoryLifeStutters
<1>2. ASSUME NEW j \in MemoryJobs, CancelInMemory(j) PROVE [Life(J)!Next]_(Life(J)!vars)
  <2>1. /\ object' = [object EXCEPT ![j] = Cancelled(object[j])]
        /\ cancelled'[j] # 0 /\ found' = found /\ activeJobs' = activeJobs
      BY <1>2, <1>a DEF CancelInMemory
  <2>2. j \notin J
      BY <1>b, <2>1
  <2>3. \A k \in J : MemoryStutters(k)
      BY <1>a, <2>1, <2>2, MemorySame
  <2> QED
      BY <2>3, MemoryLifeStutters
<1>3. ASSUME RunNext PROVE [Life(J)!Next]_(Life(J)!vars)
  <2>1. PICK j : j = Head(unsettled)
      OBVIOUS
  <2>2. /\ unsettled # <<>> /\ object' = [object EXCEPT ![j] = Started(object[j])]
        /\ found' = found \cup {j} /\ activeJobs' = activeJobs \cup {j}
      BY <1>3, <2>1 DEF RunNext, Restored
  <2>3. j \in MemoryJobs /\ Listed(j)
      BY <1>a, <2>1, <2>2, DropHead
  <2>4. \A k \in J : k # j => MemoryStutters(k)
      BY <1>a, <2>2, MemorySame
  <2>5. CASE j \in J
    <3>1. /\ MemoryStatus(j) = "waiting" /\ MemoryOwner(j) = "nobody"
          /\ MemoryStatus(j)' = "running" /\ MemoryOwner(j)' = "queue"
        BY <1>b, <2>2, <2>3, <2>5, UncancelledFacts, UncancelledFactsNext DEF LastsUncancelled
    <3> QED
        BY <2>4, <2>5, <3>1, MemoryLifeTakes
  <2> QED
      BY <2>4, <2>5, MemoryLifeStutters
<1>4. ASSUME NEW j \in MemoryJobs, FinishInMemory(j) PROVE [Life(J)!Next]_(Life(J)!vars)
  <2>1. PICK job \in MemoryOutcomes(object[j]) : object' = [object EXCEPT ![j] = job]
      BY <1>4 DEF FinishInMemory
  <2>2. /\ j \in activeJobs /\ found' = found \cup {j} /\ activeJobs' = activeJobs \ {j}
      BY <1>4 DEF FinishInMemory, Restored
  <2>3. \A k \in J : k # j => MemoryStutters(k)
      BY <1>a, <2>1, <2>2, MemorySame
  <2>4. CASE j \in J
    <3>1. /\ MemoryStatus(j) = "running" /\ MemoryOwner(j) = "queue"
          /\ object[j].state = "RUNNING"
        BY <1>b, <2>2, <2>4, UncancelledFacts DEF LastsUncancelled
    <3>2. job \in {Completed(object[j]), Failed(object[j])}
        BY <2>1, <3>1 DEF MemoryOutcomes
    <3>3. job.state \in MemoryWaiting \/ (job.state \in MemoryFinal /\ job.settled)
        BY <1>a, <3>1, <3>2
        DEF Completed, Failed, MemoryJob, MemoryWaiting, MemoryFinal
    <3>4. object'[j] = job /\ Added(j)'
        BY <1>a, <2>1, <3>3 DEF Added, MemoryState
    <3>5. MemoryStatus(j)' \in {"waiting", "settled"}
        BY <1>c, <2>2, <3>4 DEF MemoryStatusKnown
    <3>6. MemoryOwner(j)' = "nobody"
        BY <2>2 DEF MemoryOwner
    <3> QED
        BY <2>3, <2>4, <3>1, <3>5, <3>6, MemoryLifeReleases
  <2> QED
      BY <2>3, <2>4, MemoryLifeStutters
<1>5. ASSUME NEW S \in SUBSET MemoryJobs, RemoveFromMemory(S)
      PROVE  [Life(J)!Next]_(Life(J)!vars)
  <2>1. /\ \A j \in S : j \in found /\ IsSettled(j)
        /\ found' = found \ S /\ UNCHANGED <<object, activeJobs>>
      BY <1>5 DEF RemoveFromMemory
  <2>2. \A k \in J \ (S \cap J) : MemoryStutters(k)
      BY <2>1, MemorySame
  <2>3. ASSUME NEW k \in S \cap J
        PROVE  /\ MemoryStatus(k) = "settled" /\ MemoryStatus(k)' = "removed"
               /\ MemoryOwner(k)' = MemoryOwner(k)
    <3>1. IsSettled(k) /\ IsSettled(k)' /\ k \in found /\ k \notin found'
        BY <2>1 DEF IsSettled
    <3> QED
        BY <1>c, <2>1, <3>1 DEF MemoryStatusKnown, MemoryOwner
  <2> QED
      BY <2>2, <2>3, MemoryLifeRemoves
<1>6. ASSUME UNCHANGED <<object, found, activeJobs>> PROVE [Life(J)!Next]_(Life(J)!vars)
  <2>1. \A k \in J : MemoryStutters(k)
      BY <1>6, MemorySame
  <2> QED
      BY <2>1, MemoryLifeStutters
<1> QED
    BY <1>1, <1>2, <1>3, <1>4, <1>5, <1>6
    DEF MemoryQueueNext, MemoryQueueLoop, BackoffPasses, PollMemory, NothingListed,
        StillDelayed, memoryQueueVars

\* The strategy implements JobLifecycle for every set of jobs that are not
\* cancelled: each has at most one owner, is taken only while it waits, keeps its
\* outcome and is never stranded, although the queue, the map and the API share
\* one object per job and others are cancelled, removed and run again beside it.
THEOREM MemoryImplementsLifecycle ==
    ASSUME NEW J \in SUBSET MemoryJobs
    PROVE  MemorySpec /\ []NoneCancelled(J) => Life(J)!Spec
<1>1. MemoryQueueInit => Life(J)!Init
    BY MemoryLifeInit
<1>2. /\ MemoryInv /\ MemoryInv' /\ UncancelledRun /\ UncancelledRun'
      /\ NoneCancelled(J) /\ NoneCancelled(J)' /\ [MemoryQueueNext]_memoryQueueVars
      => [Life(J)!Next]_(Life(J)!vars)
    BY MemoryLifeStep
<1>3. MemoryInv /\ MemoryInv' /\ UncancelledRun /\ [MemoryQueueNext]_memoryQueueVars
      => UncancelledRun'
    BY UncancelledStep
<1>4. MemorySpec => []MemoryInv
    BY MemoryInvariance
<1> QED
    BY <1>1, <1>2, <1>3, <1>4, UncancelledInit, PTL DEF MemorySpec, Life!Spec
=============================================================================
