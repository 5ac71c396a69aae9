----------------------------- MODULE JobBuffers -----------------------------
(***************************************************************************)
(* JobQueue.add, JobBufferService and the two places where it stores what  *)
(* its buffers collect: the memory of the process, or the table            *)
(* job_record_buffer.  A job asks for work on a set of entities (posts to  *)
(* index, collections to filter); reduce() merges the jobs of a buffer     *)
(* into fewer that ask for the same.                                       *)
(*                                                                         *)
(* Each statement of the database is a step, and so is each call of        *)
(* jobQueueStrategy.add().                                                 *)
(***************************************************************************)
EXTENDS Naturals, FiniteSets

CONSTANTS
    BufferIds,     \* the ids of the registered buffers
    BufferedJobs,  \* jobs passed to JobQueue.add
    WorkOf,        \* WorkOf[j]: the entities job j is about
    CollectedBy,   \* CollectedBy[j]: the buffers whose collect() returns true
    Flushers,      \* overlapping calls of flush()
    FlushIds,      \* the arguments of flush(): sets of buffer ids
    SqlBuffers     \* TRUE in it: SqlJobBufferStorageStrategy, FALSE: in memory

ASSUME BufferAssumption ==
    /\ DOMAIN WorkOf = BufferedJobs /\ \A j \in BufferedJobs : WorkOf[j] # {}
    /\ CollectedBy \in [BufferedJobs -> SUBSET BufferIds]
    /\ FlushIds \subseteq SUBSET BufferIds
    /\ SqlBuffers \subseteq BOOLEAN

VARIABLES
    sql,      \* the configured strategy
    asked,    \* jobs for which JobQueue.add was called
    ahead,    \* ahead[j]: the buffers add() has still to visit
    rows,     \* what is stored: pairs of a buffer and a job
    flush,    \* flush[f]: a call of flush()
    queued,   \* history: pairs of a job and an entity the queue was asked to
              \* work on for its sake, after the job was added
    exposed   \* history: rows stored between the SELECT and the DELETE of a
              \* flush, and what a crash has found in memory

bufferVars == <<sql, asked, ahead, rows, flush, queued, exposed>>

NoFlush == [at |-> "idle", ids |-> {}, read |-> {}, hand |-> {}]
Row == BufferIds \X BufferedJobs

\* A reduced job: the rows it stands for and the entities it asks for.
Batch == [from : SUBSET Row, work : SUBSET UNION {WorkOf[j] : j \in BufferedJobs}]
Flush == [at : {"idle", "read", "reduce", "add"}, ids : SUBSET BufferIds,
          read : SUBSET Row, hand : SUBSET Batch]

BuffersTypeOK ==
    /\ sql \in SqlBuffers
    /\ asked \subseteq BufferedJobs
    /\ ahead \in [BufferedJobs -> SUBSET BufferIds]
    /\ rows \subseteq Row /\ exposed \subseteq Row
    /\ flush \in [Flushers -> Flush]
    /\ \A q \in queued : q[1] \in BufferedJobs /\ q[2] \in WorkOf[q[1]]

BuffersInit ==
    /\ sql \in SqlBuffers
    /\ asked = {}
    /\ ahead = [j \in BufferedJobs |-> {}]
    /\ rows = {}
    /\ flush = [f \in Flushers |-> NoFlush]
    /\ queued = {}
    /\ exposed = {}

-----------------------------------------------------------------------------
(***************************************************************************)
(* JobQueue.add: every buffer that collects the job stores it; a job that  *)
(* none collects goes to the queue.                                        *)
(***************************************************************************)
AddJob(j) ==
    /\ j \notin asked
    /\ asked' = asked \cup {j}
    /\ ahead' = [ahead EXCEPT ![j] = CollectedBy[j]]
    /\ queued' = IF CollectedBy[j] = {} THEN queued \cup ({j} \X WorkOf[j]) ELSE queued
    /\ UNCHANGED <<sql, rows, flush, exposed>>

Collect(j, b) ==
    /\ b \in ahead[j]
    /\ ahead' = [ahead EXCEPT ![j] = @ \ {b}]
    /\ rows' = rows \cup {<<b, j>>}
    /\ exposed' = IF \E f \in Flushers : flush[f].at = "read"
                  THEN exposed \cup {<<b, j>>} ELSE exposed
    /\ UNCHANGED <<sql, asked, flush, queued>>

-----------------------------------------------------------------------------
(***************************************************************************)
(* flush().  An empty list of ids means every row to the SQL strategy and  *)
(* none to the other one.  The SQL strategy selects, and then deletes with *)
(* the same condition; in memory both are one step.                        *)
(***************************************************************************)
Meant(ids) == IF ids = {} /\ sql THEN BufferIds ELSE ids
Matching(ids) == {r \in rows : r[1] \in Meant(ids)}

Begun(f, at, ids) ==
    flush' = [flush EXCEPT ![f] = [at |-> at, ids |-> ids, read |-> Matching(ids), hand |-> {}]]

SelectRows(f) ==
    /\ sql
    /\ flush[f].at = "idle"
    /\ \E ids \in FlushIds : Begun(f, "read", ids)
    /\ UNCHANGED <<sql, asked, ahead, rows, queued, exposed>>

DeleteRows(f) ==
    /\ flush[f].at = "read"
    /\ rows' = rows \ Matching(flush[f].ids)
    /\ flush' = [flush EXCEPT ![f].at = "reduce"]
    /\ UNCHANGED <<sql, asked, ahead, queued, exposed>>

Cleared(ids) == rows \ Matching(ids)

TakeFromMemory(f) ==
    /\ ~sql
    /\ flush[f].at = "idle"
    /\ \E ids \in FlushIds : Begun(f, "reduce", ids) /\ rows' = Cleared(ids)
    /\ UNCHANGED <<sql, asked, ahead, queued, exposed>>

\* reduce() merges jobs of one buffer.  The search plugin makes one job of all
\* (CollectionJobBuffer) or keeps one for each entity (SearchIndexJobBuffer);
\* any grouping will do.  reduce() throws: the jobs are added as they are.
Alone(R) == {[from |-> {r}, work |-> WorkOf[r[2]]] : r \in R}

Merged_First(R) == {[from |-> R, work |-> WorkOf[(CHOOSE r \in R : TRUE)[2]]]}
Merged(R) == {[from |-> R, work |-> UNION {WorkOf[r[2]] : r \in R}]}

OneForEach(R) ==
    {[from |-> {r \in R : e \in WorkOf[r[2]]}, work |-> {e}] :
        e \in UNION {WorkOf[r[2]] : r \in R}}

Reductions(R) == {Alone(R), Merged(R), OneForEach(R)}

Reduce(f, b) ==
    /\ flush[f].at = "reduce"
    /\ LET R == {r \in flush[f].read : r[1] = b} IN
       /\ R # {}
       /\ \E batches \in Reductions(R) :
             flush' = [flush EXCEPT ![f].at = "add", ![f].hand = batches,
                                    ![f].read = @ \ R]
    /\ UNCHANGED <<sql, asked, ahead, rows, queued, exposed>>

\* jobQueueStrategy.add() of one reduced job; then the next buffer.
HandOver(f) ==
    /\ flush[f].at = "add"
    /\ \E batch \in flush[f].hand :
          /\ queued' = queued \cup {q \in {r[2] : r \in batch.from} \X batch.work :
                                       q[2] \in WorkOf[q[1]]}
          /\ LET rest == flush[f].hand \ {batch} IN
             flush' = [flush EXCEPT ![f].hand = rest,
                                    ![f].at = IF rest = {} THEN "reduce" ELSE "add"]
    /\ UNCHANGED <<sql, asked, ahead, rows, exposed>>

FlushDone(f) ==
    /\ flush[f].at = "reduce" /\ flush[f].read = {}
    /\ flush' = [flush EXCEPT ![f] = NoFlush]
    /\ UNCHANGED <<sql, asked, ahead, rows, queued, exposed>>

FlushStep(f) ==
    \/ SelectRows(f) \/ DeleteRows(f) \/ TakeFromMemory(f)
    \/ \E b \in BufferIds : Reduce(f, b)
    \/ HandOver(f) \/ FlushDone(f)

\* Calls in progress are gone, and the rows too when they are in memory.
ProcessDies ==
    /\ exposed' = exposed \cup (IF sql THEN {} ELSE rows)
                  \cup (UNION {flush[f].read : f \in Flushers})
                  \cup (UNION {batch.from : batch \in UNION {flush[f].hand : f \in Flushers}})
                  \cup {r \in Row : r[1] \in ahead[r[2]]}
    /\ ahead' = [j \in BufferedJobs |-> {}]
    /\ flush' = [f \in Flushers |-> NoFlush]
    /\ rows' = IF sql THEN rows ELSE {}
    /\ UNCHANGED <<sql, asked, queued>>

BuffersNext ==
    \/ \E j \in BufferedJobs : AddJob(j)
    \/ \E j \in BufferedJobs, b \in BufferIds : Collect(j, b)
    \/ \E f \in Flushers : FlushStep(f)
    \/ ProcessDies

-----------------------------------------------------------------------------
\* The work on entity e, for the sake of job j, is still to be handed over.
InHand(f, j, e) ==
    \/ \E r \in flush[f].read : r[2] = j
    \/ \E batch \in flush[f].hand :
          e \in batch.work /\ \E r \in batch.from : r[2] = j

\* Whatever job j asked for is stored, in the hands of a flush, or has been
\* sent to the queue.
Kept(j) ==
    ahead[j] = {} =>
       \A e \in WorkOf[j] :
          \/ \E r \in rows : r[2] = j
          \/ \E f \in Flushers : InHand(f, j, e)
          \/ <<j, e>> \in queued

\* Only a process that dies loses the work of a buffered job, and only what it
\* holds in memory, except that SqlJobBufferStorageStrategy loses what is
\* stored between the two statements of a flush: overlapping flushes and
\* reductions lose nothing.
LostOnlyInGap ==
    \A j \in asked : (\A r \in exposed : r[2] # j) => Kept(j)

\* job-queue.service.ts:135-136 (flush): "the buffer is cleared and the jobs
\* get sent to the job queue for processing".  While no process dies, no job
\* that was added is lost.
BufferedWorkIsKept == [][~ProcessDies => \A j \in asked : Kept(j) => Kept(j)']_bufferVars
=============================================================================
