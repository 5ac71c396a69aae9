---------------------------- MODULE StrategyProofs ----------------------------
(***************************************************************************)
(* What stands on a strategy of the configuration, for every instance: the *)
(* job buffers, the sessions behind their cache and the asset server.      *)
(*                                                                         *)
(* Job buffers, for any buffers, jobs, entities and overlapping flushes:   *)
(* what a buffered job asked for is lost only when a process dies or in    *)
(* the gap between the two statements of a flush.                          *)
(*                                                                         *)
(* The last part is about all of MCStrategies: its behaviours are those of *)
(* each component, so what is proved of a component holds of them.         *)
(***************************************************************************)
EXTENDS MCStrategies, InMemoryProofs

USE BufferAssumption

BuffersSpec == BuffersInit /\ [][BuffersNext]_bufferVars

\* A flush that has not begun, and one between two buffers, holds no jobs.
HandsMatch ==
    \A f \in Flushers : /\ flush[f].at = "idle" => flush[f] = NoFlush
                        /\ flush[f].at # "add" => flush[f].hand = {}

\* What a flush is about to delete, it has read: or it was stored in the gap.
GapIsExposed ==
    \A f \in Flushers : flush[f].at = "read" => Matching(flush[f].ids) \subseteq flush[f].read \cup exposed

\* Where the work on e for the sake of j is.
Somewhere(j, e) ==
    \/ \E r \in rows : r[2] = j
    \/ \E f \in Flushers : InHand(f, j, e)
    \/ <<j, e>> \in queued

Hidden(j) == \A r \in exposed : r[2] # j

\* add() has yet to store the job for the first time, or its work is somewhere.
Pending(j) ==
    \/ ahead[j] = CollectedBy[j] /\ CollectedBy[j] # {}
    \/ \A e \in WorkOf[j] : Somewhere(j, e)

AheadIsCollected == \A j \in BufferedJobs : ahead[j] \subseteq CollectedBy[j]

BufferInv ==
    /\ BuffersTypeOK /\ HandsMatch /\ GapIsExposed /\ AheadIsCollected
    /\ \A j \in asked : Hidden(j) => Pending(j)

-----------------------------------------------------------------------------
LEMMA NoFlushType == NoFlush \in Flush
BY DEF NoFlush, Flush

LEMMA InitBuffers == BuffersInit => BufferInv
<1> SUFFICES ASSUME BuffersInit PROVE BufferInv
    OBVIOUS
<1>1. BuffersTypeOK
    BY NoFlushType DEF BuffersInit, BuffersTypeOK
<1>2. HandsMatch /\ GapIsExposed
    BY DEF BuffersInit, HandsMatch, GapIsExposed, NoFlush
<1>3. AheadIsCollected /\ asked = {}
    BY DEF BuffersInit, AheadIsCollected
<1> QED
    BY <1>1, <1>2, <1>3 DEF BufferInv

\* What one flush does leaves the other flushes as they are: the work of a job
\* is where it was, unless the flush moves it.
LEMMA FlushMoves ==
    ASSUME BufferInv, NEW f \in Flushers,
           UNCHANGED <<asked, ahead, exposed>>,
           \A g \in Flushers \ {f} : flush'[g] = flush[g],
           queued \subseteq queued',
           \A j \in asked : \A e \in WorkOf[j] :
              /\ Hidden(j)
              /\ (\E r \in rows : r[2] = j) \/ InHand(f, j, e)
              => Somewhere(j, e)'
    PROVE  \A j \in asked' : Hidden(j)' => Pending(j)'
<1> SUFFICES ASSUME NEW j \in asked, Hidden(j)
             PROVE  Pending(j)'
    BY DEF Hidden
<1>1. CASE ahead[j] = CollectedBy[j] /\ CollectedBy[j] # {}
    BY <1>1 DEF Pending
<1>2. CASE \A e \in WorkOf[j] : Somewhere(j, e)
  <2> SUFFICES ASSUME NEW e \in WorkOf[j] PROVE Somewhere(j, e)'
      BY DEF Pending
  <2>1. CASE (\E r \in rows : r[2] = j) \/ InHand(f, j, e)
      BY <2>1
  <2>2. CASE \E g \in Flushers \ {f} : InHand(g, j, e)
      BY <2>2 DEF Somewhere, InHand
  <2>3. CASE <<j, e>> \in queued
      BY <2>3 DEF Somewhere
  <2> QED
      BY <1>2, <2>1, <2>2, <2>3 DEF Somewhere
<1> QED
    BY <1>1, <1>2 DEF BufferInv, Pending

-----------------------------------------------------------------------------
LEMMA AddJobKeeps ==
    ASSUME BufferInv, NEW j \in BufferedJobs, AddJob(j)
    PROVE  BufferInv'
<1>1. /\ ahead \in [BufferedJobs -> SUBSET BufferIds] /\ CollectedBy[j] \subseteq BufferIds
      /\ ahead' = [ahead EXCEPT ![j] = CollectedBy[j]]
      /\ asked' = asked \cup {j} /\ UNCHANGED <<sql, rows, flush, exposed>>
      /\ queued' = IF CollectedBy[j] = {} THEN queued \cup ({j} \X WorkOf[j]) ELSE queued
    BY DEF AddJob, BufferInv, BuffersTypeOK
<1>2. BuffersTypeOK'
  <2>1. \A q \in queued' : q[1] \in BufferedJobs /\ q[2] \in WorkOf[q[1]]
      BY <1>1 DEF BufferInv, BuffersTypeOK
  <2> QED
      BY <1>1, <2>1 DEF BufferInv, BuffersTypeOK
<1>3. HandsMatch' /\ GapIsExposed' /\ AheadIsCollected'
    BY <1>1 DEF BufferInv, HandsMatch, GapIsExposed, AheadIsCollected, Matching, Meant
<1>4. ASSUME NEW i \in asked', Hidden(i)' PROVE Pending(i)'
  <2>1. CASE i = j
      BY <1>1, <2>1 DEF Pending, Somewhere
  <2>2. CASE i # j
    <3>1. i \in asked /\ Hidden(i) /\ ahead'[i] = ahead[i] /\ queued \subseteq queued'
        BY <1>1, <1>4, <2>2 DEF Hidden, BufferInv, BuffersTypeOK
    <3> QED
        BY <1>1, <3>1 DEF BufferInv, Pending, Somewhere, InHand
  <2> QED
      BY <2>1, <2>2
<1> QED
    BY <1>2, <1>3, <1>4 DEF BufferInv

LEMMA CollectKeeps ==
    ASSUME BufferInv, NEW j \in BufferedJobs, NEW b \in BufferIds, Collect(j, b)
    PROVE  BufferInv'
<1>1. /\ ahead \in [BufferedJobs -> SUBSET BufferIds]
      /\ ahead' = [ahead EXCEPT ![j] = @ \ {b}]
      /\ rows' = rows \cup {<<b, j>>} /\ <<b, j>> \in Row
      /\ exposed' \in {exposed, exposed \cup {<<b, j>>}}
      /\ (\E f \in Flushers : flush[f].at = "read") => <<b, j>> \in exposed'
      /\ UNCHANGED <<sql, asked, flush, queued>>
    BY DEF Collect, BufferInv, BuffersTypeOK, Row
<1>2. BuffersTypeOK'
    BY <1>1 DEF BufferInv, BuffersTypeOK
<1>3. HandsMatch' /\ AheadIsCollected'
    BY <1>1 DEF BufferInv, HandsMatch, AheadIsCollected
<1>4. GapIsExposed'
    BY <1>1 DEF BufferInv, GapIsExposed, Matching, Meant
<1>5. ASSUME NEW i \in asked', Hidden(i)' PROVE Pending(i)'
  <2>1. CASE i = j
      BY <1>1, <2>1 DEF Pending, Somewhere
  <2>2. CASE i # j
    <3>1. i \in asked /\ Hidden(i) /\ ahead'[i] = ahead[i] /\ rows \subseteq rows'
        BY <1>1, <1>5, <2>2 DEF Hidden, BufferInv, BuffersTypeOK
    <3> QED
        BY <1>1, <3>1 DEF BufferInv, Pending, Somewhere, InHand
  <2> QED
      BY <2>1, <2>2
<1> QED
    BY <1>2, <1>3, <1>4, <1>5 DEF BufferInv

LEMMA BegunType ==
    ASSUME BufferInv, NEW f \in Flushers, NEW at \in {"read", "reduce"}, NEW ids \in FlushIds,
           Begun(f, at, ids)
    PROVE  /\ flush' \in [Flushers -> Flush]
           /\ flush'[f] = [at |-> at, ids |-> ids, read |-> Matching(ids), hand |-> {}]
           /\ \A g \in Flushers \ {f} : flush'[g] = flush[g]
<1>1. Matching(ids) \subseteq Row /\ ids \subseteq BufferIds
    BY DEF Matching, BufferInv, BuffersTypeOK
<1>2. [at |-> at, ids |-> ids, read |-> Matching(ids), hand |-> {}] \in Flush
    BY <1>1 DEF Flush
<1> QED
    BY <1>2 DEF Begun, BufferInv, BuffersTypeOK

LEMMA SelectKeeps ==
    ASSUME BufferInv, NEW f \in Flushers, SelectRows(f)
    PROVE  BufferInv'
<1>1. PICK ids \in FlushIds : Begun(f, "read", ids)
    BY DEF SelectRows
<1>2. /\ flush' \in [Flushers -> Flush]
      /\ flush'[f] = [at |-> "read", ids |-> ids, read |-> Matching(ids), hand |-> {}]
      /\ \A g \in Flushers \ {f} : flush'[g] = flush[g]
    BY <1>1, BegunType
<1>3. UNCHANGED <<sql, asked, ahead, rows, queued, exposed>> /\ flush[f] = NoFlush
    BY DEF SelectRows, BufferInv, HandsMatch
<1>4. BuffersTypeOK' /\ AheadIsCollected'
    BY <1>2, <1>3 DEF BufferInv, BuffersTypeOK, AheadIsCollected
<1>5. HandsMatch' /\ GapIsExposed'
    BY <1>2, <1>3 DEF BufferInv, HandsMatch, GapIsExposed, Matching, Meant
<1>6. \A j \in asked : \A e \in WorkOf[j] : ~InHand(f, j, e)
    BY <1>3 DEF InHand, NoFlush
<1> QED
    BY <1>2, <1>3, <1>4, <1>5, <1>6, FlushMoves DEF BufferInv, Somewhere

LEMMA DeleteKeeps ==
    ASSUME BufferInv, NEW f \in Flushers, DeleteRows(f)
    PROVE  BufferInv'
<1>1. /\ flush \in [Flushers -> Flush] /\ flush[f].at = "read"
      /\ rows' = rows \ Matching(flush[f].ids)
      /\ flush' = [flush EXCEPT ![f].at = "reduce"]
      /\ UNCHANGED <<sql, asked, ahead, queued, exposed>>
    BY DEF DeleteRows, BufferInv, BuffersTypeOK
<1>2. /\ flush' \in [Flushers -> Flush]
      /\ flush'[f].at = "reduce" /\ flush'[f].read = flush[f].read
      /\ flush'[f].hand = flush[f].hand
      /\ \A g \in Flushers \ {f} : flush'[g] = flush[g]
    BY <1>1 DEF Flush
<1>3. BuffersTypeOK' /\ AheadIsCollected'
    BY <1>1, <1>2 DEF BufferInv, BuffersTypeOK, AheadIsCollected
<1>4. HandsMatch'
    BY <1>1, <1>2 DEF BufferInv, HandsMatch
<1>5. GapIsExposed'
    BY <1>1, <1>2 DEF BufferInv, GapIsExposed, Matching, Meant
<1>6. ASSUME NEW j \in asked, NEW e \in WorkOf[j], Hidden(j),
             (\E r \in rows : r[2] = j) \/ InHand(f, j, e)
      PROVE  Somewhere(j, e)'
  <2>1. CASE InHand(f, j, e)
      BY <1>2, <2>1 DEF InHand, Somewhere
  <2>2. ASSUME NEW r \in rows, r[2] = j PROVE Somewhere(j, e)'
    <3>1. CASE r \in rows'
        BY <2>2, <3>1 DEF Somewhere
    <3>2. CASE r \notin rows'
      <4>1. r \in flush[f].read
          BY <1>1, <1>6, <2>2, <3>2 DEF BufferInv, GapIsExposed, Hidden
      <4> QED
          BY <1>2, <2>2, <4>1 DEF InHand, Somewhere
    <3> QED
        BY <3>1, <3>2
  <2> QED
      BY <1>6, <2>1, <2>2
<1> QED
    BY <1>1, <1>2, <1>3, <1>4, <1>5, <1>6, FlushMoves DEF BufferInv

LEMMA TakeKeeps ==
    ASSUME BufferInv, NEW f \in Flushers, TakeFromMemory(f)
    PROVE  BufferInv'
<1>1. PICK ids \in FlushIds : Begun(f, "reduce", ids) /\ rows' = rows \ Matching(ids)
    BY DEF TakeFromMemory, Cleared
<1>2. /\ flush' \in [Flushers -> Flush]
      /\ flush'[f] = [at |-> "reduce", ids |-> ids, read |-> Matching(ids), hand |-> {}]
      /\ \A g \in Flushers \ {f} : flush'[g] = flush[g]
    BY <1>1, BegunType
<1>3. UNCHANGED <<sql, asked, ahead, queued, exposed>> /\ flush[f] = NoFlush
    BY DEF TakeFromMemory, BufferInv, HandsMatch
<1>4. BuffersTypeOK' /\ AheadIsCollected'
    BY <1>1, <1>2, <1>3 DEF BufferInv, BuffersTypeOK, AheadIsCollected
<1>5. HandsMatch' /\ GapIsExposed'
    BY <1>1, <1>2, <1>3 DEF BufferInv, HandsMatch, GapIsExposed, Matching, Meant
<1>6. ASSUME NEW j \in asked, NEW e \in WorkOf[j],
             (\E r \in rows : r[2] = j) \/ InHand(f, j, e)
      PROVE  Somewhere(j, e)'
  <2>1. PICK r \in rows : r[2] = j
      BY <1>3, <1>6 DEF InHand, NoFlush
  <2>2. r \in rows' \/ r \in flush'[f].read
      BY <1>1, <1>2, <2>1
  <2> QED
      BY <2>1, <2>2 DEF InHand, Somewhere
<1> QED
    BY <1>2, <1>3, <1>4, <1>5, <1>6, FlushMoves DEF BufferInv

-----------------------------------------------------------------------------
\* However reduce() groups jobs: every entity a job in R asks for is asked for by
\* a batch that stands for the job.
LEMMA NothingReducedAway ==
    ASSUME BuffersTypeOK, NEW R \in SUBSET Row, NEW batches \in Reductions(R)
    PROVE  /\ batches \subseteq Batch
           /\ \A r \in R : \A e \in WorkOf[r[2]] :
                 \E batch \in batches : e \in batch.work /\ r \in batch.from
<1>1. \A r \in R : r[2] \in BufferedJobs
    BY DEF Row
<1>2. CASE batches = Alone(R)
  <2>1. batches \subseteq Batch
      BY <1>1, <1>2 DEF Alone, Batch
  <2>2. ASSUME NEW r \in R, NEW e \in WorkOf[r[2]]
        PROVE  \E batch \in batches : e \in batch.work /\ r \in batch.from
    <3>1. [from |-> {r}, work |-> WorkOf[r[2]]] \in batches
        BY <1>2 DEF Alone
    <3> QED
        BY <3>1
  <2> QED
      BY <2>1, <2>2
<1>3. CASE batches = Merged(R)
  <2>1. batches \subseteq Batch
      BY <1>1, <1>3 DEF Merged, Batch
  <2>2. ASSUME NEW r \in R, NEW e \in WorkOf[r[2]]
        PROVE  \E batch \in batches : e \in batch.work /\ r \in batch.from
      BY <1>3 DEF Merged
  <2> QED
      BY <2>1, <2>2
<1>4. CASE batches = OneForEach(R)
  <2>1. batches \subseteq Batch
      BY <1>1, <1>4 DEF OneForEach, Batch
  <2>2. ASSUME NEW r \in R, NEW e \in WorkOf[r[2]]
        PROVE  \E batch \in batches : e \in batch.work /\ r \in batch.from
    <3>1. e \in UNION {WorkOf[s[2]] : s \in R}
        OBVIOUS
    <3>2. [from |-> {s \in R : e \in WorkOf[s[2]]}, work |-> {e}] \in batches
        BY <1>4, <3>1 DEF OneForEach
    <3> QED
        BY <3>2
  <2> QED
      BY <2>1, <2>2
<1> QED
    BY <1>2, <1>3, <1>4 DEF Reductions

LEMMA ReduceKeeps ==
    ASSUME BufferInv, NEW f \in Flushers, NEW b \in BufferIds, Reduce(f, b)
    PROVE  BufferInv'
<1> DEFINE R == {r \in flush[f].read : r[1] = b}
<1>1. PICK batches \in Reductions(R) :
         flush' = [flush EXCEPT ![f].at = "add", ![f].hand = batches, ![f].read = @ \ R]
    BY DEF Reduce
<1>2. /\ flush \in [Flushers -> Flush] /\ flush[f].at = "reduce" /\ flush[f].hand = {}
      /\ UNCHANGED <<sql, asked, ahead, rows, queued, exposed>>
    BY DEF Reduce, BufferInv, BuffersTypeOK, HandsMatch
<1>3. R \in SUBSET Row /\ R \subseteq flush[f].read
    BY <1>2 DEF Flush
<1>4. /\ batches \subseteq Batch
      /\ \A r \in R : \A e \in WorkOf[r[2]] :
            \E batch \in batches : e \in batch.work /\ r \in batch.from
    BY <1>3, NothingReducedAway DEF BufferInv
<1> HIDE DEF R
<1>5. /\ flush' \in [Flushers -> Flush]
      /\ flush'[f].at = "add" /\ flush'[f].read = flush[f].read \ R
      /\ flush'[f].hand = batches
      /\ \A g \in Flushers \ {f} : flush'[g] = flush[g]
  <2> DEFINE new == [flush[f] EXCEPT !.at = "add", !.hand = batches, !.read = @ \ R]
  <2>1. flush[f] \in Flush /\ flush' = [flush EXCEPT ![f] = new]
      BY <1>1, <1>2
  <2>2. /\ new \in Flush /\ new.at = "add" /\ new.read = flush[f].read \ R
        /\ new.hand = batches
      BY <1>4, <2>1 DEF Flush
  <2> HIDE DEF new
  <2> QED
      BY <1>2, <2>1, <2>2
<1>6. BuffersTypeOK' /\ AheadIsCollected'
    BY <1>2, <1>5 DEF BufferInv, BuffersTypeOK, AheadIsCollected
<1>7. HandsMatch' /\ GapIsExposed'
    BY <1>2, <1>5 DEF BufferInv, HandsMatch, GapIsExposed, Matching, Meant
<1>8. ASSUME NEW j \in asked, NEW e \in WorkOf[j],
             (\E r \in rows : r[2] = j) \/ InHand(f, j, e)
      PROVE  Somewhere(j, e)'
  <2>1. CASE \E r \in rows : r[2] = j
      BY <1>2, <2>1 DEF Somewhere
  <2>2. ASSUME NEW r \in flush[f].read, r[2] = j PROVE Somewhere(j, e)'
    <3>1. CASE r \in R
        BY <1>4, <1>5, <2>2, <3>1 DEF Somewhere, InHand
    <3>2. CASE r \notin R
        BY <1>5, <2>2, <3>2 DEF Somewhere, InHand
    <3> QED
        BY <3>1, <3>2
  <2> QED
      BY <1>2, <1>8, <2>1, <2>2 DEF InHand
<1> QED
    BY <1>2, <1>5, <1>6, <1>7, <1>8, FlushMoves DEF BufferInv

LEMMA HandOverKeeps ==
    ASSUME BufferInv, NEW f \in Flushers, HandOver(f)
    PROVE  BufferInv'
<1>1. PICK batch \in flush[f].hand :
         /\ queued' = queued \cup {q \in {r[2] : r \in batch.from} \X batch.work :
                                     q[2] \in WorkOf[q[1]]}
         /\ flush' = [flush EXCEPT ![f].hand = flush[f].hand \ {batch},
                                   ![f].at = IF flush[f].hand \ {batch} = {}
                                             THEN "reduce" ELSE "add"]
    BY DEF HandOver
<1>2. /\ flush \in [Flushers -> Flush] /\ flush[f].at = "add"
      /\ UNCHANGED <<sql, asked, ahead, rows, exposed>>
    BY DEF HandOver, BufferInv, BuffersTypeOK
<1>3. /\ flush' \in [Flushers -> Flush]
      /\ flush'[f].at = IF flush[f].hand \ {batch} = {} THEN "reduce" ELSE "add"
      /\ flush'[f].read = flush[f].read /\ flush'[f].hand = flush[f].hand \ {batch}
      /\ \A g \in Flushers \ {f} : flush'[g] = flush[g]
  <2> DEFINE rest == flush[f].hand \ {batch}
             new == [flush[f] EXCEPT !.hand = rest,
                                     !.at = IF rest = {} THEN "reduce" ELSE "add"]
  <2>1. flush[f] \in Flush /\ flush' = [flush EXCEPT ![f] = new]
      BY <1>1, <1>2
  <2>2. /\ new \in Flush /\ new.at = IF rest = {} THEN "reduce" ELSE "add"
        /\ new.read = flush[f].read /\ new.hand = rest
      BY <2>1 DEF Flush
  <2> HIDE DEF new
  <2> QED
      BY <1>2, <2>1, <2>2
<1>4. BuffersTypeOK'
  <2>1. batch.from \subseteq Row
      BY <1>1, <1>2 DEF Flush, Batch
  <2>2. \A r \in batch.from : r[2] \in BufferedJobs
      BY <2>1 DEF Row
  <2>3. \A q \in queued' : q[1] \in BufferedJobs /\ q[2] \in WorkOf[q[1]]
      BY <1>1, <2>2 DEF BufferInv, BuffersTypeOK
  <2> QED
      BY <1>2, <1>3, <2>3 DEF BufferInv, BuffersTypeOK
<1>5. HandsMatch' /\ GapIsExposed' /\ AheadIsCollected'
    BY <1>2, <1>3
       DEF BufferInv, HandsMatch, GapIsExposed, Matching, Meant, AheadIsCollected
<1>6. ASSUME NEW j \in asked, NEW e \in WorkOf[j],
             (\E r \in rows : r[2] = j) \/ InHand(f, j, e)
      PROVE  Somewhere(j, e)'
  <2>1. CASE \E r \in rows : r[2] = j
      BY <1>2, <2>1 DEF Somewhere
  <2>2. CASE \E r \in flush[f].read : r[2] = j
      BY <1>3, <2>2 DEF Somewhere, InHand
  <2>3. ASSUME NEW other \in flush[f].hand, e \in other.work, \E r \in other.from : r[2] = j
        PROVE  Somewhere(j, e)'
    <3>1. CASE other = batch
        BY <1>1, <2>3, <3>1 DEF Somewhere
    <3>2. CASE other # batch
        BY <1>3, <2>3, <3>2 DEF Somewhere, InHand
    <3> QED
        BY <3>1, <3>2
  <2> QED
      BY <1>6, <2>1, <2>2, <2>3 DEF InHand
<1>7. queued \subseteq queued'
    BY <1>1
<1> QED
    BY <1>2, <1>3, <1>4, <1>5, <1>6, <1>7, FlushMoves DEF BufferInv

LEMMA DoneKeeps ==
    ASSUME BufferInv, NEW f \in Flushers, FlushDone(f)
    PROVE  BufferInv'
<1>1. /\ flush \in [Flushers -> Flush] /\ flush[f].at = "reduce"
      /\ flush[f].read = {} /\ flush[f].hand = {}
      /\ flush' = [flush EXCEPT ![f] = NoFlush]
      /\ UNCHANGED <<sql, asked, ahead, rows, queued, exposed>>
    BY DEF FlushDone, BufferInv, BuffersTypeOK, HandsMatch
<1>2. /\ flush' \in [Flushers -> Flush] /\ flush'[f] = NoFlush
      /\ \A g \in Flushers \ {f} : flush'[g] = flush[g]
    BY <1>1, NoFlushType
<1>3. BuffersTypeOK' /\ AheadIsCollected'
    BY <1>1, <1>2 DEF BufferInv, BuffersTypeOK, AheadIsCollected
<1>4. HandsMatch' /\ GapIsExposed'
    BY <1>1, <1>2 DEF BufferInv, HandsMatch, GapIsExposed, Matching, Meant, NoFlush
<1>5. \A j \in asked : \A e \in WorkOf[j] : ~InHand(f, j, e)
    BY <1>1 DEF InHand
<1> QED
    BY <1>1, <1>2, <1>3, <1>4, <1>5, FlushMoves DEF BufferInv, Somewhere

LEMMA DeathKeeps ==
    ASSUME BufferInv, ProcessDies
    PROVE  BufferInv'
<1>1. /\ ahead' = [j \in BufferedJobs |-> {}]
      /\ flush' = [f \in Flushers |-> NoFlush]
      /\ rows' = IF sql THEN rows ELSE {}
      /\ UNCHANGED <<sql, asked, queued>>
    BY DEF ProcessDies
<1>2. /\ exposed \subseteq exposed' /\ exposed' \subseteq Row
      /\ ~sql => rows \subseteq exposed'
      /\ \A f \in Flushers : /\ flush[f].read \subseteq exposed'
                             /\ \A batch \in flush[f].hand : batch.from \subseteq exposed'
      /\ {r \in Row : r[1] \in ahead[r[2]]} \subseteq exposed'
  <2>1. /\ exposed \subseteq Row /\ rows \subseteq Row
        /\ \A f \in Flushers : /\ flush[f].read \subseteq Row
                               /\ \A batch \in flush[f].hand : batch.from \subseteq Row
      BY DEF BufferInv, BuffersTypeOK, Flush, Batch
  <2> DEFINE memory == IF sql THEN {} ELSE rows
             reads == UNION {flush[f].read : f \in Flushers}
             hands == UNION {batch.from : batch \in UNION {flush[f].hand : f \in Flushers}}
             waiting == {r \in Row : r[1] \in ahead[r[2]]}
  <2>2. exposed' = exposed \cup memory \cup reads \cup hands \cup waiting
      BY DEF ProcessDies
  <2>3. memory \subseteq Row /\ (~sql => rows \subseteq memory)
      BY <2>1
  <2>4. reads \subseteq Row /\ \A f \in Flushers : flush[f].read \subseteq reads
      BY <2>1
  <2>5. \A f \in Flushers : \A batch \in flush[f].hand : batch.from \subseteq hands
      OBVIOUS
  <2>6. hands \subseteq Row
    <3> SUFFICES ASSUME NEW r \in hands PROVE r \in Row
        OBVIOUS
    <3>1. PICK f \in Flushers : \E batch \in flush[f].hand : r \in batch.from
        OBVIOUS
    <3> QED
        BY <2>1, <3>1
  <2>7. waiting \subseteq Row
      OBVIOUS
  <2> HIDE DEF memory, reads, hands
  <2> QED
      BY <2>1, <2>2, <2>3, <2>4, <2>5, <2>6, <2>7
<1>3. BuffersTypeOK'
    BY <1>1, <1>2, NoFlushType DEF BufferInv, BuffersTypeOK
<1>4. HandsMatch' /\ GapIsExposed' /\ AheadIsCollected'
    BY <1>1 DEF HandsMatch, GapIsExposed, AheadIsCollected, NoFlush
<1>5. ASSUME NEW j \in asked, Hidden(j)' PROVE Pending(j)'
  <2>1. Hidden(j) /\ Pending(j) /\ j \in BufferedJobs
      BY <1>2, <1>5 DEF Hidden, BufferInv, BuffersTypeOK
  <2>2. ahead[j] = {}
    <3> SUFFICES ASSUME NEW b \in ahead[j] PROVE FALSE
        OBVIOUS
    <3>1. <<b, j>> \in Row
        BY <2>1 DEF BufferInv, BuffersTypeOK, Row
    <3> QED
        BY <1>2, <1>5, <3>1 DEF Hidden
  <2>3. ASSUME NEW e \in WorkOf[j] PROVE Somewhere(j, e)'
    <3>1. Somewhere(j, e)
        BY <2>1, <2>2 DEF Pending
    <3>2. \A f \in Flushers : ~InHand(f, j, e)
        BY <1>2, <1>5 DEF InHand, Hidden
    <3>3. CASE \E r \in rows : r[2] = j
        BY <1>1, <1>2, <1>5, <3>3 DEF Somewhere, Hidden
    <3>4. CASE <<j, e>> \in queued
        BY <1>1, <3>4 DEF Somewhere
    <3> QED
        BY <3>1, <3>2, <3>3, <3>4 DEF Somewhere
  <2> QED
      BY <2>3 DEF Pending
<1> QED
    BY <1>1, <1>3, <1>4, <1>5 DEF BufferInv

-----------------------------------------------------------------------------
LEMMA BufferStep ==
    ASSUME BufferInv, [BuffersNext]_bufferVars
    PROVE  BufferInv'
<1>1. CASE BuffersNext
    BY <1>1, AddJobKeeps, CollectKeeps, SelectKeeps, DeleteKeeps, TakeKeeps, ReduceKeeps,
       HandOverKeeps, DoneKeeps, DeathKeeps
       DEF BuffersNext, FlushStep
<1>2. CASE UNCHANGED bufferVars
    BY <1>2 DEF bufferVars, BufferInv, BuffersTypeOK, HandsMatch, GapIsExposed, Matching,
                Meant, AheadIsCollected, Hidden, Pending, Somewhere, InHand
<1> QED
    BY <1>1, <1>2

LEMMA BufferInvariance == BuffersSpec => []BufferInv
BY InitBuffers, BufferStep, PTL DEF BuffersSpec

\* JobBufferService: the rows and the calls of flush() keep their types.
THEOREM BuffersTypeCorrect == BuffersSpec => []BuffersTypeOK
BY BufferInvariance, PTL DEF BufferInv

\* However flushes overlap, with each other and with add(), and however jobs are
\* reduced: the work of a job is stored, in the hands of a flush or queued, unless
\* a process died over it or it was stored between the SELECT and the DELETE of
\* a flush.
THEOREM BufferedWorkSurvives == BuffersSpec => []LostOnlyInGap
<1>1. BufferInv => LostOnlyInGap
  <2> SUFFICES ASSUME BufferInv, NEW j \in asked, \A r \in exposed : r[2] # j
               PROVE  Kept(j)
      BY DEF LostOnlyInGap
  <2>1. Pending(j)
      BY DEF BufferInv, Hidden
  <2> QED
      BY <2>1 DEF Pending, Kept, Somewhere
<1> QED
    BY <1>1, BufferInvariance, PTL

-----------------------------------------------------------------------------
HIDE BufferAssumption

(***************************************************************************)
(* The session cache: for any number of requests that overlap, any time to *)
(* live and any duration.                                                  *)
(***************************************************************************)
SessionSpec == SessionInit /\ [][SessionNext]_sessionVars

CallType == [at : {"idle", "loaded", "miss", "extend", "serialize"},
             perms : 0 .. MaxPermissions, expires : 0 .. MaxTime + Duration, since : 0 .. MaxTime]
CachedType == [perms : 0 .. MaxPermissions, expires : Nat, cacheExpiry : Nat]

SessionTyped ==
    /\ now \in 0 .. MaxTime
    /\ session \in {"none", "saved", "live", "gone"}
    /\ expires \in 0 .. MaxTime + Duration
    /\ removing \in BOOLEAN
    /\ permissions \in 0 .. MaxPermissions
    /\ cached \subseteq CachedType /\ late \subseteq CachedType
    /\ login \in CallType /\ reader \in [SessionReaders -> CallType]
    /\ lastTrue \in [perms : [0 .. MaxPermissions -> -1 .. MaxTime], session : -1 .. MaxTime]

\* What the database holds now is true now; nothing is cached or served of a
\* session that never was.
HistoryIsKept ==
    /\ lastTrue.perms[permissions] = now
    /\ \A p \in 0 .. MaxPermissions : lastTrue.perms[p] <= now
    /\ session = "live" => lastTrue.session = now
    /\ session \in {"none", "saved"} => lastTrue.session = -1
    /\ session = "none" => cached \cup late = {}
    /\ login.at # "idle" => session = "none"
    /\ removing => session = "live"
    /\ \A r \in SessionReaders : reader[r].at # "idle" => lastTrue.session >= 0

\* A call that began at `since' read what was true then.
Recent(c) ==
    c.at # "idle" => /\ c.since <= now /\ now <= c.since + MaxLag
                     /\ c.since <= lastTrue.perms[c.perms]

CallsAreRecent ==
    /\ Recent(login)
    /\ \A r \in SessionReaders :
          /\ Recent(reader[r])
          /\ reader[r].at # "idle" => reader[r].since <= lastTrue.session

\* An entry was written a TTL before it goes stale, by a call that began at most
\* MaxLag before that.
EntriesAreRecent ==
    \A c \in cached \cup late :
       /\ c.cacheExpiry <= now + SessionCacheTTL
       /\ c.cacheExpiry <= lastTrue.perms[c.perms] + SessionCacheTTL + MaxLag
       /\ lastTrue.session >= 0 => c.cacheExpiry <= lastTrue.session + SessionCacheTTL + MaxLag

SessionInv == SessionTyped /\ HistoryIsKept /\ CallsAreRecent /\ EntriesAreRecent

\* Who has seen the session alive saw, or wrote, at least half its duration.
ExpiryIsSeen ==
    session \in {"saved", "live"} =>
       /\ \A c \in cached \cup late :
             c.cacheExpiry + HalfDuration <= expires + SessionCacheTTL + MaxLag
       /\ \A r \in SessionReaders :
             /\ reader[r].at = "extend" => reader[r].expires = reader[r].since + Duration
             /\ reader[r].at = "serialize" => reader[r].since + HalfDuration <= expires

-----------------------------------------------------------------------------
LEMMA SessionBounds ==
    /\ SessionCacheTTL \in Nat /\ MaxLag \in Nat /\ MaxTime \in Nat
    /\ MaxPermissions \in Nat /\ HalfDuration \in Nat /\ HalfDuration > 0
    /\ Duration \in Nat /\ Duration = HalfDuration + HalfDuration
BY SessionAssumption DEF Duration

LEMMA InitSession == SessionInit => SessionInv /\ ExpiryIsSeen
<1> SUFFICES ASSUME SessionInit PROVE SessionInv /\ ExpiryIsSeen
    OBVIOUS
<1> USE SessionBounds
<1>1. Idle \in CallType /\ Idle.at = "idle"
    BY DEF Idle, CallType
<1>2. SessionTyped
  <2>1. lastTrue = [perms |-> [p \in 0 .. MaxPermissions |-> IF p = 0 THEN 0 ELSE -1],
                    session |-> -1]
      BY DEF SessionInit
  <2>2. lastTrue.perms = [p \in 0 .. MaxPermissions |-> IF p = 0 THEN 0 ELSE -1]
        /\ lastTrue.session = -1
      BY <2>1
  <2>3. lastTrue.perms \in [0 .. MaxPermissions -> -1 .. MaxTime]
      BY <2>2
  <2>4. lastTrue \in [perms : [0 .. MaxPermissions -> -1 .. MaxTime], session : -1 .. MaxTime]
      BY <2>1, <2>2, <2>3
  <2>5. login \in CallType /\ reader \in [SessionReaders -> CallType]
      BY <1>1 DEF SessionInit
  <2> QED
    <3>1. now \in 0 .. MaxTime /\ expires \in 0 .. MaxTime + Duration
        BY DEF SessionInit
    <3>2. removing = FALSE /\ permissions = 0 /\ cached = {} /\ late = {}
        BY DEF SessionInit
    <3>3. removing \in BOOLEAN
        BY <3>2
    <3>4. permissions \in 0 .. MaxPermissions /\ cached \subseteq CachedType /\ late \subseteq CachedType
        BY <3>2
    <3>5. session \in {"none", "saved", "live", "gone"}
        BY DEF SessionInit
    <3> QED
        BY <2>4, <2>5, <3>1, <3>3, <3>4, <3>5 DEF SessionTyped
<1>3. login.at = "idle" /\ \A r \in SessionReaders : reader[r].at = "idle"
    BY <1>1 DEF SessionInit
<1> QED
    BY <1>2, <1>3 DEF SessionInit, SessionInv, HistoryIsKept, CallsAreRecent, Recent,
                      EntriesAreRecent, ExpiryIsSeen

\* A set() puts into the cache, or on its way, what it is given or nothing.
LEMMA SetEntries ==
    ASSUME NEW c, CacheSet(c)
    PROVE  cached' \cup late' \subseteq (cached \cup late) \cup {c}
BY DEF CacheSet

\* Entries that were there, or are as recent, are as recent as they were.
LEMMA EntriesStand ==
    ASSUME SessionInv, UNCHANGED <<now, lastTrue>>, NEW c \in CachedType,
           cached' \cup late' \subseteq (cached \cup late) \cup {c},
           /\ c.cacheExpiry <= now + SessionCacheTTL
           /\ c.cacheExpiry <= lastTrue.perms[c.perms] + SessionCacheTTL + MaxLag
           /\ lastTrue.session >= 0 =>
                 c.cacheExpiry <= lastTrue.session + SessionCacheTTL + MaxLag
    PROVE  EntriesAreRecent' /\ cached' \subseteq CachedType /\ late' \subseteq CachedType
<1>1. EntriesAreRecent'
    BY DEF SessionInv, EntriesAreRecent
<1>2. cached \subseteq CachedType /\ late \subseteq CachedType
    BY DEF SessionInv, SessionTyped
<1> QED
    BY <1>1, <1>2

\* Fewer entries are no less recent.
LEMMA FewerEntries ==
    ASSUME SessionInv, UNCHANGED <<now, lastTrue>>,
           cached' \cup late' \subseteq cached \cup late
    PROVE  EntriesAreRecent' /\ cached' \subseteq CachedType /\ late' \subseteq CachedType
<1>1. EntriesAreRecent'
    BY DEF SessionInv, EntriesAreRecent
<1>2. cached \subseteq CachedType /\ late \subseteq CachedType
    BY DEF SessionInv, SessionTyped
<1> QED
    BY <1>1, <1>2

LEMMA LoadUserKeeps == ASSUME SessionInv, LoadUser PROVE SessionInv'
<1> USE SessionBounds DEF SessionInv
<1>1. /\ session = "none"
      /\ login' = [at |-> "loaded", perms |-> permissions, expires |-> 0, since |-> now]
      /\ UNCHANGED <<now, session, expires, removing, permissions, cached, late, reader, lastTrue>>
    BY DEF LoadUser, Idle
<1>2. SessionTyped'
  <2>1. login' \in CallType
      BY <1>1 DEF SessionTyped, CallType
  <2> QED
      BY <1>1, <2>1 DEF SessionTyped
<1>3. HistoryIsKept'
    BY <1>1 DEF HistoryIsKept
<1>4. CallsAreRecent'
  <2>1. now <= now + MaxLag /\ now <= now
      BY DEF SessionTyped
  <2>2. Recent(login)'
      BY <1>1, <2>1 DEF Recent, HistoryIsKept
  <2> QED
      BY <1>1, <2>2 DEF CallsAreRecent, Recent
<1>5. EntriesAreRecent'
    BY <1>1, FewerEntries
<1> QED
    BY <1>2, <1>3, <1>4, <1>5

LEMMA CreateKeeps == ASSUME SessionInv, CreateNewAuthenticatedSession PROVE SessionInv'
<1> USE SessionBounds DEF SessionInv
<1> DEFINE c == Serialized(login.perms, now + Duration)
<1>1. /\ login.at = "loaded" /\ session' = "saved" /\ expires' = now + Duration
      /\ CacheSet(c) /\ login' = Idle
      /\ UNCHANGED <<now, removing, permissions, reader, lastTrue>>
    BY DEF CreateNewAuthenticatedSession
<1>2. session = "none" /\ Recent(login)
    BY <1>1 DEF HistoryIsKept, CallsAreRecent
<1>3. /\ c.cacheExpiry = now + SessionCacheTTL /\ c.perms = login.perms
      /\ c \in CachedType
    BY DEF Serialized, CachedType, SessionTyped, CallType
<1>4. lastTrue.perms[login.perms] \in Int /\ now \in Int /\ login.since \in Int
    BY DEF SessionTyped, CallType
<1>5. c.cacheExpiry <= lastTrue.perms[c.perms] + SessionCacheTTL + MaxLag
    BY <1>1, <1>2, <1>3, <1>4 DEF Recent
<1>6. c.cacheExpiry <= now + SessionCacheTTL /\ ~(lastTrue.session >= 0)
    BY <1>2, <1>3, <1>4 DEF HistoryIsKept
<1>7. cached' \cup late' \subseteq (cached \cup late) \cup {c}
    BY <1>1, SetEntries
<1> HIDE DEF c
<1>8. EntriesAreRecent' /\ cached' \subseteq CachedType /\ late' \subseteq CachedType
    BY <1>1, <1>3, <1>5, <1>6, <1>7, EntriesStand
<1>9. SessionTyped'
  <2>1. Idle \in CallType
      BY DEF CallType, Idle
  <2> QED
      BY <1>1, <1>8, <2>1 DEF SessionTyped
<1>10. HistoryIsKept' /\ CallsAreRecent'
    BY <1>1, <1>2 DEF HistoryIsKept, CallsAreRecent, Recent, Idle
<1> QED
    BY <1>8, <1>9, <1>10

LEMMA EndLoginKeeps == ASSUME SessionInv, EndLogin PROVE SessionInv'
<1> USE SessionBounds DEF SessionInv
<1>1. /\ session = "saved"
      /\ \/ session' = "live" /\ lastTrue' = [lastTrue EXCEPT !.session = now]
         \/ session' = "gone" /\ UNCHANGED lastTrue
      /\ UNCHANGED <<now, expires, removing, permissions, cached, late, login, reader>>
    BY DEF EndLogin
<1>2. /\ lastTrue'.perms = lastTrue.perms
      /\ lastTrue' \in [perms : [0 .. MaxPermissions -> -1 .. MaxTime], session : -1 .. MaxTime]
  <2>1. /\ lastTrue \in [perms : [0 .. MaxPermissions -> -1 .. MaxTime],
                         session : -1 .. MaxTime]
        /\ now \in -1 .. MaxTime
      BY DEF SessionTyped
  <2>2. UNCHANGED lastTrue \/ lastTrue' = [lastTrue EXCEPT !.session = now]
      BY <1>1
  <2> HIDE DEF SessionInv
  <2> QED
      BY <2>1, <2>2
<1>3. CASE session' = "gone" /\ UNCHANGED lastTrue
    BY <1>1, <1>3 DEF SessionTyped, HistoryIsKept, CallsAreRecent, EntriesAreRecent, Recent
<1>4. CASE session' = "live" /\ lastTrue' = [lastTrue EXCEPT !.session = now]
  <2>1. lastTrue'.session = now
      BY <1>4 DEF SessionTyped
  <2>2. SessionTyped'
      BY <1>1, <1>2, <1>4, <2>1 DEF SessionTyped
  <2>3. HistoryIsKept'
      BY <1>1, <1>2, <1>4, <2>1 DEF HistoryIsKept, SessionTyped
  <2>4. CallsAreRecent'
      BY <1>1, <1>2 DEF CallsAreRecent, Recent, HistoryIsKept
  <2>5. EntriesAreRecent'
    <3> SUFFICES ASSUME NEW c \in cached \cup late
                 PROVE  c.cacheExpiry <= now + SessionCacheTTL + MaxLag
        BY <1>1, <1>2, <2>1 DEF EntriesAreRecent
    <3>1. c.cacheExpiry <= now + SessionCacheTTL /\ c.cacheExpiry \in Nat /\ now \in Nat
        BY DEF EntriesAreRecent, SessionTyped, CachedType
    <3> QED
        BY <3>1
  <2> QED
      BY <2>2, <2>3, <2>4, <2>5
<1> QED
    BY <1>1, <1>3, <1>4

LEMMA DeleteSessionsKeeps == ASSUME SessionInv, DeleteSessionsByUser PROVE SessionInv'
<1> USE SessionBounds DEF SessionInv
<1>1. /\ session = "live" /\ removing' = TRUE
      /\ cached' \subseteq cached /\ late' = late
      /\ UNCHANGED <<now, session, expires, permissions, login, reader, lastTrue>>
    BY DEF DeleteSessionsByUser, CacheDelete
<1>2. EntriesAreRecent' /\ cached' \subseteq CachedType /\ late' \subseteq CachedType
    BY <1>1, FewerEntries
<1> QED
    BY <1>1, <1>2 DEF SessionTyped, HistoryIsKept, CallsAreRecent, Recent

LEMMA EndDeleteKeeps == ASSUME SessionInv, EndDelete PROVE SessionInv'
<1> USE SessionBounds DEF SessionInv
<1>1. /\ session = "live" /\ removing' = FALSE /\ session' \in {"live", "gone"}
      /\ UNCHANGED <<now, expires, permissions, cached, late, login, reader, lastTrue>>
    BY DEF EndDelete, HistoryIsKept
<1>2. SessionTyped' /\ HistoryIsKept'
    BY <1>1 DEF SessionTyped, HistoryIsKept
<1> QED
    BY <1>1, <1>2 DEF CallsAreRecent, Recent, EntriesAreRecent

LEMMA ClearKeeps == ASSUME SessionInv, ClearSessionCacheOnDataChange PROVE SessionInv'
<1> USE SessionBounds DEF SessionInv
<1>1. /\ cached' = {}
      /\ UNCHANGED <<now, session, expires, removing, permissions, late, login, reader, lastTrue>>
    BY DEF ClearSessionCacheOnDataChange
<1>2. EntriesAreRecent' /\ cached' \subseteq CachedType /\ late' \subseteq CachedType
    BY <1>1, FewerEntries
<1> QED
    BY <1>1, <1>2 DEF SessionTyped, HistoryIsKept, CallsAreRecent, Recent

\* Nothing that was true is now true at an earlier time.
LEMMA LaterIsRecent ==
    ASSUME SessionInv, NEW c \in CallType, Recent(c), UNCHANGED now,
           lastTrue.perms[c.perms] <= lastTrue'.perms[c.perms],
           lastTrue'.perms[c.perms] \in Int
    PROVE  Recent(c)'
<1>1. c.since \in 0 .. MaxTime /\ c.perms \in 0 .. MaxPermissions
    BY DEF CallType
<1>2. lastTrue.perms \in [0 .. MaxPermissions -> -1 .. MaxTime]
    BY DEF SessionInv, SessionTyped
<1>3. c.since \in Int /\ lastTrue.perms[c.perms] \in Int
    BY <1>1, <1>2, SessionBounds
<1> QED
    BY <1>3 DEF Recent

LEMMA ChangePermissionsKeeps == ASSUME SessionInv, ChangePermissions PROVE SessionInv'
<1> USE SessionBounds DEF SessionInv
<1>1. /\ permissions < MaxPermissions /\ permissions' = permissions + 1
      /\ lastTrue' = [lastTrue EXCEPT !.perms[permissions + 1] = now]
      /\ UNCHANGED <<now, session, expires, removing, cached, late, login, reader>>
    BY DEF ChangePermissions
<1>2. /\ permissions + 1 \in 0 .. MaxPermissions
      /\ now \in -1 .. MaxTime
    BY SMTT(30), <1>1 DEF SessionTyped
<1>3. /\ lastTrue' \in [perms : [0 .. MaxPermissions -> -1 .. MaxTime], session : -1 .. MaxTime]
      /\ lastTrue'.session = lastTrue.session
      /\ lastTrue'.perms = [lastTrue.perms EXCEPT ![permissions + 1] = now]
    BY <1>1, <1>2 DEF SessionTyped
<1>4. \A p \in 0 .. MaxPermissions : lastTrue.perms[p] \in Int /\ lastTrue.perms[p] <= now
    BY DEF HistoryIsKept, SessionTyped
<1>5. \A p \in 0 .. MaxPermissions :
         lastTrue.perms[p] <= lastTrue'.perms[p] /\ lastTrue'.perms[p] \in Int
    BY <1>2, <1>3, <1>4 DEF SessionTyped
<1>6. SessionTyped'
    BY <1>1, <1>2, <1>3 DEF SessionTyped
<1>7. HistoryIsKept'
    BY <1>1, <1>2, <1>3 DEF HistoryIsKept, SessionTyped
<1>8. \A c \in CallType : Recent(c) => Recent(c)'
    BY <1>1, <1>5, LaterIsRecent DEF CallType
<1>9. CallsAreRecent'
    BY <1>1, <1>3, <1>8 DEF CallsAreRecent, SessionTyped
<1>10. EntriesAreRecent'
  <2> SUFFICES ASSUME NEW c \in cached \cup late
               PROVE  c.cacheExpiry <= lastTrue'.perms[c.perms] + SessionCacheTTL + MaxLag
      BY <1>1, <1>3 DEF EntriesAreRecent
  <2>1. c.perms \in 0 .. MaxPermissions /\ c.cacheExpiry \in Nat
      BY DEF SessionTyped, CachedType
  <2>2. c.cacheExpiry <= lastTrue.perms[c.perms] + SessionCacheTTL + MaxLag
      BY DEF EntriesAreRecent
  <2> QED
      BY <1>4, <1>5, <2>1, <2>2
<1> QED
    BY <1>6, <1>7, <1>9, <1>10

LEMMA FindSessionKeeps ==
    ASSUME SessionInv, NEW r \in SessionReaders, FindSessionByToken(r) PROVE SessionInv'
<1> USE SessionBounds DEF SessionInv
<1>1. /\ session = "live" /\ lastTrue.session >= 0
      /\ \E at \in {"extend", "serialize"}, e \in {now + Duration, expires} :
            reader' = [reader EXCEPT ![r] =
                          [at |-> at, perms |-> permissions, expires |-> e, since |-> now]]
      /\ UNCHANGED <<now, session, expires, removing, permissions, cached, late, login, lastTrue>>
    BY DEF FindSessionByToken, Presented
<1>2. PICK c \in CallType : /\ c.perms = permissions /\ c.since = now /\ c.at # "idle"
                            /\ reader' = [reader EXCEPT ![r] = c]
  <2>1. PICK at \in {"extend", "serialize"}, e \in {now + Duration, expires} :
           reader' = [reader EXCEPT ![r] =
                         [at |-> at, perms |-> permissions, expires |-> e, since |-> now]]
      BY <1>1
  <2>2. e \in 0 .. MaxTime + Duration
      BY DEF SessionTyped
  <2>3. [at |-> at, perms |-> permissions, expires |-> e, since |-> now] \in CallType
      BY <2>2 DEF SessionTyped, CallType
  <2> QED
      BY <2>1, <2>3
<1>3. reader'[r] = c /\ \A q \in SessionReaders \ {r} : reader'[q] = reader[q]
    BY <1>2 DEF SessionTyped
<1>4. SessionTyped'
    BY <1>1, <1>2 DEF SessionTyped
<1>5. HistoryIsKept'
    BY <1>1, <1>3 DEF HistoryIsKept
<1>6. CallsAreRecent'
  <2>1. now <= now + MaxLag /\ now <= now
      BY DEF SessionTyped
  <2>2. Recent(c)' /\ c.since <= lastTrue.session
      BY <1>1, <1>2, <2>1 DEF Recent, HistoryIsKept
  <2> QED
      BY <1>1, <1>3, <2>2 DEF CallsAreRecent, Recent
<1>7. EntriesAreRecent'
    BY <1>1, FewerEntries
<1> QED
    BY <1>4, <1>5, <1>6, <1>7

LEMMA UpdateExpiryKeeps ==
    ASSUME SessionInv, NEW r \in SessionReaders, UpdateSessionExpiry(r) PROVE SessionInv'
<1> USE SessionBounds DEF SessionInv
<1>1. /\ reader[r].at = "extend" /\ reader' = [reader EXCEPT ![r].at = "serialize"]
      /\ expires' \in {expires, reader[r].expires}
      /\ UNCHANGED <<now, session, removing, permissions, cached, late, login, lastTrue>>
    BY DEF UpdateSessionExpiry, Extended
<1>2. /\ reader'[r] = [reader[r] EXCEPT !.at = "serialize"]
      /\ reader'[r].at = "serialize" /\ reader'[r].perms = reader[r].perms
      /\ reader'[r].since = reader[r].since
      /\ \A q \in SessionReaders \ {r} : reader'[q] = reader[q]
    BY <1>1 DEF SessionTyped, CallType
<1>3. reader' \in [SessionReaders -> CallType]
    BY <1>1 DEF SessionTyped, CallType
<1>4. expires' \in 0 .. MaxTime + Duration
    BY <1>1 DEF SessionTyped, CallType
<1>5. SessionTyped'
    BY <1>1, <1>3, <1>4 DEF SessionTyped
<1>6. HistoryIsKept' /\ CallsAreRecent'
    BY <1>1, <1>2 DEF HistoryIsKept, CallsAreRecent, Recent
<1>7. EntriesAreRecent'
    BY <1>1, FewerEntries
<1> QED
    BY <1>5, <1>6, <1>7

LEMMA CacheAndServeKeeps ==
    ASSUME SessionInv, NEW r \in SessionReaders, CacheAndServe(r) PROVE SessionInv'
<1> USE SessionBounds DEF SessionInv
<1> DEFINE c == Serialized(reader[r].perms, reader[r].expires)
<1>1. /\ reader[r].at = "serialize" /\ CacheSet(c)
      /\ reader' = [reader EXCEPT ![r] = Idle]
      /\ UNCHANGED <<now, session, expires, removing, permissions, login, lastTrue>>
    BY DEF CacheAndServe
<1>2. /\ Recent(reader[r]) /\ reader[r].since <= lastTrue.session /\ lastTrue.session >= 0
      /\ reader[r] \in CallType
    BY <1>1 DEF CallsAreRecent, HistoryIsKept, SessionTyped
<1>3. /\ c.cacheExpiry = now + SessionCacheTTL /\ c.perms = reader[r].perms
      /\ c \in CachedType
    BY <1>2 DEF Serialized, CachedType, SessionTyped, CallType
<1>4. /\ lastTrue.perms[reader[r].perms] \in Int /\ lastTrue.session \in Int
      /\ now \in Int /\ reader[r].since \in Int
    BY <1>2 DEF SessionTyped, CallType
<1>5. /\ c.cacheExpiry <= lastTrue.perms[c.perms] + SessionCacheTTL + MaxLag
      /\ c.cacheExpiry <= now + SessionCacheTTL
      /\ c.cacheExpiry <= lastTrue.session + SessionCacheTTL + MaxLag
    BY <1>1, <1>2, <1>3, <1>4 DEF Recent
<1>6. cached' \cup late' \subseteq (cached \cup late) \cup {c}
    BY <1>1, SetEntries
<1> HIDE DEF c
<1>7. EntriesAreRecent' /\ cached' \subseteq CachedType /\ late' \subseteq CachedType
    BY <1>1, <1>3, <1>5, <1>6, EntriesStand
<1>8. Idle \in CallType /\ Idle.at = "idle"
    BY DEF CallType, Idle
<1>9. reader' \in [SessionReaders -> CallType]
    BY <1>1, <1>8 DEF SessionTyped
<1>10. SessionTyped'
    BY <1>1, <1>7, <1>9 DEF SessionTyped
<1>11. \A q \in SessionReaders : reader'[q] = reader[q] \/ reader'[q].at = "idle"
    BY <1>1, <1>8 DEF SessionTyped
<1>12. session # "none"
    BY <1>2 DEF HistoryIsKept
<1>13. HistoryIsKept' /\ CallsAreRecent'
    BY <1>1, <1>11, <1>12 DEF HistoryIsKept, CallsAreRecent, Recent
<1> QED
    BY <1>7, <1>10, <1>13

LEMMA ArrivesLateKeeps == ASSUME SessionInv, ArrivesLate PROVE SessionInv'
<1> USE SessionBounds DEF SessionInv
<1>1. /\ cached' = late /\ late' = {}
      /\ UNCHANGED <<now, session, expires, removing, permissions, login, reader, lastTrue>>
    BY DEF ArrivesLate
<1>2. EntriesAreRecent' /\ cached' \subseteq CachedType /\ late' \subseteq CachedType
    BY <1>1, FewerEntries
<1> QED
    BY <1>1, <1>2 DEF SessionTyped, HistoryIsKept, CallsAreRecent, Recent

\* The clock does not pass the MaxLag of a call, and what is true stays true.
LEMMA TickKeeps == ASSUME SessionInv, Tick PROVE SessionInv'
<1> USE SessionBounds DEF SessionInv
<1>1. /\ now < MaxTime /\ now' = now + 1
      /\ \A c \in {login} \cup {reader[r] : r \in SessionReaders} :
            c.at # "idle" => now < c.since + MaxLag
      /\ lastTrue' = [perms |-> [lastTrue.perms EXCEPT ![permissions] = now + 1],
                      session |-> IF session = "live" THEN now + 1 ELSE lastTrue.session]
      /\ UNCHANGED <<session, expires, removing, permissions, cached, late, login, reader>>
    BY DEF Tick
<1>2. /\ lastTrue'.perms = [lastTrue.perms EXCEPT ![permissions] = now + 1]
      /\ lastTrue'.session = IF session = "live" THEN now + 1 ELSE lastTrue.session
      /\ now + 1 \in -1 .. MaxTime
    BY SMTT(30), <1>1 DEF SessionTyped
<1>3. /\ lastTrue'.perms \in [0 .. MaxPermissions -> -1 .. MaxTime]
      /\ lastTrue'.session \in -1 .. MaxTime
    BY <1>2 DEF SessionTyped
<1>4. lastTrue' \in [perms : [0 .. MaxPermissions -> -1 .. MaxTime], session : -1 .. MaxTime]
    BY <1>1, <1>2, <1>3
<1>5. \A p \in 0 .. MaxPermissions :
         lastTrue.perms[p] <= lastTrue'.perms[p] /\ lastTrue'.perms[p] \in Int
    BY <1>2, <1>3 DEF SessionTyped, HistoryIsKept
<1>6. lastTrue.session <= lastTrue'.session /\ lastTrue.session \in Int
    BY <1>2, <1>3 DEF SessionTyped, HistoryIsKept
<1>7. SessionTyped'
    BY SMTT(30), <1>1, <1>4 DEF SessionTyped
<1>8. HistoryIsKept'
  <2>1. lastTrue'.perms[permissions] = now'
      BY <1>1, <1>2 DEF SessionTyped
  <2>2. \A r \in SessionReaders : reader[r].at # "idle" => lastTrue'.session >= 0
      BY <1>6, <1>3 DEF HistoryIsKept, SessionTyped
  <2>3. \A p \in 0 .. MaxPermissions : lastTrue'.perms[p] <= now'
    <3>1. now \in Int /\ \A p \in 0 .. MaxPermissions :
             lastTrue.perms[p] \in Int /\ lastTrue.perms[p] <= now
        BY DEF SessionTyped, HistoryIsKept
    <3>2. \A p \in 0 .. MaxPermissions : lastTrue'.perms[p] \in {lastTrue.perms[p], now + 1}
        BY <1>2 DEF SessionTyped
    <3> QED
        BY <1>1, <3>1, <3>2
  <2> QED
      BY <1>1, <1>2, <2>1, <2>2, <2>3 DEF HistoryIsKept
<1>9. ASSUME NEW c \in CallType, Recent(c), c.at # "idle" => now < c.since + MaxLag
      PROVE  Recent(c)'
  <2>1. /\ c.since \in Nat /\ c.perms \in 0 .. MaxPermissions /\ now \in Nat
        /\ lastTrue.perms[c.perms] \in Int
      BY DEF CallType, SessionTyped
  <2> QED
      BY <1>1, <1>5, <1>9, <2>1 DEF Recent
<1>10. CallsAreRecent'
  <2>1. Recent(login)'
      BY <1>1, <1>9 DEF CallsAreRecent, SessionTyped
  <2>2. ASSUME NEW r \in SessionReaders
        PROVE  /\ Recent(reader[r])'
               /\ reader[r].at # "idle" => reader[r].since <= lastTrue'.session
    <3>1. reader[r] \in CallType /\ reader[r].since \in Nat
        BY DEF SessionTyped, CallType
    <3>2. Recent(reader[r])'
        BY <1>1, <1>9, <3>1 DEF CallsAreRecent
    <3> QED
        BY <1>3, <1>6, <3>1, <3>2 DEF CallsAreRecent
  <2> QED
      BY <1>1, <2>1, <2>2 DEF CallsAreRecent
<1>11. EntriesAreRecent'
  <2> SUFFICES ASSUME NEW c \in cached \cup late
               PROVE  /\ c.cacheExpiry <= now + 1 + SessionCacheTTL
                      /\ c.cacheExpiry <= lastTrue'.perms[c.perms] + SessionCacheTTL + MaxLag
                      /\ lastTrue'.session >= 0 =>
                            c.cacheExpiry <= lastTrue'.session + SessionCacheTTL + MaxLag
      BY <1>1 DEF EntriesAreRecent
  <2>1. c.perms \in 0 .. MaxPermissions /\ c.cacheExpiry \in Nat /\ now \in Nat
      BY DEF SessionTyped, CachedType
  <2>2. /\ c.cacheExpiry <= now + SessionCacheTTL
        /\ c.cacheExpiry <= lastTrue.perms[c.perms] + SessionCacheTTL + MaxLag
        /\ lastTrue.session >= 0 => c.cacheExpiry <= lastTrue.session + SessionCacheTTL + MaxLag
      BY DEF EntriesAreRecent
  <2>3. c.cacheExpiry <= lastTrue'.perms[c.perms] + SessionCacheTTL + MaxLag
    <3>1. lastTrue.perms[c.perms] \in Int
        BY <2>1 DEF SessionTyped
    <3> QED
        BY <1>5, <2>1, <2>2, <3>1
  <2>4. lastTrue'.session >= 0 => c.cacheExpiry <= lastTrue'.session + SessionCacheTTL + MaxLag
      BY <1>2, <1>3, <2>1, <2>2
  <2> QED
      BY <2>1, <2>2, <2>3, <2>4
<1> QED
    BY <1>7, <1>8, <1>10, <1>11

LEMMA SessionStep == SessionInv /\ [SessionNext]_sessionVars => SessionInv'
<1> SUFFICES ASSUME SessionInv, [SessionNext]_sessionVars PROVE SessionInv'
    OBVIOUS
<1>1. CASE LoadUser \/ CreateNewAuthenticatedSession \/ EndLogin
    BY <1>1, LoadUserKeeps, CreateKeeps, EndLoginKeeps
<1>2. CASE DeleteSessionsByUser \/ EndDelete
    BY <1>2, DeleteSessionsKeeps, EndDeleteKeeps
<1>3. CASE ClearSessionCacheOnDataChange \/ ChangePermissions
    BY <1>3, ClearKeeps, ChangePermissionsKeeps
<1>4. CASE \E r \in SessionReaders : FindSessionByToken(r)
    BY <1>4, FindSessionKeeps
<1>5. CASE \E r \in SessionReaders : UpdateSessionExpiry(r)
    BY <1>5, UpdateExpiryKeeps
<1>6. CASE \E r \in SessionReaders : CacheAndServe(r)
    BY <1>6, CacheAndServeKeeps
<1>7. CASE ArrivesLate \/ Tick
    BY <1>7, ArrivesLateKeeps, TickKeeps
<1>8. CASE UNCHANGED sessionVars
    BY <1>8 DEF sessionVars, SessionInv, SessionTyped, HistoryIsKept, CallsAreRecent,
                Recent, EntriesAreRecent
<1> QED
    BY <1>1, <1>2, <1>3, <1>4, <1>5, <1>6, <1>7, <1>8 DEF SessionNext

\* getSessionFromToken: for any requests that overlap, and whichever calls of the
\* cache are lost or late, a request is served the permissions its user had, and a
\* session that was not deleted, no longer ago than the TTL and the time a call takes.
THEOREM ServedAreRecent == SessionSpec => []ServedSessionsAreRecent
<1>1. SessionInv => ServedSessionsAreRecent
  <2> SUFFICES ASSUME SessionInv, NEW s \in Served
               PROVE  /\ now <= lastTrue.perms[s.perms] + SessionCacheTTL + MaxLag
                      /\ now <= lastTrue.session + SessionCacheTTL + MaxLag
      BY DEF ServedSessionsAreRecent
  <2> USE SessionBounds
  <2>1. /\ now \in Int /\ lastTrue.session \in Int
        /\ \A p \in 0 .. MaxPermissions : lastTrue.perms[p] \in Int
      BY DEF SessionInv, SessionTyped
  <2>2. CASE s \in FoundInCache
    <3>1. s \in cached /\ now <= s.cacheExpiry /\ lastTrue.session >= 0
        BY <2>2 DEF FoundInCache, Presented, StillGood
    <3>2. s.perms \in 0 .. MaxPermissions /\ s.cacheExpiry \in Nat
        BY <3>1 DEF SessionInv, SessionTyped, CachedType
    <3>3. /\ s.cacheExpiry <= lastTrue.perms[s.perms] + SessionCacheTTL + MaxLag
          /\ s.cacheExpiry <= lastTrue.session + SessionCacheTTL + MaxLag
        BY <3>1 DEF SessionInv, EntriesAreRecent
    <3> QED
        BY <2>1, <3>1, <3>2, <3>3
  <2>3. CASE s \notin FoundInCache
    <3>1. PICK r \in SessionReaders : reader[r].at = "serialize" /\ s = reader[r]
        BY <2>3 DEF Served
    <3>2. s.perms \in 0 .. MaxPermissions /\ s.since \in Nat
        BY <3>1 DEF SessionInv, SessionTyped, CallType
    <3>3. /\ now <= s.since + MaxLag /\ s.since <= lastTrue.perms[s.perms]
          /\ s.since <= lastTrue.session
        BY <3>1 DEF SessionInv, CallsAreRecent, Recent
    <3> QED
        BY <2>1, <3>2, <3>3
  <2> QED
      BY <2>2, <2>3
<1> QED
    BY <1>1, InitSession, SessionStep, PTL DEF SessionSpec

-----------------------------------------------------------------------------
\* Two requests may extend the session in the wrong order, and its expiry then
\* goes back by what lies between them.
LEMMA UpdateSeesExpiry ==
    ASSUME MaxLag <= HalfDuration, SessionInv, ExpiryIsSeen,
           NEW r \in SessionReaders, UpdateSessionExpiry(r)
    PROVE  ExpiryIsSeen'
<1> USE SessionBounds
<1> SUFFICES ASSUME session \in {"saved", "live"} PROVE ExpiryIsSeen'
    BY DEF UpdateSessionExpiry, ExpiryIsSeen
<1>1. /\ reader[r].at = "extend" /\ reader' = [reader EXCEPT ![r].at = "serialize"]
      /\ expires' = IF session = "live" THEN reader[r].expires ELSE expires
      /\ UNCHANGED <<now, session, removing, permissions, cached, late, login, lastTrue>>
    BY DEF UpdateSessionExpiry, Extended
<1>2. session = "live"
    BY <1>1 DEF SessionInv, HistoryIsKept
<1>3. expires' = reader[r].since + Duration
    BY <1>1, <1>2 DEF ExpiryIsSeen
<1>4. /\ now \in Nat /\ reader[r].since \in Nat /\ now <= reader[r].since + MaxLag
  <2>1. reader[r] \in CallType /\ now \in Nat
      BY DEF SessionInv, SessionTyped
  <2>2. now <= reader[r].since + MaxLag
      BY <1>1 DEF SessionInv, CallsAreRecent, Recent
  <2> QED
      BY <2>1, <2>2 DEF CallType
<1>5. now + HalfDuration <= expires'
    BY <1>3, <1>4
<1>6. expires' \in Nat
    BY <1>3, <1>4
<1>7. ASSUME NEW c \in cached \cup late
      PROVE  c.cacheExpiry + HalfDuration <= expires' + SessionCacheTTL + MaxLag
  <2>1. c.cacheExpiry \in Nat /\ c.cacheExpiry <= now + SessionCacheTTL
      BY DEF SessionInv, SessionTyped, CachedType, EntriesAreRecent
  <2> QED
      BY <1>4, <1>5, <1>6, <2>1
<1>8. ASSUME NEW q \in SessionReaders
      PROVE  /\ reader'[q].at = "extend" => reader'[q].expires = reader'[q].since + Duration
             /\ reader'[q].at = "serialize" => reader'[q].since + HalfDuration <= expires'
  <2>1. /\ reader'[q].since = reader[q].since /\ reader'[q].expires = reader[q].expires
        /\ reader'[q].at \in {reader[q].at, "serialize"}
        /\ reader'[q].at # "idle" => reader[q].at # "idle"
      BY <1>1 DEF SessionInv, SessionTyped, CallType
  <2>2. reader'[q].at = "extend" => reader'[q].expires = reader'[q].since + Duration
      BY <1>2, <2>1 DEF ExpiryIsSeen
  <2>3. reader[q].at # "idle" => reader[q].since \in Nat /\ reader[q].since <= now
      BY DEF SessionInv, SessionTyped, CallType, CallsAreRecent, Recent
  <2> QED
      BY <1>4, <1>5, <1>6, <2>1, <2>2, <2>3
<1> QED
    BY <1>1, <1>7, <1>8 DEF ExpiryIsSeen

LEMMA CreateSeesExpiry ==
    ASSUME SessionInv, CreateNewAuthenticatedSession
    PROVE  ExpiryIsSeen'
<1> USE SessionBounds
<1> DEFINE c == Serialized(login.perms, now + Duration)
<1>1. /\ login.at = "loaded" /\ session' = "saved" /\ expires' = now + Duration
      /\ CacheSet(c) /\ UNCHANGED reader
    BY DEF CreateNewAuthenticatedSession
<1>2. /\ cached \cup late = {} /\ now \in Nat
      /\ \A r \in SessionReaders : reader[r].at = "idle"
    BY <1>1 DEF SessionInv, SessionTyped, HistoryIsKept
<1>3. cached' \cup late' \subseteq {c}
    BY <1>1, <1>2, SetEntries
<1>4. c.cacheExpiry = now + SessionCacheTTL
    BY DEF Serialized
<1> HIDE DEF c
<1> QED
    BY <1>1, <1>2, <1>3, <1>4 DEF ExpiryIsSeen

LEMMA FindSeesExpiry ==
    ASSUME SessionInv, ExpiryIsSeen, NEW r \in SessionReaders, FindSessionByToken(r)
    PROVE  ExpiryIsSeen'
<1> USE SessionBounds
<1>1. /\ session = "live" /\ UNCHANGED <<now, session, expires, cached, late>>
      /\ \/ /\ expires - now < HalfDuration
            /\ reader' = [reader EXCEPT ![r] =
                             [at |-> "extend", perms |-> permissions,
                              expires |-> now + Duration, since |-> now]]
         \/ /\ ~(expires - now < HalfDuration)
            /\ reader' = [reader EXCEPT ![r] =
                             [at |-> "serialize", perms |-> permissions,
                              expires |-> expires, since |-> now]]
    BY DEF FindSessionByToken
<1>2. now \in Nat /\ expires \in Nat
    BY DEF SessionInv, SessionTyped
<1>3. \A q \in SessionReaders \ {r} : reader'[q] = reader[q]
    BY <1>1 DEF SessionInv, SessionTyped
<1>4. /\ reader'[r].at = "extend" => reader'[r].expires = reader'[r].since + Duration
      /\ reader'[r].at = "serialize" => reader'[r].since + HalfDuration <= expires
    BY <1>1, <1>2 DEF SessionInv, SessionTyped
<1> QED
    BY <1>1, <1>3, <1>4 DEF ExpiryIsSeen

LEMMA ServeSeesExpiry ==
    ASSUME SessionInv, ExpiryIsSeen, NEW r \in SessionReaders, CacheAndServe(r)
    PROVE  ExpiryIsSeen'
<1> USE SessionBounds
<1> SUFFICES ASSUME session \in {"saved", "live"} PROVE ExpiryIsSeen'
    BY DEF CacheAndServe, ExpiryIsSeen
<1> DEFINE c == Serialized(reader[r].perms, reader[r].expires)
<1>1. /\ reader[r].at = "serialize" /\ CacheSet(c)
      /\ reader' = [reader EXCEPT ![r] = Idle]
      /\ UNCHANGED <<now, session, expires>>
    BY DEF CacheAndServe
<1>2. cached' \cup late' \subseteq (cached \cup late) \cup {c}
    BY <1>1, SetEntries
<1>3. c.cacheExpiry = now + SessionCacheTTL
    BY DEF Serialized
<1>4. /\ now \in Nat /\ expires \in Nat /\ reader[r].since \in Nat
      /\ now <= reader[r].since + MaxLag
    BY <1>1 DEF SessionInv, SessionTyped, CallType, CallsAreRecent, Recent
<1>5. reader[r].since + HalfDuration <= expires
    BY <1>1 DEF ExpiryIsSeen
<1>6. c.cacheExpiry + HalfDuration <= expires + SessionCacheTTL + MaxLag
    BY <1>3, <1>4, <1>5
<1>7. \A q \in SessionReaders : reader'[q] = reader[q] \/ reader'[q].at = "idle"
    BY <1>1 DEF Idle, SessionInv, SessionTyped
<1> HIDE DEF c
<1> QED
    BY <1>1, <1>2, <1>6, <1>7 DEF ExpiryIsSeen

LEMMA ExpiryStep ==
    ASSUME MaxLag <= HalfDuration
    PROVE  SessionInv /\ ExpiryIsSeen /\ [SessionNext]_sessionVars => ExpiryIsSeen'
<1> SUFFICES ASSUME SessionInv, ExpiryIsSeen, [SessionNext]_sessionVars PROVE ExpiryIsSeen'
    OBVIOUS
<1>1. CASE LoadUser \/ EndLogin \/ Tick \/ ChangePermissions \/ UNCHANGED sessionVars
    BY <1>1 DEF LoadUser, EndLogin, Tick, ChangePermissions, sessionVars, ExpiryIsSeen
<1>2. CASE CreateNewAuthenticatedSession
    BY <1>2, CreateSeesExpiry
<1>3. CASE DeleteSessionsByUser \/ ClearSessionCacheOnDataChange \/ ArrivesLate
  <2>1. /\ cached' \cup late' \subseteq cached \cup late
        /\ UNCHANGED <<session, expires, reader>>
      BY <1>3 DEF DeleteSessionsByUser, CacheDelete, ClearSessionCacheOnDataChange, ArrivesLate
  <2> QED
      BY <2>1 DEF ExpiryIsSeen
<1>4. CASE EndDelete
    BY <1>4 DEF EndDelete, SessionInv, HistoryIsKept, ExpiryIsSeen
<1>5. CASE \E r \in SessionReaders : FindSessionByToken(r)
    BY <1>5, FindSeesExpiry
<1>6. CASE \E r \in SessionReaders : UpdateSessionExpiry(r)
    BY <1>6, UpdateSeesExpiry
<1>7. CASE \E r \in SessionReaders : CacheAndServe(r)
    BY <1>7, ServeSeesExpiry
<1> QED
    BY <1>1, <1>2, <1>3, <1>4, <1>5, <1>6, <1>7 DEF SessionNext

\* session.service.ts:191-196: a session in use does not expire, for any duration
\* and TTL, when no call takes longer than half the duration.  Requests that take
\* longer could put the expiry back behind what one of them was served.
THEOREM ActiveSessionsSurvive ==
    ASSUME MaxLag <= HalfDuration
    PROVE  SessionSpec => []ActiveSessionSurvives
<1>1. SessionInv /\ ExpiryIsSeen => ActiveSessionSurvives
  <2> SUFFICES ASSUME SessionInv, ExpiryIsSeen, NEW s \in Served, session = "live"
               PROVE  expires >= now + HalfDuration - SessionCacheTTL - MaxLag
      BY DEF ActiveSessionSurvives
  <2> USE SessionBounds
  <2>1. now \in Nat /\ expires \in Nat
      BY DEF SessionInv, SessionTyped
  <2>2. CASE s \in FoundInCache
    <3>1. s \in cached /\ now <= s.cacheExpiry
        BY <2>2 DEF FoundInCache, StillGood
    <3>2. s.cacheExpiry \in Nat
        BY <3>1 DEF SessionInv, SessionTyped, CachedType
    <3>3. s.cacheExpiry + HalfDuration <= expires + SessionCacheTTL + MaxLag
        BY <3>1 DEF ExpiryIsSeen
    <3> QED
        BY <2>1, <3>1, <3>2, <3>3
  <2>3. CASE s \notin FoundInCache
    <3>1. PICK r \in SessionReaders : reader[r].at = "serialize" /\ s = reader[r]
        BY <2>3 DEF Served
    <3>2. s.since \in Nat /\ now <= s.since + MaxLag
        BY <3>1 DEF SessionInv, SessionTyped, CallType, CallsAreRecent, Recent
    <3>3. s.since + HalfDuration <= expires
        BY <3>1 DEF ExpiryIsSeen
    <3> QED
        BY <2>1, <3>2, <3>3
  <2> QED
      BY <2>2, <2>3
<1> QED
    BY <1>1, InitSession, SessionStep, ExpiryStep, PTL DEF SessionSpec

-----------------------------------------------------------------------------
(***************************************************************************)
(* The asset server: for any files, queries and requests that overlap.     *)
(***************************************************************************)
AssetServerSpec == AssetServerInit /\ [][AssetServerNext]_serverVars

As == {Unchanged} \cup {Transformed(q) : q \in Queries}
ImageType == [of : Files \cup {NoFile}, upload : Nat, as : As]
ServingType ==
    [at : {"idle", "missed", "transformed", "writing", "served"},
     file : Files \cup {NoFile}, query : Queries \cup {AsUploaded},
     image : ImageType, whole : BOOLEAN, sure : BOOLEAN]

ServerTyped ==
    /\ disk \in [DOMAIN disk -> [image : ImageType, whole : BOOLEAN]]
    /\ uploads \in Nat
    /\ written \in [Files -> SUBSET (1 .. uploads)]
    /\ uploading \subseteq Files
    /\ serving \in [FileRequests -> ServingType]

\* An image of an upload of f, transformed in whatever way.
IsOf(image, f) == image.of = f /\ image.upload \in written[f]

\* The last upload of a name is the one that is being written; what lies under
\* the name is of that file, or was opened and is empty, and unless a request
\* wrote it, it is as uploaded.
LiesUnder(file, f) ==
    /\ file.image = NoImage \/ IsOf(file.image, f)
    /\ file.whole => file.image # NoImage
    /\ Original(f) \notin spoilt =>
          /\ IsOf(file.image, f) /\ file.image.as = Unchanged
          /\ IF f \in uploading THEN file.image.upload = LastOf(written[f]) ELSE file.whole

OriginalsAreTheirs ==
    \A f \in Files :
       /\ f \in uploading => Original(f) \in DOMAIN disk /\ LastOf(written[f]) \in written[f]
       /\ Original(f) \in DOMAIN disk => LiesUnder(disk[Original(f)], f)

\* What the documentation has for a query, but for the top left.
WantedBy(f, q, n) == [of |-> f, upload |-> n, as |-> Asked(WithoutOrigin(q))]

\* What a request has made is what it wants.
Made(s) == IsOf(s.image, s.file) /\ s.image.as = Transformed(s.query)

GetsIts(s) ==
    /\ s.at # "idle" => s.file \in Files /\ s.query \in Queries
    /\ s.at = "missed" => s.whole
    /\ s.at \in {"transformed", "writing"} =>
          Made(s) /\ s.whole /\ (s.sure => NameParams(s.query) # AsUploaded)
    /\ s.at = "served" /\ s.sure =>
          s.whole /\ \E n \in written[s.file] : s.image = WantedBy(s.file, s.query, n)

RequestsGetTheirs == \A r \in FileRequests : GetsIts(serving[r])

\* Who writes a path that is not spoilt is alone with an empty file.
WritersAreAlone ==
    \A r \in FileRequests : serving[r].at = "writing" =>
       /\ PathAsked(r) \in DOMAIN disk
       /\ PathAsked(r) \notin spoilt =>
             /\ Writers(PathAsked(r)) = {r} /\ disk[PathAsked(r)].image = NoImage
             /\ ~Combined(serving[r].query) /\ PathAsked(r).params # AsUploaded

\* A cached image that is written is what its path says.
Right(p) ==
    /\ disk[p].whole
    /\ \E f \in Files, q \in Queries : /\ PathOf(f, q) = p /\ ~Combined(q)
                                       /\ IsOf(disk[p].image, f)
                                       /\ disk[p].image.as = Transformed(q)

CachedAreRight ==
    \A p \in DOMAIN disk \ spoilt : p.params # AsUploaded /\ Writers(p) = {} => Right(p)

ServerInv ==
    /\ ServerTyped /\ OriginalsAreTheirs /\ RequestsGetTheirs
    /\ WritersAreAlone /\ CachedAreRight

-----------------------------------------------------------------------------
\* The path tells the file, unless another file shares its base and the format is
\* asked for, and tells the transformation, unless a size is beside a preset.
LEMMA OriginalsDiffer ==
    ASSUME NEW f \in Files, NEW g \in Files, Original(f) = Original(g)
    PROVE  f = g
<1>1. f = [base |-> f.base, ext |-> f.ext] /\ g = [base |-> g.base, ext |-> g.ext]
    BY AssetServerAssumption
<1> QED
    BY <1>1 DEF Original

LEMMA PathParams ==
    ASSUME NEW f \in Files, NEW q \in Queries
    PROVE  Original(f).params = AsUploaded /\ PathOf(f, q).params = NameParams(q)
BY DEF Original, PathOf

LEMMA OriginalPaths ==
    ASSUME NEW f \in Files, NEW g \in Files, NEW q \in Queries, PathOf(f, q) = Original(g)
    PROVE  f = g
<1>1. f = [base |-> f.base, ext |-> f.ext] /\ g = [base |-> g.base, ext |-> g.ext]
    BY AssetServerAssumption
<1>2. NameParams(q) = AsUploaded
    BY DEF PathOf, Original
<1>3. q.format = "none"
    BY <1>2 DEF NameParams, AsUploaded
<1>4. f.base = g.base /\ f.ext = g.ext
    BY <1>3 DEF PathOf, Original
<1> QED
    BY <1>1, <1>4

LEMMA PathTellsFile ==
    ASSUME NEW f \in Files, NEW g \in Files, NEW q \in Queries, NEW h \in Queries,
           PathOf(f, q) = PathOf(g, h), ~SharesName(f, q)
    PROVE  f = g
<1>1. f = [base |-> f.base, ext |-> f.ext] /\ g = [base |-> g.base, ext |-> g.ext]
    BY AssetServerAssumption
<1>2. NameParams(q) = NameParams(h) /\ f.base = g.base
    BY DEF PathOf
<1>3. q.format = h.format
    BY <1>2 DEF NameParams
<1>4. CASE q.format # "none"
    BY <1>2, <1>4 DEF SharesName
<1>5. CASE q.format = "none"
  <2>1. f.ext = g.ext
      BY <1>3, <1>5 DEF PathOf
  <2> QED
      BY <1>1, <1>2, <2>1
<1> QED
    BY <1>4, <1>5

LEMMA PathTellsTransformation ==
    ASSUME NEW q \in Queries, NEW h \in Queries,
           NameParams(q) = NameParams(h), ~Combined(q), ~Combined(h)
    PROVE  Transformed(q) = Transformed(h)
<1>1. q \in Query /\ h \in Query
    BY AssetServerAssumption
<1>2. /\ q.size = h.size /\ q.focus = h.focus /\ q.format = h.format
      /\ (q.size = "none" /\ q.preset = "tiny") <=> (h.size = "none" /\ h.preset = "tiny")
      /\ q.size # "none" => q.mode = h.mode
    BY DEF NameParams
<1>3. q.preset = "tiny" <=> h.preset = "tiny"
    BY <1>2 DEF Combined
<1> QED
    BY <1>2, <1>3 DEF Transformed

LEMMA LastIsAdded ==
    ASSUME NEW u \in Nat, NEW S \in SUBSET (1 .. u)
    PROVE  LastOf(S \cup {u + 1}) = u + 1
<1>1. \A m \in S \cup {u + 1} : m \in Nat /\ m <= u + 1
    OBVIOUS
<1>2. \E n \in S \cup {u + 1} : \A m \in S \cup {u + 1} : m <= n
    BY <1>1
<1>3. /\ LastOf(S \cup {u + 1}) \in S \cup {u + 1}
      /\ \A m \in S \cup {u + 1} : m <= LastOf(S \cup {u + 1})
    BY <1>2 DEF LastOf
<1>4. LastOf(S \cup {u + 1}) \in Nat /\ LastOf(S \cup {u + 1}) <= u + 1
    BY <1>1, <1>3
<1>5. u + 1 <= LastOf(S \cup {u + 1})
    BY <1>3
<1> QED
    BY <1>4, <1>5

\* What is shown to be of an upload stays so when there are more of them.
LEMMA StaysOf ==
    ASSUME NEW image, NEW f \in Files, IsOf(image, f), written[f] \subseteq written'[f]
    PROVE  IsOf(image, f)'
BY DEF IsOf

LEMMA InitServer == AssetServerInit => ServerInv
<1> SUFFICES ASSUME AssetServerInit PROVE ServerInv
    OBVIOUS
<1>1. Unchanged \in As /\ NoImage \in ImageType
    BY DEF As, NoImage, ImageType
<1>2. NotServing \in ServingType /\ NotServing.at = "idle"
    BY <1>1 DEF NotServing, ServingType
<1>3. disk = [p \in {} |-> NoImage] /\ DOMAIN disk = {} /\ uploading = {}
    BY DEF AssetServerInit
<1>4. disk \in [DOMAIN disk -> [image : ImageType, whole : BOOLEAN]]
    BY <1>3
<1>5. uploads \in Nat /\ written \in [Files -> SUBSET (1 .. uploads)]
    BY DEF AssetServerInit
<1>6. serving \in [FileRequests -> ServingType] /\ \A r \in FileRequests : serving[r].at = "idle"
    BY <1>2 DEF AssetServerInit
<1>7. ServerTyped
    BY <1>3, <1>4, <1>5, <1>6 DEF ServerTyped
<1> QED
    BY <1>3, <1>6, <1>7 DEF ServerInv, OriginalsAreTheirs, RequestsGetTheirs, GetsIts,
                            WritersAreAlone, CachedAreRight

\* Store changes one path.
LEMMA Stored ==
    ASSUME NEW p, NEW image \in ImageType, NEW whole \in BOOLEAN, ServerTyped,
           Store(p, image, whole)
    PROVE  /\ DOMAIN disk' = DOMAIN disk \cup {p}
           /\ disk' \in [DOMAIN disk' -> [image : ImageType, whole : BOOLEAN]]
           /\ disk'[p] = [image |-> image, whole |-> whole]
           /\ \A d \in DOMAIN disk \ {p} : disk'[d] = disk[d]
BY DEF Store, ServerTyped

\* More uploads change nothing of what is made and served.
LEMMA GetsStand ==
    ASSUME NEW s, GetsIts(s), \A f \in Files : written[f] \subseteq written'[f]
    PROVE  GetsIts(s)'
BY DEF GetsIts, Made, IsOf

\* An original changes and nothing else does.
LEMMA CachedStand ==
    ASSUME ServerInv, UNCHANGED <<serving, spoilt>>, NEW f \in Files,
           \A p \in DOMAIN disk' : p # Original(f) => p \in DOMAIN disk /\ disk'[p] = disk[p],
           DOMAIN disk \subseteq DOMAIN disk',
           \A g \in Files : written[g] \subseteq written'[g]
    PROVE  WritersAreAlone' /\ CachedAreRight'
<1>1. WritersAreAlone'
  <2> SUFFICES ASSUME NEW r \in FileRequests, serving[r].at = "writing"
               PROVE  /\ PathAsked(r) \in DOMAIN disk'
                      /\ PathAsked(r) \notin spoilt =>
                            /\ Writers(PathAsked(r)) = {r}
                            /\ disk'[PathAsked(r)].image = NoImage
                            /\ ~Combined(serving[r].query)
                            /\ PathAsked(r).params # AsUploaded
      BY DEF WritersAreAlone, Writers, PathAsked
  <2>1. Original(f).params = AsUploaded
      BY DEF Original
  <2> QED
      BY <2>1 DEF ServerInv, WritersAreAlone
<1>2. CachedAreRight'
  <2> SUFFICES ASSUME NEW p \in DOMAIN disk' \ spoilt, p.params # AsUploaded, Writers(p) = {}
               PROVE  Right(p)'
      BY DEF CachedAreRight, Writers, PathAsked
  <2>1. Original(f).params = AsUploaded
      BY DEF Original
  <2>2. p \in DOMAIN disk /\ disk'[p] = disk[p]
      BY <2>1
  <2>3. Right(p)
      BY <2>2 DEF ServerInv, CachedAreRight
  <2> QED
      BY <2>2, <2>3 DEF Right, IsOf
<1> QED
    BY <1>1, <1>2

LEMMA OriginalStands ==
    ASSUME ServerInv, NEW g \in Files, Original(g) \in DOMAIN disk' \cap DOMAIN disk,
           disk'[Original(g)] = disk[Original(g)], written'[g] = written[g],
           g \in uploading' <=> g \in uploading,
           Original(g) \in spoilt' <=> Original(g) \in spoilt
    PROVE  LiesUnder(disk[Original(g)], g)'
BY DEF ServerInv, OriginalsAreTheirs, LiesUnder, IsOf

LEMMA BeginUploadKeeps ==
    ASSUME ServerInv, NEW f \in Files, BeginUpload(f) PROVE ServerInv'
<1> DEFINE image == [of |-> f, upload |-> uploads + 1, as |-> Unchanged]
           p == Original(f)
<1>1. /\ p \notin DOMAIN disk /\ f \notin uploading
      /\ uploads' = uploads + 1 /\ uploading' = uploading \cup {f}
      /\ written' = [written EXCEPT ![f] = @ \cup {uploads + 1}]
      /\ Store(p, image, FALSE)
      /\ UNCHANGED <<serving, served, spoilt>>
    BY DEF BeginUpload
<1>2. ServerTyped /\ uploads \in Nat /\ written \in [Files -> SUBSET (1 .. uploads)]
    BY DEF ServerInv, ServerTyped
<1>3. image \in ImageType
    BY <1>2 DEF ImageType, As
<1>4. image.of = f /\ image.upload = uploads + 1 /\ image.as = Unchanged
    OBVIOUS
<1> HIDE DEF image
<1>5. /\ DOMAIN disk' = DOMAIN disk \cup {p}
      /\ disk' \in [DOMAIN disk' -> [image : ImageType, whole : BOOLEAN]]
      /\ disk'[p] = [image |-> image, whole |-> FALSE]
      /\ \A d \in DOMAIN disk \ {p} : disk'[d] = disk[d]
    BY <1>1, <1>2, <1>3, Stored
<1>6. /\ written'[f] = written[f] \cup {uploads + 1}
      /\ \A g \in Files \ {f} : written'[g] = written[g]
    BY <1>1, <1>2
<1>7. written' \in [Files -> SUBSET (1 .. uploads')]
  <2>1. \A g \in Files : written'[g] \subseteq 1 .. uploads + 1
      BY <1>2, <1>6
  <2> QED
      BY <1>1, <1>2, <2>1
<1>8. LastOf(written'[f]) = uploads + 1
    BY <1>2, <1>6, LastIsAdded
<1>9. ServerTyped'
    BY <1>1, <1>2, <1>5, <1>7 DEF ServerTyped
<1>10. \A g \in Files : written[g] \subseteq written'[g]
    BY <1>6
<1>11. OriginalsAreTheirs'
  <2>1. ASSUME NEW g \in Files, g \in uploading'
        PROVE  Original(g) \in DOMAIN disk' /\ LastOf(written'[g]) \in written'[g]
      BY <1>1, <1>5, <1>6, <1>8, <2>1 DEF ServerInv, OriginalsAreTheirs
  <2>2. ASSUME NEW g \in Files, Original(g) \in DOMAIN disk'
        PROVE  LiesUnder(disk[Original(g)], g)'
    <3>1. CASE g = f
        BY <1>1, <1>4, <1>5, <1>6, <1>8, <3>1 DEF LiesUnder, IsOf
    <3>2. CASE g # f
      <4>1. Original(g) # p
          BY <3>2, OriginalsDiffer
      <4> QED
          BY <1>1, <1>5, <1>6, <2>2, <3>2, <4>1, OriginalStands
    <3> QED
        BY <3>1, <3>2
  <2> QED
      BY <2>1, <2>2 DEF OriginalsAreTheirs
<1>12. RequestsGetTheirs'
    BY <1>1, <1>10, GetsStand DEF ServerInv, RequestsGetTheirs
<1>13. WritersAreAlone' /\ CachedAreRight'
    BY <1>1, <1>5, <1>10, CachedStand
<1> QED
    BY <1>9, <1>11, <1>12, <1>13 DEF ServerInv

LEMMA EndUploadKeeps ==
    ASSUME ServerInv, NEW f \in Files, EndUpload(f) PROVE ServerInv'
<1> DEFINE image == [of |-> f, upload |-> LastOf(written[f]), as |-> Unchanged]
           p == Original(f)
<1>1. /\ f \in uploading /\ uploading' = uploading \ {f}
      /\ Store(p, image, disk[p].image = image)
      /\ UNCHANGED <<uploads, written, serving, served, spoilt>>
    BY DEF EndUpload
<1>2. ServerTyped /\ uploads \in Nat /\ written \in [Files -> SUBSET (1 .. uploads)]
    BY DEF ServerInv, ServerTyped
<1>3. p \in DOMAIN disk /\ LastOf(written[f]) \in written[f]
    BY <1>1 DEF ServerInv, OriginalsAreTheirs
<1>4. LastOf(written[f]) \in Nat /\ LastOf(written[f]) # 0
    BY <1>2, <1>3
<1>5. image \in ImageType
    BY <1>4 DEF ImageType, As
<1>6. image.of = f /\ image.upload = LastOf(written[f]) /\ image.as = Unchanged
    OBVIOUS
<1>7. image # NoImage
    BY <1>4 DEF NoImage
<1>8. ASSUME p \notin spoilt PROVE disk[p].image = image
  <2>1. /\ IsOf(disk[p].image, f) /\ disk[p].image.as = Unchanged
        /\ disk[p].image.upload = LastOf(written[f])
      BY <1>1, <1>3, <1>8 DEF ServerInv, OriginalsAreTheirs, LiesUnder
  <2>2. disk[p].image \in ImageType
      BY <1>2, <1>3 DEF ServerTyped
  <2> QED
      BY <2>1, <2>2 DEF IsOf, ImageType
<1> HIDE DEF image
<1>9. /\ DOMAIN disk' = DOMAIN disk \cup {p}
      /\ disk' \in [DOMAIN disk' -> [image : ImageType, whole : BOOLEAN]]
      /\ disk'[p] = [image |-> image, whole |-> disk[p].image = image]
      /\ \A d \in DOMAIN disk \ {p} : disk'[d] = disk[d]
    BY <1>1, <1>2, <1>5, Stored
<1>10. disk'[p].image = image /\ (disk'[p].whole <=> disk[p].image = image)
    BY <1>9
<1>11. ServerTyped'
    BY <1>1, <1>2, <1>9 DEF ServerTyped
<1>12. OriginalsAreTheirs'
  <2>1. ASSUME NEW g \in Files, g \in uploading'
        PROVE  Original(g) \in DOMAIN disk' /\ LastOf(written'[g]) \in written'[g]
      BY <1>1, <1>9, <2>1 DEF ServerInv, OriginalsAreTheirs
  <2>2. ASSUME NEW g \in Files, Original(g) \in DOMAIN disk'
        PROVE  LiesUnder(disk[Original(g)], g)'
    <3>1. CASE g = f
        BY <1>1, <1>3, <1>6, <1>7, <1>8, <1>10, <3>1 DEF LiesUnder, IsOf
    <3>2. CASE g # f
      <4>1. Original(g) # p
          BY <3>2, OriginalsDiffer
      <4> QED
          BY <1>1, <1>9, <2>2, <3>2, <4>1, OriginalStands
    <3> QED
        BY <3>1, <3>2
  <2> QED
      BY <2>1, <2>2 DEF OriginalsAreTheirs
<1>13. RequestsGetTheirs'
    BY <1>1, GetsStand DEF ServerInv, RequestsGetTheirs
<1>14. WritersAreAlone' /\ CachedAreRight'
    BY <1>1, <1>9, CachedStand
<1> QED
    BY <1>11, <1>12, <1>13, <1>14 DEF ServerInv

\* The code comes to what the documentation says in another way: it chooses the
\* preset, then the mode, then leaves out the focal points it has no use for.
LEMMA TransformedAsAsked ==
    ASSUME NEW q \in Queries PROVE Transformed(q) = Asked(WithoutOrigin(q))
<1> DEFINE w == WithoutOrigin(q)
<1>1. q \in Query
    BY AssetServerAssumption
<1>2. /\ w.size = q.size /\ w.preset = q.preset /\ w.mode = q.mode /\ w.format = q.format
      /\ w.focus = IF q.focus = "right" THEN "right" ELSE "none"
    BY <1>1 DEF WithoutOrigin, Query
<1> HIDE DEF w
<1>3. Transformed(q).focus = Asked(w).focus
    BY <1>1, <1>2 DEF Transformed, Asked, Cropped, Query
<1>4. Transformed(q).mode = Asked(w).mode
    BY <1>1, <1>2 DEF Transformed, Asked, Query
<1>5. Transformed(q).size = Asked(w).size /\ Transformed(q).format = Asked(w).format
    BY <1>2 DEF Transformed, Asked
<1>6. Transformed(q) = Asked(w)
    BY <1>3, <1>4, <1>5 DEF Transformed, Asked
<1> QED
    BY <1>6 DEF w

\* Who gives no parameter asks for the file as it is.
LEMMA UploadedAsAsked ==
    ASSUME NEW q \in Queries, NameParams(q) = AsUploaded
    PROVE  Asked(WithoutOrigin(q)) = Unchanged
<1>1. q \in Query
    BY AssetServerAssumption
<1>2. q.size = "none" /\ q.focus = "none" /\ q.format = "none" /\ q.preset # "tiny"
    BY <1>1 DEF NameParams, AsUploaded, Query
<1> QED
    BY <1>2 DEF WithoutOrigin, Asked, Cropped, Unchanged

LEMMA MadeIsWanted ==
    ASSUME NEW s \in ServingType, Made(s), s.query \in Queries
    PROVE  \E n \in written[s.file] : s.image = WantedBy(s.file, s.query, n)
<1>1. s.image = [of |-> s.image.of, upload |-> s.image.upload, as |-> s.image.as]
    BY DEF ServingType, ImageType
<1> QED
    BY <1>1, TransformedAsAsked DEF Made, IsOf, WantedBy

\* The name was removed under whoever was writing it.
LEMMA DeleteOriginalKeeps ==
    ASSUME ServerInv, NEW f \in Files, DeleteOriginal(f) PROVE ServerInv'
<1> DEFINE p == Original(f)
<1>1. /\ p \in DOMAIN disk /\ f \notin uploading
      /\ disk' = [d \in DOMAIN disk \ {p} |-> disk[d]]
      /\ serving' = [r \in FileRequests |->
            IF r \in Writers(p) THEN [serving[r] EXCEPT !.at = "served"] ELSE serving[r]]
      /\ UNCHANGED <<uploads, written, uploading, served, spoilt>>
    BY DEF DeleteOriginal
<1>2. ServerTyped /\ serving \in [FileRequests -> ServingType]
    BY DEF ServerInv, ServerTyped
<1>3. DOMAIN disk' = DOMAIN disk \ {p} /\ \A d \in DOMAIN disk' : disk'[d] = disk[d]
    BY <1>1
<1>4. ASSUME NEW r \in FileRequests
      PROVE  /\ serving'[r] \in ServingType
             /\ serving'[r].file = serving[r].file /\ serving'[r].query = serving[r].query
             /\ serving'[r].image = serving[r].image /\ serving'[r].whole = serving[r].whole
             /\ serving'[r].sure = serving[r].sure
             /\ serving'[r].at = IF r \in Writers(p) THEN "served" ELSE serving[r].at
    BY <1>1, <1>2 DEF ServingType
<1>5. ServerTyped'
  <2>1. disk' \in [DOMAIN disk' -> [image : ImageType, whole : BOOLEAN]]
      BY <1>1, <1>2 DEF ServerTyped
  <2>2. serving' \in [FileRequests -> ServingType]
      BY <1>1, <1>4
  <2> QED
      BY <1>1, <1>2, <2>1, <2>2 DEF ServerTyped
<1>6. OriginalsAreTheirs'
  <2>1. ASSUME NEW g \in Files, g \in uploading
        PROVE  Original(g) \in DOMAIN disk' /\ LastOf(written[g]) \in written[g]
    <3>1. Original(g) # p
        BY <1>1, <2>1, OriginalsDiffer
    <3> QED
        BY <1>3, <2>1, <3>1 DEF ServerInv, OriginalsAreTheirs
  <2>2. ASSUME NEW g \in Files, Original(g) \in DOMAIN disk'
        PROVE  LiesUnder(disk[Original(g)], g)'
      BY <1>1, <1>3, <2>2, OriginalStands
  <2> QED
      BY <1>1, <2>1, <2>2 DEF OriginalsAreTheirs
<1>7. RequestsGetTheirs'
  <2>1. ASSUME NEW r \in FileRequests PROVE GetsIts(serving[r])'
    <3>1. GetsIts(serving[r]) /\ serving[r] \in ServingType
        BY <1>2 DEF ServerInv, RequestsGetTheirs
    <3>2. CASE r \in Writers(p)
      <4>1. serving[r].at = "writing"
          BY <3>2 DEF Writers
      <4>2. Made(serving[r]) /\ serving[r].whole
            /\ (serving[r].sure => NameParams(serving[r].query) # AsUploaded)
          BY <3>1, <4>1 DEF GetsIts
      <4>3. serving[r].file \in Files /\ serving[r].query \in Queries
          BY <3>1, <4>1 DEF GetsIts
      <4>4. serving[r].sure => \E n \in written[serving[r].file] :
                 serving[r].image = WantedBy(serving[r].file, serving[r].query, n)
          BY <3>1, <4>2, <4>3, MadeIsWanted
      <4>5. /\ serving'[r].at = "served" /\ serving'[r].whole
            /\ serving'[r].file \in Files /\ serving'[r].query \in Queries
          BY <1>4, <3>2, <4>2, <4>3
      <4>6. serving'[r].sure => \E n \in written'[serving'[r].file] :
                 serving'[r].image = WantedBy(serving'[r].file, serving'[r].query, n)
          BY <1>1, <1>4, <4>4
      <4> QED
          BY <4>5, <4>6 DEF GetsIts
    <3>3. CASE r \notin Writers(p)
      <4>1. serving'[r] = serving[r]
          BY <1>1, <3>3
      <4> QED
          BY <1>1, <3>1, <4>1, GetsStand
    <3> QED
        BY <3>2, <3>3
  <2> QED
      BY <2>1 DEF RequestsGetTheirs
<1>8. \A r \in FileRequests : PathAsked(r)' = PathAsked(r)
    BY <1>4 DEF PathAsked
<1>9. \A d : d # p => Writers(d)' = Writers(d)
    BY <1>4, <1>8 DEF Writers
<1>10. ASSUME NEW r \in FileRequests, serving'[r].at = "writing"
       PROVE  serving[r].at = "writing" /\ PathAsked(r) # p
    BY <1>4, <1>10 DEF Writers
<1>11. WritersAreAlone'
  <2> SUFFICES ASSUME NEW r \in FileRequests, serving'[r].at = "writing"
               PROVE  /\ PathAsked(r) \in DOMAIN disk'
                      /\ PathAsked(r) \notin spoilt =>
                            /\ Writers(PathAsked(r))' = {r}
                            /\ disk'[PathAsked(r)].image = NoImage
                            /\ ~Combined(serving[r].query)
                            /\ PathAsked(r).params # AsUploaded
      BY ZenonT(60), <1>1, <1>4, <1>8 DEF WritersAreAlone, Writers
  <2>1. PICK d : d = PathAsked(r)
      OBVIOUS
  <2>2. d # p /\ d \in DOMAIN disk
      BY <1>10, <2>1 DEF ServerInv, WritersAreAlone
  <2>3. d \notin spoilt => /\ Writers(d)' = {r} /\ disk[d].image = NoImage
                           /\ ~Combined(serving[r].query) /\ d.params # AsUploaded
      BY <1>9, <1>10, <2>1, <2>2 DEF ServerInv, WritersAreAlone
  <2>4. d = PathAsked(r)'
      BY <1>8, <2>1
  <2> QED
      BY <1>3, <2>1, <2>2, <2>3, <2>4
<1>12. CachedAreRight'
  <2> SUFFICES ASSUME NEW d \in DOMAIN disk' \ spoilt, d.params # AsUploaded, Writers(d)' = {}
               PROVE  Right(d)'
      BY <1>1 DEF CachedAreRight
  <2>1. Right(d)
      BY <1>3, <1>9 DEF ServerInv, CachedAreRight
  <2> QED
      BY <1>1, <1>3, <2>1 DEF Right, IsOf
<1> QED
    BY <1>5, <1>6, <1>7, <1>11, <1>12 DEF ServerInv

\* A request takes a step that neither begins nor ends a write.
LEMMA RequestStep ==
    ASSUME ServerInv, UNCHANGED <<disk, uploads, written, uploading, spoilt>>,
           NEW r \in FileRequests, NEW s \in ServingType,
           serving' = [serving EXCEPT ![r] = s],
           serving[r].at # "writing", s.at # "writing", GetsIts(s)
    PROVE  ServerInv'
<1>1. /\ serving' \in [FileRequests -> ServingType]
      /\ serving'[r] = s /\ \A q \in FileRequests \ {r} : serving'[q] = serving[q]
    BY DEF ServerInv, ServerTyped
<1>2. ServerTyped'
    BY <1>1 DEF ServerInv, ServerTyped
<1>3. OriginalsAreTheirs'
    BY DEF ServerInv, OriginalsAreTheirs, LiesUnder, IsOf
<1>4. RequestsGetTheirs'
  <2>1. \A q \in FileRequests : GetsIts(serving'[q])
      BY <1>1 DEF ServerInv, RequestsGetTheirs
  <2> QED
      BY <2>1, GetsStand DEF RequestsGetTheirs
<1>5. \A d : Writers(d)' = Writers(d)
    BY <1>1 DEF Writers, PathAsked
<1>6. WritersAreAlone'
  <2> SUFFICES ASSUME NEW q \in FileRequests, serving'[q].at = "writing"
               PROVE  /\ PathAsked(q)' \in DOMAIN disk
                      /\ PathAsked(q)' \notin spoilt =>
                            /\ Writers(PathAsked(q)') = {q}
                            /\ disk[PathAsked(q)'].image = NoImage
                            /\ ~Combined(serving'[q].query)
                            /\ PathAsked(q)'.params # AsUploaded
      BY <1>5 DEF WritersAreAlone
  <2>1. serving'[q] = serving[q] /\ PathAsked(q)' = PathAsked(q)
      BY <1>1 DEF PathAsked
  <2> QED
      BY <2>1 DEF ServerInv, WritersAreAlone
<1>7. CachedAreRight'
    BY <1>5 DEF ServerInv, CachedAreRight, Right, IsOf
<1> QED
    BY <1>2, <1>3, <1>4, <1>6, <1>7 DEF ServerInv

\* What lies under the path of a request that nobody has spoilt is what it wants.
LEMMA FileIsWanted ==
    ASSUME ServerInv, NEW f \in Files, NEW q \in Queries,
           PathOf(f, q) \in DOMAIN disk, Sure(f, q), ~Combined(q)
    PROVE  /\ disk[PathOf(f, q)].whole
           /\ \E n \in written[f] : disk[PathOf(f, q)].image = WantedBy(f, q, n)
<1> DEFINE p == PathOf(f, q)
<1>1. p \notin spoilt /\ Writers(p) = {} /\ ~SharesName(f, q) /\ f \notin uploading
    BY DEF Sure
<1>2. disk[p].image \in ImageType
    BY DEF ServerInv, ServerTyped
<1>3. disk[p].image = [of |-> disk[p].image.of, upload |-> disk[p].image.upload,
                       as |-> disk[p].image.as]
    BY <1>2 DEF ImageType
<1>4. CASE NameParams(q) = AsUploaded
  <2>1. q.format = "none"
      BY <1>4 DEF NameParams, AsUploaded
  <2>2. p = Original(f)
      BY <1>4, <2>1 DEF PathOf, Original
  <2>3. LiesUnder(disk[p], f)
      BY <2>2 DEF ServerInv, OriginalsAreTheirs
  <2>4. IsOf(disk[p].image, f) /\ disk[p].image.as = Unchanged /\ disk[p].whole
      BY <1>1, <2>2, <2>3 DEF LiesUnder
  <2> QED
      BY <1>3, <1>4, <2>4, UploadedAsAsked DEF IsOf, WantedBy
<1>5. CASE NameParams(q) # AsUploaded
  <2>1. p.params = NameParams(q)
      BY PathParams
  <2>2. Right(p)
      BY <1>1, <1>5, <2>1 DEF ServerInv, CachedAreRight
  <2>3. PICK g \in Files, h \in Queries :
           /\ PathOf(g, h) = p /\ ~Combined(h)
           /\ IsOf(disk[p].image, g) /\ disk[p].image.as = Transformed(h)
      BY <2>2 DEF Right
  <2>4. g = f
      BY <1>1, <2>3, PathTellsFile
  <2>5. Transformed(h) = Transformed(q)
    <3>1. NameParams(h) = NameParams(q)
        BY <2>1, <2>3, PathParams
    <3> QED
        BY <2>3, <3>1, PathTellsTransformation
  <2>6. disk[p].whole
      BY <2>2 DEF Right
  <2> QED
      BY <1>3, <2>3, <2>4, <2>5, <2>6, TransformedAsAsked DEF IsOf, WantedBy
<1> QED
    BY <1>4, <1>5

LEMMA ReadFileKeeps ==
    ASSUME ServerInv, NEW r \in FileRequests, ReadFile(r) PROVE ServerInv'
<1>1. PICK f \in Files, q \in Queries :
         LET p == PathOf(f, q) IN
         /\ serving[r].at \in {"idle", "served"}
         /\ serving' = [serving EXCEPT ![r] =
               IF p \in DOMAIN disk
               THEN [at |-> "served", file |-> f, query |-> q, image |-> disk[p].image,
                     whole |-> disk[p].whole, sure |-> Sure(f, q) /\ ~Combined(q)]
               ELSE [NotServing EXCEPT !.at = "missed", !.file = f, !.query = q]]
         /\ UNCHANGED <<disk, uploads, written, uploading, spoilt>>
    BY DEF ReadFile
<1>2. CASE PathOf(f, q) \in DOMAIN disk
  <2> DEFINE p == PathOf(f, q)
             s == [at |-> "served", file |-> f, query |-> q, image |-> disk[p].image,
                   whole |-> disk[p].whole, sure |-> Sure(f, q) /\ ~Combined(q)]
  <2>1. disk[p] \in [image : ImageType, whole : BOOLEAN]
      BY <1>2 DEF ServerInv, ServerTyped
  <2>2. (Sure(f, q) /\ ~Combined(q)) \in BOOLEAN
      BY DEF Sure, Combined
  <2>3. s \in ServingType
      BY <2>1, <2>2 DEF ServingType
  <2>4. /\ s.at = "served" /\ s.file = f /\ s.query = q /\ s.image = disk[p].image
        /\ s.whole = disk[p].whole /\ (s.sure => Sure(f, q) /\ ~Combined(q))
      OBVIOUS
  <2>5. s.sure => s.whole /\ \E n \in written[f] : s.image = WantedBy(f, q, n)
      BY <1>2, <2>4, FileIsWanted
  <2> HIDE DEF s
  <2>6. GetsIts(s)
      BY <2>4, <2>5 DEF GetsIts
  <2>7. serving' = [serving EXCEPT ![r] = s]
      BY <1>1, <1>2 DEF s
  <2> QED
      BY <1>1, <2>3, <2>4, <2>6, <2>7, RequestStep
<1>3. CASE PathOf(f, q) \notin DOMAIN disk
  <2> DEFINE s == [NotServing EXCEPT !.at = "missed", !.file = f, !.query = q]
  <2>1. Unchanged \in As /\ NoImage \in ImageType
      BY DEF As, NoImage, ImageType
  <2>2. s \in ServingType
      BY <2>1 DEF NotServing, ServingType
  <2>3. s.at = "missed" /\ s.file = f /\ s.query = q /\ s.whole = TRUE
      BY DEF NotServing
  <2> HIDE DEF s
  <2>4. GetsIts(s)
      BY <2>3 DEF GetsIts
  <2>5. serving' = [serving EXCEPT ![r] = s]
      BY <1>1, <1>3 DEF s
  <2> QED
      BY <1>1, <2>2, <2>3, <2>4, <2>5, RequestStep
<1> QED
    BY <1>2, <1>3

LEMMA TransformKeeps ==
    ASSUME ServerInv, NEW r \in FileRequests, TransformOriginal(r) PROVE ServerInv'
<1> DEFINE f == serving[r].file
           q == serving[r].query
           image == [disk[Original(f)].image EXCEPT !.as = Transformed(q)]
           s == [serving[r] EXCEPT !.at = IF q.cache THEN "transformed" ELSE "served",
                                   !.image = image,
                                   !.sure = NameParams(q) # AsUploaded /\ f \notin uploading]
<1>1. /\ serving[r].at = "missed" /\ Original(f) \in DOMAIN disk /\ disk[Original(f)].whole
      /\ serving' = [serving EXCEPT ![r] = s]
      /\ UNCHANGED <<disk, uploads, written, uploading, spoilt>>
    BY DEF TransformOriginal
<1>2. serving[r] \in ServingType /\ disk[Original(f)].image \in ImageType
    BY <1>1 DEF ServerInv, ServerTyped
<1>3. f \in Files /\ q \in Queries /\ serving[r].whole
    BY <1>1 DEF ServerInv, RequestsGetTheirs, GetsIts
<1>4. IsOf(disk[Original(f)].image, f)
    BY <1>1, <1>3 DEF ServerInv, OriginalsAreTheirs, LiesUnder
<1>5. image \in ImageType /\ IsOf(image, f) /\ image.as = Transformed(q)
    BY <1>2, <1>3, <1>4 DEF ImageType, As, IsOf
<1> HIDE DEF image
<1>6. s \in ServingType
    BY <1>2, <1>5 DEF ServingType
<1>7. /\ s.at \in {"transformed", "served"} /\ s.file = f /\ s.query = q /\ s.image = image
      /\ s.whole = serving[r].whole /\ (s.sure => NameParams(q) # AsUploaded)
    BY <1>2 DEF ServingType
<1> HIDE DEF s
<1>8. Made(s)
    BY <1>5, <1>7 DEF Made
<1>9. s.sure => \E n \in written[s.file] : s.image = WantedBy(s.file, s.query, n)
    BY <1>3, <1>6, <1>7, <1>8, MadeIsWanted
<1>10. GetsIts(s)
    BY <1>3, <1>7, <1>8, <1>9 DEF GetsIts
<1> QED
    BY <1>1, <1>6, <1>7, <1>10, RequestStep

LEMMA NotServingGets == NotServing \in ServingType /\ NotServing.at = "idle" /\ GetsIts(NotServing)
<1>1. Unchanged \in As /\ NoImage \in ImageType
    BY DEF As, NoImage, ImageType
<1> QED
    BY <1>1 DEF NotServing, ServingType, GetsIts

LEMMA ServingFailsKeeps ==
    ASSUME ServerInv, NEW r \in FileRequests, ServingFails(r) PROVE ServerInv'
BY RequestStep, NotServingGets DEF ServingFails

\* What a write does to the requests: r takes a step, the others stand.
LEMMA WriterSteps ==
    ASSUME ServerInv, NEW r \in FileRequests, NEW s \in ServingType,
           serving' = [serving EXCEPT ![r] = s],
           UNCHANGED written, GetsIts(s),
           s.at = "writing" => s.file = serving[r].file /\ s.query = serving[r].query
    PROVE  /\ serving' \in [FileRequests -> ServingType]
           /\ RequestsGetTheirs'
           /\ serving'[r] = s /\ \A q \in FileRequests \ {r} : serving'[q] = serving[q]
           /\ \A q \in FileRequests : serving'[q].at = "writing" => PathAsked(q)' = PathAsked(q)
           /\ \A d : d # PathAsked(r) => Writers(d)' = Writers(d)
           /\ Writers(PathAsked(r)) \subseteq FileRequests
<1>1. /\ serving' \in [FileRequests -> ServingType]
      /\ serving'[r] = s /\ \A q \in FileRequests \ {r} : serving'[q] = serving[q]
    BY DEF ServerInv, ServerTyped
<1>2. RequestsGetTheirs'
  <2>1. \A q \in FileRequests : GetsIts(serving'[q])
      BY <1>1 DEF ServerInv, RequestsGetTheirs
  <2> QED
      BY <2>1, GetsStand DEF RequestsGetTheirs
<1>3. \A q \in FileRequests : serving'[q].at = "writing" => PathAsked(q)' = PathAsked(q)
    BY <1>1 DEF PathAsked
<1>4. ASSUME NEW d, d # PathAsked(r) PROVE Writers(d)' = Writers(d)
  <2>1. ASSUME NEW q \in FileRequests
        PROVE  (serving'[q].at = "writing" /\ PathAsked(q)' = d)
                  <=> (serving[q].at = "writing" /\ PathAsked(q) = d)
    <3>1. CASE q = r
        BY <1>1, <1>3, <1>4, <3>1
    <3>2. CASE q # r
        BY <1>1, <3>2 DEF PathAsked
    <3> QED
        BY <3>1, <3>2
  <2> QED
      BY <2>1 DEF Writers
<1> QED
    BY <1>1, <1>2, <1>3, <1>4 DEF Writers

LEMMA OpenCachedKeeps ==
    ASSUME ServerInv, NEW r \in FileRequests, OpenCached(r) PROVE ServerInv'
<1> DEFINE s == [serving[r] EXCEPT !.at = "writing"]
<1>1. PICK p : p = PathAsked(r)
    OBVIOUS
<1>2. /\ serving[r].at = "transformed" /\ serving' = [serving EXCEPT ![r] = s]
      /\ Store(p, NoImage, FALSE)
      /\ spoilt' = IF Writers(p) # {} \/ Combined(serving[r].query) \/ p.params = AsUploaded
                   THEN spoilt \cup {p} ELSE spoilt
      /\ UNCHANGED <<uploads, written, uploading, served>>
    BY <1>1 DEF OpenCached
<1>3. ServerTyped /\ serving[r] \in ServingType /\ NoImage \in ImageType
    BY DEF ServerInv, ServerTyped, NoImage, ImageType, As
<1>4. /\ DOMAIN disk' = DOMAIN disk \cup {p}
      /\ disk' \in [DOMAIN disk' -> [image : ImageType, whole : BOOLEAN]]
      /\ disk'[p] = [image |-> NoImage, whole |-> FALSE]
      /\ \A d \in DOMAIN disk \ {p} : disk'[d] = disk[d]
    BY <1>2, <1>3, Stored
<1>5. /\ s \in ServingType /\ s.at = "writing" /\ s.file = serving[r].file
      /\ s.query = serving[r].query /\ s.image = serving[r].image
      /\ s.whole = serving[r].whole /\ s.sure = serving[r].sure
    BY <1>3 DEF ServingType
<1> HIDE DEF s
<1>6. GetsIts(s)
    BY <1>2, <1>5 DEF ServerInv, RequestsGetTheirs, GetsIts, Made
<1>7. /\ serving' \in [FileRequests -> ServingType] /\ RequestsGetTheirs'
      /\ serving'[r] = s /\ \A q \in FileRequests \ {r} : serving'[q] = serving[q]
      /\ \A q \in FileRequests : serving'[q].at = "writing" => PathAsked(q)' = PathAsked(q)
      /\ \A d : d # p => Writers(d)' = Writers(d)
    BY <1>1, <1>2, <1>5, <1>6, WriterSteps
<1>8. Writers(p)' = Writers(p) \cup {r}
  <2>1. \A q \in FileRequests \ {r} : PathAsked(q)' = PathAsked(q)
      BY <1>7 DEF PathAsked
  <2> QED
      BY <1>1, <1>5, <1>7, <2>1 DEF Writers
<1>9. ServerTyped'
    BY <1>2, <1>3, <1>4, <1>7 DEF ServerTyped
<1>10. OriginalsAreTheirs'
  <2>1. ASSUME NEW g \in Files, g \in uploading
        PROVE  Original(g) \in DOMAIN disk' /\ LastOf(written[g]) \in written[g]
      BY <1>4, <2>1 DEF ServerInv, OriginalsAreTheirs
  <2>2. ASSUME NEW g \in Files, Original(g) \in DOMAIN disk'
        PROVE  LiesUnder(disk[Original(g)], g)'
    <3>1. CASE Original(g) = p
      <4>1. p \in spoilt'
          BY <1>2, <3>1 DEF Original
      <4> QED
          BY <1>4, <3>1, <4>1 DEF LiesUnder
    <3>2. CASE Original(g) # p
        BY <1>2, <1>4, <2>2, <3>2, OriginalStands
    <3> QED
        BY <3>1, <3>2
  <2> QED
      BY <1>2, <2>1, <2>2 DEF OriginalsAreTheirs
<1>11. WritersAreAlone'
  <2> SUFFICES ASSUME NEW q \in FileRequests, serving'[q].at = "writing", NEW d, d = PathAsked(q)'
               PROVE  /\ d \in DOMAIN disk'
                      /\ d \notin spoilt' =>
                            /\ Writers(d)' = {q} /\ disk'[d].image = NoImage
                            /\ ~Combined(serving'[q].query) /\ d.params # AsUploaded
      BY DEF WritersAreAlone
  <2>1. d = PathAsked(q)
      BY <1>7
  <2>2. CASE q = r
      BY <1>1, <1>2, <1>4, <1>5, <1>7, <1>8, <2>1, <2>2
  <2>3. CASE q # r
    <3>1. serving'[q] = serving[q] /\ q \in Writers(d)
        BY <1>7, <2>1, <2>3 DEF Writers
    <3>2. d = p => d \in spoilt' /\ d \in DOMAIN disk'
        BY <1>2, <1>4, <3>1
    <3>3. d # p => d \in DOMAIN disk /\ disk'[d] = disk[d] /\ Writers(d)' = Writers(d)
        BY <1>4, <1>7, <2>1, <3>1 DEF ServerInv, WritersAreAlone
    <3> QED
        BY <1>2, <1>4, <2>1, <3>1, <3>2, <3>3 DEF ServerInv, WritersAreAlone
  <2> QED
      BY <2>2, <2>3
<1>12. CachedAreRight'
  <2> SUFFICES ASSUME NEW d \in DOMAIN disk' \ spoilt', d.params # AsUploaded, Writers(d)' = {}
               PROVE  Right(d)'
      BY DEF CachedAreRight
  <2>1. d # p
      BY <1>8
  <2>2. Right(d)
      BY <1>2, <1>4, <1>7, <2>1 DEF ServerInv, CachedAreRight
  <2> QED
      BY <1>2, <1>4, <2>1, <2>2 DEF Right, IsOf
<1> QED
    BY <1>7, <1>9, <1>10, <1>11, <1>12 DEF ServerInv

LEMMA WriteCachedKeeps ==
    ASSUME ServerInv, NEW r \in FileRequests, WriteCached(r) PROVE ServerInv'
<1> DEFINE s == [serving[r] EXCEPT !.at = "served"]
           f == serving[r].file
           image == serving[r].image
           whole == disk[PathAsked(r)].image \in {NoImage, image}
<1>1. PICK p : p = PathAsked(r)
    OBVIOUS
<1>2. /\ serving[r].at = "writing" /\ serving' = [serving EXCEPT ![r] = s]
      /\ Store(p, image, whole)
      /\ UNCHANGED <<uploads, written, uploading, served, spoilt>>
    BY <1>1 DEF WriteCached
<1>3. ServerTyped /\ serving[r] \in ServingType /\ image \in ImageType
    BY DEF ServerInv, ServerTyped, ServingType
<1>4. GetsIts(serving[r])
    BY DEF ServerInv, RequestsGetTheirs
<1>5. /\ f \in Files /\ serving[r].query \in Queries /\ Made(serving[r]) /\ serving[r].whole
      /\ serving[r].sure => NameParams(serving[r].query) # AsUploaded
    BY <1>2, <1>4 DEF GetsIts
<1>6. whole \in BOOLEAN
    OBVIOUS
<1>7. p \in DOMAIN disk
      /\ (p \notin spoilt => /\ Writers(p) = {r} /\ disk[p].image = NoImage
                             /\ ~Combined(serving[r].query) /\ p.params # AsUploaded)
    BY <1>1, <1>2 DEF ServerInv, WritersAreAlone
<1>8. p \notin spoilt => whole
    BY <1>1, <1>7
<1>9. IsOf(image, f) /\ image.as = Transformed(serving[r].query) /\ image # NoImage
  <2>1. IsOf(image, f) /\ image.as = Transformed(serving[r].query)
      BY <1>5 DEF Made
  <2>2. image.upload # 0
      BY <1>3, <1>5, <2>1 DEF IsOf, ServerTyped
  <2> QED
      BY <2>1, <2>2 DEF NoImage
<1> HIDE DEF whole
<1>10. /\ DOMAIN disk' = DOMAIN disk
       /\ disk' \in [DOMAIN disk' -> [image : ImageType, whole : BOOLEAN]]
       /\ disk'[p] = [image |-> image, whole |-> whole]
       /\ \A d \in DOMAIN disk \ {p} : disk'[d] = disk[d]
  <2>1. /\ DOMAIN disk' = DOMAIN disk \cup {p}
        /\ disk' \in [DOMAIN disk' -> [image : ImageType, whole : BOOLEAN]]
        /\ disk'[p] = [image |-> image, whole |-> whole]
        /\ \A d \in DOMAIN disk \ {p} : disk'[d] = disk[d]
      BY <1>2, <1>3, <1>6, Stored
  <2>2. DOMAIN disk \cup {p} = DOMAIN disk
      BY <1>7
  <2> QED
      BY <2>1, <2>2
<1>11. /\ s \in ServingType /\ s.at = "served" /\ s.file = f
       /\ s.query = serving[r].query /\ s.image = image
       /\ s.whole = serving[r].whole /\ s.sure = serving[r].sure
    BY <1>3 DEF ServingType
<1> HIDE DEF s
<1>12. GetsIts(s)
  <2>1. s.sure => \E n \in written[s.file] : s.image = WantedBy(s.file, s.query, n)
      BY <1>3, <1>5, <1>11, MadeIsWanted
  <2> QED
      BY <1>5, <1>11, <2>1 DEF GetsIts
<1>13. /\ serving' \in [FileRequests -> ServingType] /\ RequestsGetTheirs'
       /\ serving'[r] = s /\ \A q \in FileRequests \ {r} : serving'[q] = serving[q]
       /\ \A q \in FileRequests : serving'[q].at = "writing" => PathAsked(q)' = PathAsked(q)
       /\ \A d : d # p => Writers(d)' = Writers(d)
    BY <1>1, <1>2, <1>11, <1>12, WriterSteps
<1>14. ServerTyped'
    BY <1>2, <1>3, <1>10, <1>13 DEF ServerTyped
<1>15. OriginalsAreTheirs'
  <2>1. ASSUME NEW g \in Files, g \in uploading
        PROVE  Original(g) \in DOMAIN disk' /\ LastOf(written[g]) \in written[g]
      BY <1>10, <2>1 DEF ServerInv, OriginalsAreTheirs
  <2>2. ASSUME NEW g \in Files, Original(g) \in DOMAIN disk'
        PROVE  LiesUnder(disk[Original(g)], g)'
    <3>1. CASE Original(g) = p
      <4>1. p \in spoilt
          BY <1>7, <3>1 DEF Original
      <4>2. f = g
          BY <1>1, <1>5, <3>1, OriginalPaths DEF PathAsked
      <4> QED
          BY <1>2, <1>9, <1>10, <3>1, <4>1, <4>2 DEF LiesUnder, IsOf
    <3>2. CASE Original(g) # p
        BY <1>2, <1>10, <2>2, <3>2, OriginalStands
    <3> QED
        BY <3>1, <3>2
  <2> QED
      BY <1>2, <2>1, <2>2 DEF OriginalsAreTheirs
<1>16. WritersAreAlone'
  <2> SUFFICES ASSUME NEW q \in FileRequests, serving'[q].at = "writing", NEW d, d = PathAsked(q)'
               PROVE  /\ d \in DOMAIN disk'
                      /\ d \notin spoilt =>
                            /\ Writers(d)' = {q} /\ disk'[d].image = NoImage
                            /\ ~Combined(serving'[q].query) /\ d.params # AsUploaded
      BY <1>2 DEF WritersAreAlone
  <2>1. d = PathAsked(q) /\ q # r
      BY <1>11, <1>13
  <2>2. serving'[q] = serving[q] /\ q \in Writers(d)
      BY <1>13, <2>1 DEF Writers
  <2>3. d = p => d \in spoilt /\ d \in DOMAIN disk'
      BY <1>7, <1>10, <2>1, <2>2
  <2>4. d # p => d \in DOMAIN disk /\ disk'[d] = disk[d] /\ Writers(d)' = Writers(d)
      BY <1>10, <1>13, <2>1, <2>2 DEF ServerInv, WritersAreAlone
  <2> QED
      BY <1>10, <2>1, <2>2, <2>3, <2>4 DEF ServerInv, WritersAreAlone
<1>17. CachedAreRight'
  <2> SUFFICES ASSUME NEW d \in DOMAIN disk \ spoilt, d.params # AsUploaded, Writers(d)' = {}
               PROVE  Right(d)'
      BY <1>2, <1>10 DEF CachedAreRight
  <2>1. CASE d = p
      BY SMTT(30), <1>1, <1>2, <1>5, <1>7, <1>8, <1>9, <1>10, <2>1 DEF Right, IsOf, PathAsked
  <2>2. CASE d # p
    <3>1. Right(d)
        BY <1>13, <2>2 DEF ServerInv, CachedAreRight
    <3> QED
        BY <1>2, <1>10, <2>2, <3>1 DEF Right, IsOf
  <2> QED
      BY <2>1, <2>2
<1> QED
    BY <1>13, <1>14, <1>15, <1>16, <1>17 DEF ServerInv

LEMMA WriteFailsKeeps ==
    ASSUME ServerInv, NEW r \in FileRequests, WriteFails(r) PROVE ServerInv'
<1>1. PICK p : p = PathAsked(r)
    OBVIOUS
<1>2. /\ serving[r].at = "writing" /\ serving' = [serving EXCEPT ![r] = NotServing]
      /\ spoilt' = spoilt \cup {p}
      /\ UNCHANGED <<disk, uploads, written, uploading, served>>
    BY <1>1 DEF WriteFails
<1>3. /\ serving' \in [FileRequests -> ServingType] /\ RequestsGetTheirs'
      /\ serving'[r] = NotServing /\ \A q \in FileRequests \ {r} : serving'[q] = serving[q]
      /\ \A q \in FileRequests : serving'[q].at = "writing" => PathAsked(q)' = PathAsked(q)
      /\ \A d : d # p => Writers(d)' = Writers(d)
    BY <1>1, <1>2, NotServingGets, WriterSteps
<1>4. ServerTyped'
    BY <1>2, <1>3 DEF ServerInv, ServerTyped
<1>5. OriginalsAreTheirs'
    BY <1>2 DEF ServerInv, OriginalsAreTheirs, LiesUnder, IsOf
<1>6. WritersAreAlone'
  <2> SUFFICES ASSUME NEW q \in FileRequests, serving'[q].at = "writing", NEW d, d = PathAsked(q)'
               PROVE  /\ d \in DOMAIN disk
                      /\ d \notin spoilt' =>
                            /\ Writers(d)' = {q} /\ disk[d].image = NoImage
                            /\ ~Combined(serving'[q].query) /\ d.params # AsUploaded
      BY <1>2 DEF WritersAreAlone
  <2>1. d = PathAsked(q) /\ serving'[q] = serving[q]
      BY <1>3, NotServingGets
  <2> QED
      BY <1>2, <1>3, <2>1 DEF ServerInv, WritersAreAlone
<1>7. CachedAreRight'
  <2> SUFFICES ASSUME NEW d \in DOMAIN disk \ spoilt', d.params # AsUploaded, Writers(d)' = {}
               PROVE  Right(d)'
      BY <1>2 DEF CachedAreRight
  <2>1. Right(d)
      BY <1>2, <1>3 DEF ServerInv, CachedAreRight
  <2> QED
      BY <1>2, <2>1 DEF Right, IsOf
<1> QED
    BY <1>3, <1>4, <1>5, <1>6, <1>7 DEF ServerInv

LEMMA ServerStep == ServerInv /\ [AssetServerNext]_serverVars => ServerInv'
<1> SUFFICES ASSUME ServerInv, [AssetServerNext]_serverVars PROVE ServerInv'
    OBVIOUS
<1>1. CASE \E f \in Files : BeginUpload(f) \/ EndUpload(f) \/ DeleteOriginal(f)
    BY <1>1, BeginUploadKeeps, EndUploadKeeps, DeleteOriginalKeeps
<1>2. CASE \E r \in FileRequests : ReadFile(r) \/ TransformOriginal(r) \/ ServingFails(r)
    BY <1>2, ReadFileKeeps, TransformKeeps, ServingFailsKeeps
<1>3. CASE \E r \in FileRequests : OpenCached(r) \/ WriteCached(r) \/ WriteFails(r)
    BY <1>3, OpenCachedKeeps, WriteCachedKeeps, WriteFailsKeeps
<1>4. CASE UNCHANGED serverVars
    BY <1>4 DEF serverVars, ServerInv, ServerTyped, OriginalsAreTheirs, LiesUnder, IsOf,
                RequestsGetTheirs, GetsIts, Made, WritersAreAlone, Writers, PathAsked,
                CachedAreRight, Right
<1> QED
    BY <1>1, <1>2, <1>3, <1>4 DEF AssetServerNext

\* sendAsset and generateTransformedImage: for any files, queries and requests that
\* overlap, a request is served a whole image of a file of the name it gave,
\* transformed as the documentation says of its parameters, but with the top left
\* taken for no focal point; save for the paths and moments ServedAsAsked leaves
\* out.
THEOREM AssetsAreServedAsAsked == AssetServerSpec => []ServedAsAsked
<1>1. ServerInv => ServedAsAsked
    BY DEF ServerInv, RequestsGetTheirs, GetsIts, ServedAsAsked, Gets, WantedBy
<1> QED
    BY InitServer, ServerStep, <1>1, PTL DEF AssetServerSpec

-----------------------------------------------------------------------------
(***************************************************************************)
(* The types of the sessions and of the files.                             *)
(***************************************************************************)
AtMostOne(entries) == \A c, d \in entries : c = d

\* Whatever is set() takes the place of what was there.
OneEntry == AtMostOne(cached) /\ AtMostOne(late)

LEMMA OneEntryStep == OneEntry /\ [SessionNext]_sessionVars => OneEntry'
<1> SUFFICES ASSUME OneEntry, [SessionNext]_sessionVars PROVE OneEntry'
    OBVIOUS
<1>1. ASSUME NEW c, CacheSet(c) PROVE OneEntry'
    BY <1>1 DEF CacheSet, OneEntry, AtMostOne
<1>2. CASE cached' \in {{}, cached, late} /\ late' \in {{}, late}
    BY <1>2 DEF OneEntry, AtMostOne
<1>3. CASE CreateNewAuthenticatedSession \/ \E r \in SessionReaders : CacheAndServe(r)
    BY <1>1, <1>3 DEF CreateNewAuthenticatedSession, CacheAndServe
<1>4. CASE LoadUser \/ EndLogin \/ DeleteSessionsByUser \/ EndDelete
    BY <1>2, <1>4 DEF LoadUser, EndLogin, DeleteSessionsByUser, CacheDelete, EndDelete
<1>5. CASE ClearSessionCacheOnDataChange \/ ChangePermissions \/ ArrivesLate \/ Tick
    BY <1>2, <1>5 DEF ClearSessionCacheOnDataChange, ChangePermissions, ArrivesLate, Tick
<1>6. CASE \E r \in SessionReaders : FindSessionByToken(r) \/ UpdateSessionExpiry(r)
    BY <1>2, <1>6 DEF FindSessionByToken, UpdateSessionExpiry
<1>7. CASE UNCHANGED sessionVars
    BY <1>2, <1>7 DEF sessionVars
<1> QED
    BY <1>3, <1>4, <1>5, <1>6, <1>7 DEF SessionNext

LEMMA OneHasCardinalityOne ==
    ASSUME NEW S, AtMostOne(S)
    PROVE  Cardinality(S) <= 1
<1>1. CASE S = {}
    BY <1>1, FS_EmptySet
<1>2. CASE S # {}
  <2>1. PICK c \in S : TRUE
      BY <1>2
  <2>2. S = {c}
      BY <2>1 DEF AtMostOne
  <2>3. Cardinality({c}) = 1
      BY FS_Singleton
  <2>4. Cardinality(S) = 1
      BY <2>2, <2>3
  <2> QED
      BY <2>4
<1> QED
    BY <1>1, <1>2

LEMMA SessionTypes == SessionInv /\ OneEntry => SessionTypeOK
<1> SUFFICES ASSUME SessionInv, OneEntry PROVE SessionTypeOK
    OBVIOUS
<1>1. SessionTyped
    BY DEF SessionInv
<1>2. CachedType \subseteq Entry
    BY SessionBounds DEF CachedType, Entry
<1>3. \A c \in {cached, late} : c \subseteq Entry /\ Cardinality(c) <= 1
  <2>1. cached \subseteq Entry /\ late \subseteq Entry
      BY <1>1, <1>2 DEF SessionTyped
  <2>2. Cardinality(cached) <= 1 /\ Cardinality(late) <= 1
      BY OneHasCardinalityOne DEF OneEntry
  <2> QED
      BY <2>1, <2>2
<1>4. ASSUME NEW c \in {login} \cup {reader[r] : r \in SessionReaders}
      PROVE  /\ c.at \in {"idle", "loaded", "miss", "extend", "serialize"}
             /\ c.at # "idle" => now <= c.since + MaxLag
  <2>1. c \in CallType
      BY <1>1, <1>4 DEF SessionTyped
  <2>2. Recent(c)
      BY <1>4 DEF SessionInv, CallsAreRecent
  <2> QED
      BY <2>1, <2>2 DEF CallType, Recent
<1>5. lastTrue.perms \in [0 .. MaxPermissions -> -1 .. MaxTime]
    BY <1>1 DEF SessionTyped
<1> QED
    BY <1>1, <1>3, <1>4, <1>5 DEF SessionTyped, SessionTypeOK

LEMMA SessionTypeInvariance == SessionSpec => []SessionTypeOK
<1>1. SessionInit => OneEntry
    BY DEF SessionInit, OneEntry, AtMostOne
<1> QED
    BY <1>1, InitSession, SessionStep, OneEntryStep, SessionTypes, PTL DEF SessionSpec

UploadsBounded == uploads <= MaxFileWrites

LEMMA UploadsStep == UploadsBounded /\ ServerInv /\ [AssetServerNext]_serverVars => UploadsBounded'
<1> SUFFICES ASSUME UploadsBounded, uploads \in Nat, [AssetServerNext]_serverVars PROVE UploadsBounded'
    BY DEF ServerInv, ServerTyped
<1>1. CASE UNCHANGED uploads
    BY <1>1 DEF UploadsBounded
<1>2. CASE \E f \in Files : BeginUpload(f)
    BY <1>2, AssetServerAssumption DEF BeginUpload, UploadsBounded
<1>3. CASE \E f \in Files : EndUpload(f) \/ DeleteOriginal(f)
    BY <1>1, <1>3 DEF EndUpload, DeleteOriginal
<1>4. CASE \E r \in FileRequests : ReadFile(r) \/ TransformOriginal(r) \/ ServingFails(r)
    BY <1>1, <1>4 DEF ReadFile, TransformOriginal, ServingFails
<1>5. CASE \E r \in FileRequests : OpenCached(r) \/ WriteCached(r) \/ WriteFails(r)
    BY <1>1, <1>5 DEF OpenCached, WriteCached, WriteFails
<1>6. CASE UNCHANGED serverVars
    BY <1>1, <1>6 DEF serverVars
<1> QED
    BY <1>2, <1>3, <1>4, <1>5, <1>6 DEF AssetServerNext

LEMMA ServerTypes == ServerInv /\ UploadsBounded => AssetServerTypeOK
<1> SUFFICES ASSUME ServerInv, UploadsBounded PROVE AssetServerTypeOK
    OBVIOUS
<1>1. ServerTyped
    BY DEF ServerInv
<1>2. ASSUME NEW p \in DOMAIN disk
      PROVE  disk[p].whole \in BOOLEAN /\ disk[p].image.of \in Files \cup {NoFile}
  <2>1. disk[p] \in [image : ImageType, whole : BOOLEAN]
      BY <1>1 DEF ServerTyped
  <2> QED
      BY <2>1 DEF ImageType
<1>3. uploads \in 0 .. MaxFileWrites
    BY <1>1, AssetServerAssumption DEF ServerTyped, UploadsBounded
<1>4. ASSUME NEW r \in FileRequests
      PROVE  /\ serving[r].at \in {"idle", "missed", "transformed", "writing", "served"}
             /\ serving[r].at # "idle" => serving[r].query \in Queries
  <2>1. serving[r] \in ServingType /\ GetsIts(serving[r])
      BY <1>1 DEF ServerTyped, ServerInv, RequestsGetTheirs
  <2> QED
      BY <2>1 DEF ServingType, GetsIts
<1> QED
    BY <1>1, <1>2, <1>3, <1>4 DEF ServerTyped, AssetServerTypeOK

LEMMA ServerTypeInvariance == AssetServerSpec => []AssetServerTypeOK
<1>1. AssetServerInit => UploadsBounded
    BY AssetServerAssumption DEF AssetServerInit, UploadsBounded
<1> QED
    BY <1>1, InitServer, ServerStep, UploadsStep, ServerTypes, PTL DEF AssetServerSpec

-----------------------------------------------------------------------------
(***************************************************************************)
(* All of them together: a behaviour in which one of the components moves  *)
(* is a behaviour of each of them, and so has the properties of all.       *)
(***************************************************************************)
LEMMA StrategiesStep ==
    [Next]_vars => /\ [MemoryQueueNext]_memoryQueueVars /\ [BuffersNext]_bufferVars
                   /\ [SessionNext]_sessionVars /\ [AssetServerNext]_serverVars
BY DEF Next, vars

\* What is proved of the strategies one at a time holds of them together.
THEOREM StrategiesAreIndependent ==
    Spec => MemorySpec /\ BuffersSpec /\ SessionSpec /\ AssetServerSpec
<1>1. Init => MemoryQueueInit /\ BuffersInit /\ SessionInit /\ AssetServerInit
    BY DEF Init
<1> QED
    BY <1>1, StrategiesStep, PTL DEF Spec, MemorySpec, BuffersSpec, SessionSpec, AssetServerSpec

\* Every variable of the in-memory queue, the buffers, the sessions and the asset
\* server has its type, for any number of jobs, flushes, requests and files.
THEOREM StrategiesTypeCorrect == Spec => []TypeOK
<1>1. /\ MemorySpec => []MemoryQueueTypeOK
      /\ BuffersSpec => []BuffersTypeOK
    BY MemoryTypeCorrect, BuffersTypeCorrect
<1> QED
    BY <1>1, StrategiesAreIndependent, SessionTypeInvariance, ServerTypeInvariance, PTL DEF TypeOK
=============================================================================
