---------------------------- MODULE MCStrategies ----------------------------
(***************************************************************************)
(* Small instances of what stands on a strategy of the configuration: the  *)
(* in-memory job queue, the job buffers, the sessions behind their cache   *)
(* and the files of the asset server.  They share no state: in a behaviour *)
(* only the one that `moving' names takes steps.                           *)
(***************************************************************************)
EXTENDS InMemoryJobQueue, JobBuffers, SessionCache, AssetServer, TLC

CONSTANTS searchBuffer, collectionBuffer, Moving

VARIABLE moving

MCWorkOf == (1 :> {"p"}) @@ (2 :> {"p", "q"})
MCCollectedBy == (1 :> {searchBuffer, collectionBuffer}) @@ (2 :> {searchBuffer})
MCFlushIds == {{searchBuffer}, {}}
MCFiles == {[base |-> "a", ext |-> "jpg"], [base |-> "a", ext |-> "webp"]}
Plain == [size |-> "none", preset |-> "none", mode |-> "none", focus |-> "none",
          format |-> "none", cache |-> TRUE]
MCQueries ==
    {Plain, [Plain EXCEPT !.size = "w h"], [Plain EXCEPT !.size = "w h", !.preset = "tiny"],
     [Plain EXCEPT !.size = "w h", !.focus = "right"],
     [Plain EXCEPT !.size = "w h", !.focus = "origin"],
     [Plain EXCEPT !.format = "png"], [Plain EXCEPT !.format = "png", !.cache = FALSE]}

vars == <<memoryQueueVars, bufferVars, sessionVars, serverVars, moving>>

TypeOK == MemoryQueueTypeOK /\ BuffersTypeOK /\ SessionTypeOK /\ AssetServerTypeOK

Init ==
    /\ MemoryQueueInit /\ BuffersInit /\ SessionInit /\ AssetServerInit
    /\ moving \in Moving

Next ==
    /\ UNCHANGED moving
    /\ \/ /\ moving = "queue" /\ MemoryQueueNext
          /\ UNCHANGED <<bufferVars, sessionVars, serverVars>>
       \/ /\ moving = "buffers" /\ BuffersNext
          /\ UNCHANGED <<memoryQueueVars, sessionVars, serverVars>>
       \/ /\ moving = "sessions" /\ SessionNext
          /\ UNCHANGED <<memoryQueueVars, bufferVars, serverVars>>
       \/ /\ moving = "files" /\ AssetServerNext
          /\ UNCHANGED <<memoryQueueVars, bufferVars, sessionVars>>
       \* The bounds are no deadlock.
       \/ moving = "sessions" /\ now = MaxTime /\ UNCHANGED vars
       \/ moving = "files" /\ served = MaxServed /\ UNCHANGED vars

Spec == Init /\ [][Next]_vars

\* The timer fires, the delay passes, and process functions end.  Nothing is asked
\* of a behaviour in which something else moves.
FairSpec ==
    /\ Spec
    /\ WF_memoryQueueVars(moving = "queue" /\ MemoryQueueLoop)
    /\ \A j \in MemoryJobs : /\ WF_memoryQueueVars(moving = "queue" /\ BackoffPasses(j))
                             /\ WF_memoryQueueVars(moving = "queue" /\ FinishInMemory(j))
=============================================================================
