----------------------------- MODULE MCJobQueue -----------------------------
(***************************************************************************)
(* Small instances of JobQueue.                                            *)
(***************************************************************************)
EXTENDS JobQueue, TLC

CONSTANTS w1, w2

\* Workers are interchangeable: no action or invariant compares two of them.
WorkerSymmetry == Permutations(Workers)
=============================================================================
