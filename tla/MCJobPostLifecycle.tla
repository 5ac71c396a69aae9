------------------------- MODULE MCJobPostLifecycle -------------------------
(***************************************************************************)
(* Small instances of JobPostLifecycle.                                    *)
(***************************************************************************)
EXTENDS JobPostLifecycle, TLC

CONSTANTS r1, r2, r3, c1, c2, s1, s2

\* Requests, categories and skills are compared for equality only.
Symmetry == Permutations(Requests) \cup Permutations(Categories)
                \cup Permutations(Skills)
=============================================================================
