--------------------------- MODULE MCTransactions ---------------------------
(***************************************************************************)
(* Small instances of Transactions: a request with several calls, nested   *)
(* or one after the other, and another one beside it.                      *)
(***************************************************************************)
EXTENDS Transactions, TLC

CONSTANTS r1, r2

MCMaxCalls == (r1 :> 2) @@ (r2 :> 1)
=============================================================================
