----------------------------- MODULE MCServices -----------------------------
(***************************************************************************)
(* Small instances of the services beside the job queue, the job posts and *)
(* the transactions.  They share no state: in a behaviour only the one     *)
(* that `moving' names takes steps, so that the states are those of the    *)
(* one or the other and never their product.                               *)
(***************************************************************************)
EXTENDS BalanceLedger, Accounts, Collections, Assets, Caches, BlockingHandlers,
        Administrators

CONSTANTS
    r1, r2, d1, d2, n1, n2, n3

VARIABLE moving

MCAmounts == {5, -2}

servicesVars == <<ledgerVars, accountVars, treeVars, assetVars, cacheVars,
                  handlerVars, adminVars>>

TypeOK ==
    /\ LedgerTypeOK /\ AccountsTypeOK /\ TreeTypeOK
    /\ AssetTypeOK /\ CacheTypeOK /\ HandlersTypeOK /\ AdminsTypeOK

Init ==
    /\ LedgerInit /\ AccountsInit /\ TreeInit
    /\ AssetInit /\ CacheInit /\ HandlersInit /\ AdminsInit
    /\ moving \in {"ledger", "accounts", "collections", "assets", "caches", "handlers",
                   "administrators"}
    \* What stands still stands in one of its initial states.
    /\ moving # "accounts" => db["identifier"] = d1 /\ issued = 1
    /\ moving # "collections" => Alive = {}
    /\ moving # "caches" => ~inSql
    \* In the first tree only a collection between two others may stop inheriting.
    /\ \A c \in Nodes :
          \/ row[c].inherits
          \/ row[c].parent \in Nodes /\ \E d \in Nodes : row[d].parent = c

Next ==
    /\ UNCHANGED moving
    /\ \/ /\ moving = "ledger" /\ LedgerNext
          /\ UNCHANGED <<accountVars, treeVars, assetVars, cacheVars, handlerVars, adminVars>>
       \/ /\ moving = "accounts" /\ AccountsNext
          /\ UNCHANGED <<ledgerVars, treeVars, assetVars, cacheVars, handlerVars, adminVars>>
       \/ /\ moving = "collections" /\ TreeNext
          /\ UNCHANGED <<ledgerVars, accountVars, assetVars, cacheVars, handlerVars, adminVars>>
       \/ /\ moving = "assets" /\ AssetNext
          /\ UNCHANGED <<ledgerVars, accountVars, treeVars, cacheVars, handlerVars, adminVars>>
       \/ /\ moving = "caches" /\ CacheNext
          /\ UNCHANGED <<ledgerVars, accountVars, treeVars, assetVars, handlerVars, adminVars>>
       \/ /\ moving = "handlers" /\ HandlersNext
          /\ UNCHANGED <<ledgerVars, accountVars, treeVars, assetVars, cacheVars, adminVars>>
       \/ /\ moving = "administrators" /\ AdminsNext
          /\ UNCHANGED <<ledgerVars, accountVars, treeVars, assetVars, cacheVars, handlerVars>>

Spec == Init /\ [][Next]_<<servicesVars, moving>>

\* Each of the three is a set of constants or shares no element with it.
Symmetry == Permutations({r1, r2}) \cup Permutations({d1, d2}) \cup Permutations({n1, n2, n3})
=============================================================================
