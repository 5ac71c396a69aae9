---------------------------- MODULE BalanceLedger ----------------------------
(***************************************************************************)
(* BalanceService: entries are created, and settled by the subscriber of   *)
(* their event.  A settlement continues the latest settled entry: it reads *)
(* that one, stamps itself with the time, and is written with its COMMIT   *)
(* when the CHECKs of the table hold.  Nothing is locked.                  *)
(*                                                                         *)
(* entry.customer is not loaded, and TypeORM leaves a condition that is    *)
(* undefined out: all customers share one chain, so they are left out.     *)
(***************************************************************************)
EXTENDS Integers, FiniteSets, FiniteSetsExt

CONSTANTS
    Entries,   \* the entries that may be created
    Amounts,   \* values of credit - debit
    MaxClock   \* bound: milliseconds of the clock

ASSUME LedgerAssumption == Amounts \subseteq Int /\ MaxClock \in Nat

VARIABLES
    entry,      \* entry[e]: the row of e
    settling,   \* settling[e]: a settlement in progress
    clock,      \* new Date(); it may stand still between two settlements
    overlapped  \* history: two settlements were in progress at a time

ledgerVars == <<entry, settling, clock, overlapped>>

Null == [balance |-> 0, settledAt |-> -1]   \* there is no previous entry
NoEntry == [at |-> "none", amount |-> 0, balance |-> 0, settledAt |-> -1, prev |-> Null]
NotSettling == [on |-> FALSE, prev |-> Null, since |-> 0]

Settled == {e \in Entries : entry[e].at = "settled"}
Settling == {e \in Entries : settling[e].on}
Reading == [balance : Int, settledAt : -1 .. MaxClock]

LedgerTypeOK ==
    /\ entry \in [Entries -> [at : {"none", "new", "pending", "settled"},
                              amount : Int, balance : Int,
                              settledAt : -1 .. MaxClock, prev : Reading]]
    /\ settling \in [Entries -> [on : BOOLEAN, prev : Reading, since : 0 .. MaxClock]]
    /\ clock \in 0 .. MaxClock
    /\ overlapped \in BOOLEAN

LedgerInit ==
    /\ entry = [e \in Entries |-> NoEntry]
    /\ settling = [e \in Entries |-> NotSettling]
    /\ clock = 0
    /\ overlapped = FALSE

\* An entry with review days is not eligible when its event is delivered, and
\* nothing tries again: "pending" is for ever.
CreateEntry(e) ==
    /\ entry[e].at = "none"
    /\ \E a \in Amounts, at \in {"new", "pending"} :
          entry' = [entry EXCEPT ![e].at = at, ![e].amount = a]
    /\ UNCHANGED <<settling, clock, overlapped>>

\* getLatestSettledEntry: committed rows, the last one in the order of settledAt.
Latest_First == {e \in Settled : \A f \in Settled : entry[e].settledAt <= entry[f].settledAt}
Latest == {e \in Settled : \A f \in Settled : entry[f].settledAt <= entry[e].settledAt}

Previous ==
    IF Latest = {} THEN {Null}
    ELSE {[balance |-> entry[f].balance, settledAt |-> entry[f].settledAt] : f \in Latest}

BeginSettlement(e) ==
    /\ entry[e].at = "new" /\ ~settling[e].on
    /\ \E p \in Previous :
          settling' = [settling EXCEPT ![e] = [on |-> TRUE, prev |-> p, since |-> clock]]
    /\ overlapped' = (overlapped \/ Settling # {})
    /\ UNCHANGED <<entry, clock>>

\* The event is never handled, or the settlement is refused by a CHECK or lost.
SettlementFails(e) ==
    /\ entry[e].at = "new"
    /\ entry' = [entry EXCEPT ![e].at = "pending"]
    /\ settling' = [settling EXCEPT ![e] = NotSettling]
    /\ UNCHANGED <<clock, overlapped>>

\* CHECK ("prevSettledAt" < "settledAt"): not twice in one millisecond.
InOrder_Lax(p, now) == p.settledAt <= now
InOrder(p, now) == p.settledAt < now

CommitSettlement(e) ==
    LET p == settling[e].prev IN
    /\ settling[e].on
    /\ \E now \in settling[e].since .. clock :
          /\ InOrder(p, now)
          /\ entry' = [entry EXCEPT ![e].at = "settled",
                                    ![e].prev = p,
                                    ![e].balance = p.balance + entry[e].amount,
                                    ![e].settledAt = now]
    /\ settling' = [settling EXCEPT ![e] = NotSettling]
    /\ UNCHANGED <<clock, overlapped>>

ClockTicks ==
    /\ clock < MaxClock
    /\ clock' = clock + 1
    /\ UNCHANGED <<entry, settling, overlapped>>

LedgerNext ==
    \/ \E e \in Entries : \/ CreateEntry(e) \/ BeginSettlement(e)
                          \/ SettlementFails(e) \/ CommitSettlement(e)
    \/ ClockTicks

-----------------------------------------------------------------------------
\* Whatever settlements overlap: a settled entry continues an entry that is
\* settled and earlier, and its balance is the balance of that one plus its
\* own amount.  So every balance is the sum along a chain without cycles.
ChainAddsUp ==
    \A e \in Settled :
       LET p == entry[e].prev IN
       /\ p.settledAt < entry[e].settledAt
       /\ entry[e].balance = p.balance + entry[e].amount
       /\ p # Null => \E f \in Settled : /\ entry[f].settledAt = p.settledAt
                                         /\ entry[f].balance = p.balance

\* As long as no two settlements overlap, the latest balance is the sum of all
\* the amounts that were settled: no entry is left out of the chain and none
\* is counted twice, although the clock may stand still between them.
LatestIsTotal ==
    ~overlapped =>
       \A e \in Latest :
          entry[e].balance = MapThenSumSet(LAMBDA f : entry[f].amount, Settled)
=============================================================================
