---------------------------- MODULE Transactions ----------------------------
(***************************************************************************)
(* TransactionWrapper.executeInTransaction, the TransactionSubscriber and  *)
(* the delivery of events by the EventBus.                                 *)
(*                                                                         *)
(* A request calls executeInTransaction (the @Transaction() interceptor),  *)
(* and its work may call it again (withTransaction with its ctx).  Each    *)
(* call runs on the query runner found in the ctx: the outermost one       *)
(* starts a transaction, an inner one a savepoint.  An event published by  *)
(* the work is held back until the query runner has no transaction.        *)
(*                                                                         *)
(* A call that resolves promises that its work is committed, or shares the *)
(* fate of the call around it; one that rejects, that it is rolled back.   *)
(* `fate' and `unit' keep this promise, from the outcomes of the calls     *)
(* alone; the properties compare it with the database and the events.      *)
(***************************************************************************)
EXTENDS Naturals, Sequences

CONSTANTS
    Requests,       \* requests, the calls of one of which are nested
    MaxCalls,       \* bound: MaxCalls[r] calls of executeInTransaction by r
    Shared,         \* the driver has one query runner for all (SQLite, sql.js)
    AbortsOnError,  \* a failed statement aborts the transaction (PostgreSQL)
    CatchesErrors   \* the work may catch the error of a failed statement

ASSUME CallsAssumption == MaxCalls \in [Requests -> Nat]
ASSUME DriverAssumption == {Shared, AbortsOnError, CatchesErrors} \subseteq BOOLEAN

Call == UNION {{r} \X (1 .. MaxCalls[r]) : r \in Requests}
Fate == {"unknown", "open", "kept", "undone"}
EventState == {"none", "waiting", "due", "delivered", "dropped"}

QueryRunner(r) == IF Shared THEN "connection" ELSE r
QueryRunners == {QueryRunner(r) : r \in Requests}

VARIABLES
    stack,      \* stack[r]: the calls of request r that have not ended
    begun,      \* begun[r]: how many calls r has made
    failing,    \* requests whose innermost work has rejected
    levels,     \* levels[x]: the writes since START TRANSACTION and since each
                \* SAVEPOINT of query runner x; its length is transactionDepth
    aborted,    \* aborted[x]: the database refuses statements until a rollback
    committed,  \* calls whose writes are committed
    event,      \* event[c]: the event published by the work of call c
    wrote,      \* history: the calls that have written
    unit,       \* history: unit[c] is the call whose fate the work of c shares
    fate        \* history: fate[c]: what the callers were told of it

database == <<levels, aborted, committed>>
promise == <<unit, fate>>
vars == <<stack, begun, failing, levels, aborted, committed, event, wrote, unit, fate>>

TypeOK ==
    /\ stack \in [Requests -> Seq(Call)]
    /\ begun \in [Requests -> Nat] /\ \A r \in Requests : begun[r] <= MaxCalls[r]
    /\ failing \subseteq Requests
    /\ levels \in [QueryRunners -> Seq(SUBSET Call)]
    /\ aborted \in [QueryRunners -> BOOLEAN]
    /\ committed \subseteq wrote /\ wrote \subseteq Call
    /\ event \in [Call -> EventState]
    /\ unit \in [Call -> Call] /\ fate \in [Call -> Fate]
    /\ \A r \in failing : stack[r] # <<>>

Init ==
    /\ stack = [r \in Requests |-> <<>>]
    /\ begun = [r \in Requests |-> 0]
    /\ failing = {}
    /\ levels = [x \in QueryRunners |-> <<>>]
    /\ aborted = [x \in QueryRunners |-> FALSE]
    /\ committed = {} /\ wrote = {}
    /\ event = [c \in Call |-> "none"]
    /\ unit = [c \in Call |-> c]
    /\ fate = [c \in Call |-> "unknown"]

Innermost(s) == s[Len(s)]
Without(s) == SubSeq(s, 1, Len(s) - 1)

\* The innermost work of r runs: it has not rejected.
Executing_AfterError(r) == stack[r] # <<>>
Executing(r) == stack[r] # <<>> /\ r \notin failing

Depth(r) == Len(levels[QueryRunner(r)])

-----------------------------------------------------------------------------
(* The work.                                                               *)

\* startTransaction.  Where the transaction is aborted the SAVEPOINT is refused
\* and the call rejects before there is anything to roll back.
Begin(r) ==
    /\ begun[r] < MaxCalls[r] /\ r \notin failing
    /\ begun' = [begun EXCEPT ![r] = @ + 1]
    /\ LET x == QueryRunner(r)
           call == <<r, begun[r] + 1>>
       IN IF aborted[x]
          THEN /\ fate' = [fate EXCEPT ![call] = "undone"]
               /\ UNCHANGED <<stack, levels>>
          ELSE /\ fate' = [fate EXCEPT ![call] = "open"]
               /\ stack' = [stack EXCEPT ![r] = Append(@, call)]
               /\ levels' = [levels EXCEPT ![x] = Append(@, {})]
    /\ UNCHANGED <<failing, aborted, committed, event, wrote, unit>>

Write(r) ==
    /\ Executing(r) /\ Innermost(stack[r]) \notin wrote
    /\ LET x == QueryRunner(r)
           call == Innermost(stack[r])
       IN /\ ~aborted[x]
          /\ levels' = [levels EXCEPT ![x][Depth(r)] = @ \cup {call}]
          /\ wrote' = wrote \cup {call}
    /\ UNCHANGED <<stack, begun, failing, aborted, committed, event, promise>>

\* A deadlock is not different: retryWhen subscribes again to the promise of
\* work(ctx), which has rejected, and gives up.
StatementFails(r) ==
    /\ Executing(r)
    /\ aborted' = [aborted EXCEPT ![QueryRunner(r)] = @ \/ AbortsOnError]
    /\ \/ failing' = failing \cup {r}
       \/ CatchesErrors /\ failing' = failing
    /\ UNCHANGED <<stack, begun, levels, committed, event, wrote, promise>>

\* The work throws, in a check, in a blocking event handler, or because it
\* does not catch what a call in it has thrown.
WorkFails(r) ==
    /\ Executing(r)
    /\ failing' = failing \cup {r}
    /\ UNCHANGED <<stack, begun, database, event, wrote, promise>>

\* EventBus.publish: awaitActiveTransactions finds the query runner in the ctx.
Publish(r) ==
    /\ Executing(r)
    /\ event[Innermost(stack[r])] = "none"
    /\ event' = [event EXCEPT ![Innermost(stack[r])] = "waiting"]
    /\ UNCHANGED <<stack, begun, failing, database, wrote, promise>>

-----------------------------------------------------------------------------
(* The end of a call.                                                      *)

\* awaitTransactionEvent: what a commit or rollback of x means to the events
\* that wait for x.  Savepoints leave isTransactionActive set.
IsTransactionActive_Ignored(x) == FALSE
IsTransactionActive(x) == Len(levels[x]) > 1

OnRollback_Unnoticed == "waiting"
OnRollback == "dropped"

Notify(x, state) ==
    event' = [c \in Call |->
                 IF ~IsTransactionActive(x) /\ QueryRunner(c[1]) = x /\ event[c] = "waiting"
                 THEN state ELSE event[c]]

\* The innermost call of r has ended, and with it the work that shares its fate.
Ends(r, outcome) ==
    /\ stack' = [stack EXCEPT ![r] = Without(@)]
    /\ fate' = [c \in Call |-> IF unit[c] = Innermost(stack[r]) THEN outcome ELSE fate[c]]
    /\ UNCHANGED unit

\* It has resolved inside another call, whose fate its work shares from now on.
Joins(r) ==
    /\ stack' = [stack EXCEPT ![r] = Without(@)]
    /\ unit' = [c \in Call |-> IF unit[c] = Innermost(stack[r])
                               THEN Innermost(Without(stack[r])) ELSE unit[c]]
    /\ UNCHANGED fate

Resolves(r) == IF Len(stack[r]) = 1 THEN Ends(r, "kept") ELSE Joins(r)

\* The work has resolved inside another transaction: RELEASE SAVEPOINT, which an
\* aborted transaction refuses.
Merged(s) == Append(Without(Without(s)), Innermost(Without(s)) \cup Innermost(s))

ReleaseSavepoint(r) ==
    /\ Executing(r) /\ Depth(r) > 1
    /\ LET x == QueryRunner(r) IN
       IF aborted[x]
       THEN /\ failing' = failing \cup {r}
            /\ UNCHANGED <<stack, levels, event, promise>>
       ELSE /\ levels' = [levels EXCEPT ![x] = Merged(@)]
            /\ Resolves(r) /\ Notify(x, "due")
            /\ UNCHANGED failing
    /\ UNCHANGED <<begun, aborted, committed, wrote>>

\* The outermost work has resolved: COMMIT.  PostgreSQL answers the COMMIT of an
\* aborted transaction with a rollback, and no error.
CommitTransaction(r) ==
    /\ Executing(r) /\ Depth(r) = 1
    /\ LET x == QueryRunner(r) IN
       /\ committed' = IF aborted[x] THEN committed ELSE committed \cup levels[x][1]
       /\ levels' = [levels EXCEPT ![x] = <<>>]
       /\ aborted' = [aborted EXCEPT ![x] = FALSE]
       /\ Notify(x, "due")
    /\ Resolves(r)
    /\ UNCHANGED <<begun, failing, wrote>>

\* The COMMIT fails (a deferred constraint): the database has rolled back.
CommitFails(r) ==
    /\ Executing(r) /\ Depth(r) = 1
    /\ levels' = [levels EXCEPT ![QueryRunner(r)] = <<{}>>]
    /\ aborted' = [aborted EXCEPT ![QueryRunner(r)] = FALSE]
    /\ failing' = failing \cup {r}
    /\ UNCHANGED <<stack, begun, committed, event, wrote, promise>>

\* The work has rejected: ROLLBACK, or ROLLBACK TO SAVEPOINT.
AfterError_Continues(s) ==
    IF Len(s) = 1 THEN <<>>
    ELSE Append(Without(Without(s)), Innermost(Without(s)) \cup Innermost(s))
AfterError_Leaves(s) == s
AfterError(s) == Without(s)

Rollback(r) ==
    /\ r \in failing
    /\ LET x == QueryRunner(r) IN
       /\ levels' = [levels EXCEPT ![x] = AfterError(@)]
       /\ aborted' = [aborted EXCEPT ![x] = FALSE]
       /\ Notify(x, OnRollback)
    /\ Ends(r, "undone")
    /\ failing' = failing \ {r}
    /\ UNCHANGED <<begun, committed, wrote>>

\* The subscribers receive the event, with a ctx without the query runner.
Deliver(c) ==
    /\ event[c] = "due"
    /\ event' = [event EXCEPT ![c] = "delivered"]
    /\ UNCHANGED <<stack, begun, failing, database, wrote, promise>>

EndCall(r) ==
    ReleaseSavepoint(r) \/ CommitTransaction(r) \/ CommitFails(r) \/ Rollback(r)

RequestStep(r) ==
    \/ Begin(r) \/ Write(r) \/ StatementFails(r) \/ WorkFails(r) \/ Publish(r)
    \/ EndCall(r)

Next == (\E r \in Requests : RequestStep(r)) \/ (\E c \in Call : Deliver(c))

Spec == Init /\ [][Next]_vars

\* Work ends and its call with it; the timer of delay(0) fires.
Fairness ==
    /\ \A r \in Requests : WF_vars(EndCall(r))
    /\ \A c \in Call : WF_vars(Deliver(c))

FairSpec == Spec /\ Fairness

-----------------------------------------------------------------------------
(* Properties.                                                             *)

\* transaction-wrapper.ts:17-19: "If the `work` function resolves / completes,
\* then all the DB operations it contains will be committed.  If it throws an
\* error or rejects, then all DB operations will be rolled back."
CommittedAsPromised ==
    \A c \in wrote : c \in committed <=> fate[c] = "kept"

\* Atomicity, whatever the work does with its errors: nothing is committed of a
\* call that has rejected, or that runs inside one that has, and the work of a
\* transaction and of the nested calls it has kept is committed as a whole.
AllOrNothing ==
    /\ \A c \in committed : fate[c] = "kept"
    /\ \A c, d \in wrote : unit[c] = unit[d] => (c \in committed <=> d \in committed)

\* No subscriber hears of work that has not ended, and no event of work that
\* was kept is dropped or held back: awaitCommit waits for the end of the
\* outermost transaction of the same query runner, not for a savepoint.  (An
\* event of a call that was rolled back to its savepoint is delivered when the
\* outermost transaction commits.)
EventsFollowTransaction ==
    \A c \in Call :
        /\ event[c] \in {"due", "delivered"} => fate[c] \in {"kept", "undone"}
        /\ fate[c] = "kept" => event[c] \notin {"waiting", "dropped"}

\* A request that has ended gives the connection back without a transaction,
\* whatever its work and its nested calls have left behind.
ConnectionIsClean ==
    \A x \in QueryRunners :
        (\A r \in Requests : QueryRunner(r) = x => stack[r] = <<>>)
            => levels[x] = <<>> /\ ~aborted[x]

\* An event is not held back for ever: its transaction ends, with whatever
\* outcome, and the event bus notices.
EventsAreSettled ==
    \A c \in Call : event[c] \in {"waiting", "due"} ~> event[c] \in {"delivered", "dropped"}
=============================================================================
