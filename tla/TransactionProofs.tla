------------------------- MODULE TransactionProofs -------------------------
(***************************************************************************)
(* Proofs about Transactions, for a driver that gives every request a      *)
(* query runner of its own (~Shared).                                      *)
(*                                                                         *)
(* What the database holds between START TRANSACTION and COMMIT, savepoint *)
(* by savepoint, is the writes whose fate hangs on the call that opened    *)
(* that level (LevelsHoldUnits).  Only the innermost level of a request    *)
(* that fails may differ, and that one is thrown away.                     *)
(***************************************************************************)
EXTENDS Transactions, TLAPS

\* The stack of a request and the savepoints of its query runner agree.
StacksMatch ==
    \A r \in Requests :
        /\ Len(levels[r]) = Len(stack[r])
        /\ \A i \in 1 .. Len(stack[r]) :
              stack[r][i][1] = r /\ unit[stack[r][i]] = stack[r][i]
        /\ \A i, j \in 1 .. Len(stack[r]) : stack[r][i] = stack[r][j] => i = j
        /\ aborted[r] => stack[r] # <<>>

\* A call that has not begun has no history; one that has is tied to one that has.
HistoryOfBegun ==
    \A c \in Call :
        IF c[2] <= begun[c[1]]
        THEN fate[c] # "unknown" /\ unit[c][2] <= begun[c[1]]
        ELSE fate[c] = "unknown" /\ unit[c] = c /\ c \notin wrote /\ event[c] = "none"

\* A fate is open as long as the call it hangs on has not ended.
OpenOnStack ==
    \A c \in Call :
        /\ unit[c][1] = c[1]
        /\ fate[c] = "open" <=> \E i \in 1 .. Len(stack[c[1]]) : unit[c] = stack[c[1]][i]

LevelsHoldUnits ==
    \A r \in Requests : \A i \in 1 .. Len(stack[r]) :
        i < Len(stack[r]) \/ r \notin failing
            => levels[r][i] = {c \in wrote : unit[c] = stack[r][i]}

\* Of the events: what has become of them agrees with what became of the work.
EventsMatch ==
    \A c \in Call :
        /\ event[c] = "dropped" => fate[c] = "undone"
        /\ event[c] = "waiting" => fate[c] # "kept"
        /\ event[c] \in {"due", "delivered"} => fate[c] \in {"kept", "undone"}

Invariant ==
    /\ TypeOK /\ StacksMatch /\ HistoryOfBegun /\ OpenOnStack /\ LevelsHoldUnits
    /\ AllOrNothing /\ EventsMatch

-----------------------------------------------------------------------------
(* Facts about calls and stacks.                                           *)

\* A call is a request and a number, no larger than its bound.
LEMMA CallParts ==
    \A c \in Call : /\ c[1] \in Requests /\ c[2] \in Nat \ {0} /\ c = <<c[1], c[2]>>
                    /\ c[2] <= MaxCalls[c[1]]
BY CallsAssumption DEF Call

\* The calls are the pairs of a request and a number up to its bound.
LEMMA CallMade ==
    \A r \in Requests : \A n \in 1 .. MaxCalls[r] : <<r, n>> \in Call
BY CallsAssumption DEF Call

\* Without drops the last element.
LEMMA WithoutLast ==
    ASSUME NEW S, NEW s \in Seq(S), s # <<>>
    PROVE  /\ Without(s) \in Seq(S)
           /\ Len(s) \in Nat \ {0} /\ Len(Without(s)) = Len(s) - 1
           /\ \A i \in 1 .. Len(s) - 1 : Without(s)[i] = s[i]
           /\ Innermost(s) \in S /\ Innermost(s) = s[Len(s)]
           /\ (Len(s) > 1 => /\ Without(s) # <<>>
                             /\ Innermost(Without(s)) = s[Len(s) - 1])
<1>1. Len(s) \in Nat \ {0}
  OBVIOUS
<1>2. /\ Without(s) \in Seq(S) /\ Len(Without(s)) = Len(s) - 1
      /\ \A i \in 1 .. Len(s) - 1 : Without(s)[i] = s[i]
  <2> DEFINE n == Len(s) - 1
  <2>1. n \in Nat /\ \A i \in 1 .. n : s[i] \in S
    BY <1>1
  <2>2. Without(s) = SubSeq(s, 1, n)
    BY DEF Without
  <2> HIDE DEF n
  <2> DEFINE t == SubSeq(s, 1, n)
  <2>3. /\ t \in Seq(S) /\ Len(t) = IF 1 <= n THEN n - 1 + 1 ELSE 0
        /\ \A i \in 1 .. n - 1 + 1 : t[i] = s[1 + i - 1]
    BY <2>1
  <2> HIDE DEF t
  <2>4. Len(t) = n /\ \A i \in 1 .. n : t[i] = s[i]
    BY <2>1, <2>3
  <2> QED  BY <2>2, <2>3, <2>4 DEF n, t
<1>3. Innermost(s) \in S /\ Innermost(s) = s[Len(s)]
  BY <1>1 DEF Innermost
<1>4. Len(s) > 1 => Without(s) # <<>> /\ Innermost(Without(s)) = s[Len(s) - 1]
  BY <1>1, <1>2 DEF Innermost
<1> QED
  BY <1>1, <1>2, <1>3, <1>4

\* Merged puts the writes of the last savepoint into the one before it.
LEMMA MergedLevels ==
    ASSUME NEW S, NEW s \in Seq(SUBSET S), Len(s) > 1
    PROVE  /\ Merged(s) \in Seq(SUBSET S) /\ Len(Merged(s)) = Len(s) - 1
           /\ \A i \in 1 .. Len(s) - 2 : Merged(s)[i] = s[i]
           /\ Merged(s)[Len(s) - 1] = s[Len(s) - 1] \cup s[Len(s)]
<1> DEFINE t == Without(s)
<1>1. /\ s # <<>> /\ t \in Seq(SUBSET S) /\ t # <<>> /\ Len(t) = Len(s) - 1
      /\ Innermost(s) = s[Len(s)] /\ Innermost(t) = s[Len(s) - 1]
      /\ \A i \in 1 .. Len(s) - 1 : t[i] = s[i]
  BY WithoutLast
<1>2. /\ Without(t) \in Seq(SUBSET S) /\ Len(Without(t)) = Len(s) - 2
      /\ \A i \in 1 .. Len(s) - 2 : Without(t)[i] = s[i]
  <2> HIDE DEF t
  <2>1. /\ Without(t) \in Seq(SUBSET S) /\ Len(Without(t)) = Len(t) - 1
        /\ \A i \in 1 .. Len(t) - 1 : Without(t)[i] = t[i]
    BY <1>1, WithoutLast
  <2> QED  BY <1>1, <2>1
<1>3. Innermost(t) \cup Innermost(s) \in SUBSET S
  BY <1>1
<1>4. Merged(s) = Append(Without(t), Innermost(t) \cup Innermost(s))
  BY DEF Merged
<1> HIDE DEF t
<1> QED
  BY <1>1, <1>2, <1>3, <1>4

\* Each request has a query runner of its own.
LEMMA OwnRunner ==
    ASSUME ~Shared
    PROVE  QueryRunners = Requests /\ \A r : QueryRunner(r) = r
BY DEF QueryRunners, QueryRunner

\* The calls on the stack of a request are its own and have not ended.
LEMMA StackCalls ==
    ASSUME Invariant, NEW r \in Requests, NEW i \in 1 .. Len(stack[r])
    PROVE  /\ stack[r][i] \in Call /\ stack[r][i][1] = r
           /\ unit[stack[r][i]] = stack[r][i] /\ fate[stack[r][i]] = "open"
           /\ stack[r][i][2] <= begun[r]
<1>1. stack[r][i] \in Call
  BY DEF Invariant, TypeOK
<1>2. stack[r][i][1] = r /\ unit[stack[r][i]] = stack[r][i]
  BY DEF Invariant, StacksMatch
<1>3. fate[stack[r][i]] = "open"
  BY <1>1, <1>2 DEF Invariant, OpenOnStack
<1>4. stack[r][i][2] <= begun[r]
  BY <1>1, <1>2, <1>3 DEF Invariant, HistoryOfBegun
<1> QED  BY <1>1, <1>2, <1>3, <1>4

\* The innermost of them is the last one.
LEMMA InnermostCall ==
    ASSUME Invariant, NEW r \in Requests, stack[r] # <<>>
    PROVE  LET top == Innermost(stack[r]) IN
           /\ Len(stack[r]) \in Nat \ {0} /\ top = stack[r][Len(stack[r])]
           /\ top \in Call /\ top[1] = r /\ unit[top] = top
           /\ fate[top] = "open" /\ top[2] <= begun[r]
<1>1. Len(stack[r]) \in Nat \ {0} /\ Innermost(stack[r]) = stack[r][Len(stack[r])]
  BY WithoutLast DEF Invariant, TypeOK
<1>2. Len(stack[r]) \in 1 .. Len(stack[r])
  BY <1>1
<1> QED  BY <1>1, <1>2, StackCalls

\* Work that hangs on a call of the stack is of the same request and open.
LEMMA UnitsOnStack ==
    ASSUME Invariant, NEW r \in Requests, NEW i \in 1 .. Len(stack[r]),
           NEW c \in Call, unit[c] = stack[r][i]
    PROVE  c[1] = r /\ fate[c] = "open" /\ c \notin committed
<1>1. c[1] = r
  BY StackCalls DEF Invariant, OpenOnStack
<1>2. fate[c] = "open"
  BY <1>1 DEF Invariant, OpenOnStack
<1> QED  BY <1>1, <1>2 DEF Invariant, AllOrNothing

-----------------------------------------------------------------------------
(* The work keeps the invariant.                                           *)

\* The invariant holds initially.
LEMMA InitInvariant ==
    ASSUME ~Shared, Init PROVE Invariant
<1> USE DEF Init
<1>1. TypeOK
  BY OwnRunner, CallsAssumption DEF TypeOK, Fate, EventState
<1>2. StacksMatch
  <2>1. \A r \in Requests : stack[r] = <<>> /\ levels[r] = <<>> /\ ~aborted[r]
    BY OwnRunner
  <2>2. Len(<<>>) = 0 /\ 1 .. 0 = {}
    OBVIOUS
  <2> HIDE DEF Init
  <2> QED  BY <2>1, <2>2, Zenon DEF StacksMatch
<1>3. HistoryOfBegun
  BY CallParts DEF HistoryOfBegun
<1>4. OpenOnStack
  BY CallParts DEF OpenOnStack
<1>5. LevelsHoldUnits
  BY DEF LevelsHoldUnits
<1>6. AllOrNothing /\ EventsMatch
  BY DEF AllOrNothing, EventsMatch
<1> QED  BY <1>1, <1>2, <1>3, <1>4, <1>5, <1>6 DEF Invariant

\* A call begins: where the transaction is not aborted, with an empty savepoint.
LEMMA BeginInvariant ==
    ASSUME ~Shared, Invariant, NEW r \in Requests, Begin(r)
    PROVE  Invariant'
<1> DEFINE call == <<r, begun[r] + 1>>
<1>1. QueryRunners = Requests /\ QueryRunner(r) = r
  BY OwnRunner
<1>2. /\ call \in Call /\ call[1] = r /\ call[2] = begun[r] + 1
      /\ begun[r] \in Nat /\ begun[r] + 1 <= MaxCalls[r]
  <2>1. begun[r] \in Nat /\ begun[r] + 1 \in 1 .. MaxCalls[r]
    <3>1. begun[r] < MaxCalls[r]
      BY DEF Begin
    <3> QED  BY <3>1, CallsAssumption DEF Invariant, TypeOK
  <2> QED  BY <2>1, CallMade
<1>3. /\ fate[call] = "unknown" /\ unit[call] = call
      /\ call \notin wrote /\ event[call] = "none"
  BY <1>2 DEF Invariant, HistoryOfBegun
<1>4. \A c \in Call : c[1] = r /\ c[2] = begun[r] + 1 => c = call
  BY CallParts
<1>5. /\ begun' = [begun EXCEPT ![r] = @ + 1] /\ r \notin failing
      /\ UNCHANGED <<failing, aborted, committed, event, wrote, unit>>
  BY DEF Begin
<1>6. \A i \in 1 .. Len(stack[r]) : stack[r][i] # call
  BY <1>2, <1>3, StackCalls
<1>0. IF aborted[r]
       THEN fate' = [fate EXCEPT ![call] = "undone"] /\ UNCHANGED <<stack, levels>>
       ELSE /\ fate' = [fate EXCEPT ![call] = "open"]
            /\ stack' = [stack EXCEPT ![r] = Append(@, call)]
            /\ levels' = [levels EXCEPT ![r] = Append(@, {})]
  BY <1>1 DEF Begin
<1> HIDE DEF call
<1>9. ASSUME NEW outcome \in {"open", "undone"}, fate' = [fate EXCEPT ![call] = outcome]
      PROVE  HistoryOfBegun'
  <2> SUFFICES ASSUME NEW c \in Call
               PROVE  IF c[2] <= begun'[c[1]]
                      THEN fate'[c] # "unknown" /\ unit[c][2] <= begun'[c[1]]
                      ELSE fate'[c] = "unknown" /\ unit[c] = c
                           /\ c \notin wrote /\ event[c] = "none"
    BY <1>5 DEF HistoryOfBegun
  <2>1. /\ c[1] \in Requests /\ c[2] \in Nat \ {0} /\ begun[c[1]] \in Nat
        /\ begun'[c[1]] = IF c[1] = r THEN begun[r] + 1 ELSE begun[c[1]]
    BY <1>5, CallParts DEF Invariant, TypeOK
  <2>2. CASE c = call
    BY <1>2, <1>3, <1>9, <2>1, <2>2 DEF Invariant, TypeOK
  <2>3. CASE c # call
    <3>1. fate'[c] = fate[c] /\ unit[c] \in Call /\ unit[c][2] \in Nat
      BY <1>9, <2>3, CallParts DEF Invariant, TypeOK
    <3>2. c[2] <= begun'[c[1]] <=> c[2] <= begun[c[1]]
      BY <1>2, <1>4, <2>1, <2>3
    <3>3. IF c[2] <= begun[c[1]]
          THEN fate[c] # "unknown" /\ unit[c][2] <= begun[c[1]]
          ELSE fate[c] = "unknown" /\ unit[c] = c /\ c \notin wrote /\ event[c] = "none"
      BY DEF Invariant, HistoryOfBegun
    <3> QED  BY <1>2, <2>1, <3>1, <3>2, <3>3
  <2> QED  BY <2>2, <2>3
<1>7. CASE aborted[r]
  <2>1. fate' = [fate EXCEPT ![call] = "undone"] /\ UNCHANGED <<stack, levels>>
    BY <1>7, <1>0
  <2>2. TypeOK'
    BY <1>1, <1>2, <1>5, <2>1 DEF Invariant, TypeOK, Fate
  <2>3. StacksMatch'
    BY <1>5, <2>1 DEF Invariant, StacksMatch
  <2>4. HistoryOfBegun'
    BY <1>9, <2>1
  <2>5. OpenOnStack'
    BY <1>2, <1>3, <1>5, <1>6, <2>1 DEF Invariant, OpenOnStack, TypeOK
  <2>6. LevelsHoldUnits'
    BY <1>5, <2>1 DEF Invariant, LevelsHoldUnits
  <2>7. AllOrNothing' /\ EventsMatch'
    BY <1>2, <1>3, <1>5, <2>1 DEF Invariant, AllOrNothing, EventsMatch, TypeOK
  <2> QED  BY <2>2, <2>3, <2>4, <2>5, <2>6, <2>7 DEF Invariant
<1>8. CASE ~aborted[r]
  <2>1. /\ fate' = [fate EXCEPT ![call] = "open"]
        /\ stack' = [stack EXCEPT ![r] = Append(@, call)]
        /\ levels' = [levels EXCEPT ![r] = Append(@, {})]
    BY <1>8, <1>0
  <2>2. TypeOK'
    BY <1>1, <1>2, <1>5, <2>1 DEF Invariant, TypeOK, Fate
  <2>3. /\ stack[r] \in Seq(Call) /\ Len(stack[r]) \in Nat
        /\ levels[r] \in Seq(SUBSET Call) /\ Len(levels[r]) = Len(stack[r])
        /\ Len(stack'[r]) = Len(stack[r]) + 1 /\ Len(levels'[r]) = Len(stack[r]) + 1
        /\ stack'[r][Len(stack[r]) + 1] = call /\ levels'[r][Len(stack[r]) + 1] = {}
        /\ \A i \in 1 .. Len(stack[r]) :
              stack'[r][i] = stack[r][i] /\ levels'[r][i] = levels[r][i]
    BY <1>1, <2>1 DEF Invariant, TypeOK, StacksMatch
  <2>4. \A q \in Requests \ {r} : stack'[q] = stack[q] /\ levels'[q] = levels[q]
    BY <1>1, <2>1 DEF Invariant, TypeOK
  <2>5. \A i \in 1 .. Len(stack'[r]) : i = Len(stack[r]) + 1 \/ i \in 1 .. Len(stack[r])
    BY <2>3
  <2>6. StacksMatch'
    <3>1. \A q \in Requests \ {r} :
             /\ Len(levels'[q]) = Len(stack'[q])
             /\ \A i \in 1 .. Len(stack'[q]) :
                   stack'[q][i][1] = q /\ unit'[stack'[q][i]] = stack'[q][i]
             /\ \A i, j \in 1 .. Len(stack'[q]) : stack'[q][i] = stack'[q][j] => i = j
             /\ aborted'[q] => stack'[q] # <<>>
      BY <1>5, <2>4 DEF Invariant, StacksMatch
    <3>2. \A i \in 1 .. Len(stack'[r]) :
             stack'[r][i][1] = r /\ unit'[stack'[r][i]] = stack'[r][i]
      <4>1. \A i \in 1 .. Len(stack[r]) :
               stack[r][i][1] = r /\ unit[stack[r][i]] = stack[r][i]
        BY DEF Invariant, StacksMatch
      <4>2. unit' = unit /\ call[1] = r /\ unit[call] = call
        BY <1>2, <1>3, <1>5
      <4> QED  BY <2>3, <2>5, <4>1, <4>2
    <3>3. \A i, j \in 1 .. Len(stack'[r]) : stack'[r][i] = stack'[r][j] => i = j
      <4>1. \A i, j \in 1 .. Len(stack[r]) : stack[r][i] = stack[r][j] => i = j
        BY DEF Invariant, StacksMatch
      <4> SUFFICES ASSUME NEW i \in 1 .. Len(stack'[r]), NEW j \in 1 .. Len(stack'[r]),
                          stack'[r][i] = stack'[r][j]
                   PROVE  i = j
        OBVIOUS
      <4>2. CASE i \in 1 .. Len(stack[r]) /\ j \in 1 .. Len(stack[r])
        BY <2>3, <4>1, <4>2
      <4>3. CASE i = Len(stack[r]) + 1 /\ j \in 1 .. Len(stack[r])
        BY <1>6, <2>3, <4>3
      <4>4. CASE j = Len(stack[r]) + 1 /\ i \in 1 .. Len(stack[r])
        BY <1>6, <2>3, <4>4
      <4> QED  BY <2>5, <4>2, <4>3, <4>4
    <3> QED  BY <1>5, <1>8, <2>3, <3>1, <3>2, <3>3 DEF StacksMatch
  <2>7. HistoryOfBegun'
    BY <1>9, <2>1
  <2>8. OpenOnStack'
    <3> SUFFICES ASSUME NEW c \in Call
                 PROVE  /\ unit'[c][1] = c[1]
                        /\ fate'[c] = "open" <=>
                             \E i \in 1 .. Len(stack'[c[1]]) : unit'[c] = stack'[c[1]][i]
      BY DEF OpenOnStack
    <3>1. CASE c[1] # r
      <4>1. fate'[c] = fate[c] /\ unit'[c] = unit[c] /\ stack'[c[1]] = stack[c[1]]
        BY <1>2, <1>5, <2>1, <2>4, <3>1, CallParts DEF Invariant, TypeOK
      <4> QED  BY <4>1 DEF Invariant, OpenOnStack
    <3>2. CASE c = call
      BY <1>2, <1>3, <1>5, <2>1, <2>3, <3>2 DEF Invariant, TypeOK
    <3>3. CASE c[1] = r /\ c # call
      <4>1. unit[c] # call
        BY <1>2, <1>4, <3>3, CallParts DEF Invariant, HistoryOfBegun, TypeOK
      <4>2. unit[c][1] = r
            /\ (fate[c] = "open" <=> \E i \in 1 .. Len(stack[r]) : unit[c] = stack[r][i])
        BY <3>3 DEF Invariant, OpenOnStack
      <4>3. fate'[c] = fate[c] /\ unit'[c] = unit[c]
        BY <1>5, <2>1, <3>3 DEF Invariant, TypeOK
      <4>4. (\E i \in 1 .. Len(stack'[r]) : unit[c] = stack'[r][i])
              <=> (\E i \in 1 .. Len(stack[r]) : unit[c] = stack[r][i])
        BY <2>3, <2>5, <4>1
      <4> QED  BY <3>3, <4>2, <4>3, <4>4
    <3> QED  BY <3>1, <3>2, <3>3
  <2>9. LevelsHoldUnits'
    <3>1. ~ \E c \in wrote : unit[c] = call
      BY <1>2, <1>3, CallParts DEF Invariant, HistoryOfBegun, OpenOnStack, TypeOK
    <3>2. \A q \in Requests \ {r} : \A i \in 1 .. Len(stack'[q]) :
             i < Len(stack'[q]) \/ q \notin failing'
                 => levels'[q][i] = {c \in wrote' : unit'[c] = stack'[q][i]}
      BY <1>5, <2>4 DEF Invariant, LevelsHoldUnits
    <3>3. \A i \in 1 .. Len(stack[r]) : levels[r][i] = {c \in wrote : unit[c] = stack[r][i]}
      BY <1>5 DEF Invariant, LevelsHoldUnits
    <3>4. \A i \in 1 .. Len(stack'[r]) :
             levels'[r][i] = {c \in wrote : unit[c] = stack'[r][i]}
      <4> SUFFICES ASSUME NEW i \in 1 .. Len(stack'[r])
                   PROVE  levels'[r][i] = {c \in wrote : unit[c] = stack'[r][i]}
        OBVIOUS
      <4>1. CASE i = Len(stack[r]) + 1
        <5>1. levels'[r][i] = {} /\ stack'[r][i] = call
          BY <2>3, <4>1
        <5> QED  BY <3>1, <5>1
      <4>2. CASE i \in 1 .. Len(stack[r])
        <5>1. levels'[r][i] = levels[r][i] /\ stack'[r][i] = stack[r][i]
          BY <2>3, <4>2
        <5> QED  BY <3>3, <4>2, <5>1
      <4> QED  BY <2>5, <4>1, <4>2
    <3> QED  BY <1>5, <3>2, <3>4 DEF LevelsHoldUnits
  <2>10. AllOrNothing' /\ EventsMatch'
    BY <1>2, <1>3, <1>5, <2>1 DEF Invariant, AllOrNothing, EventsMatch, TypeOK
  <2> QED  BY <2>2, <2>6, <2>7, <2>8, <2>9, <2>10 DEF Invariant
<1> QED  BY <1>7, <1>8

\* A write goes to the innermost savepoint, the call of which is its unit.
LEMMA WriteInvariant ==
    ASSUME ~Shared, Invariant, NEW r \in Requests, Write(r)
    PROVE  Invariant'
<1> DEFINE top == Innermost(stack[r])
<1>1. QueryRunners = Requests /\ QueryRunner(r) = r /\ Depth(r) = Len(levels[r])
  BY OwnRunner DEF Depth
<1>2. /\ stack[r] # <<>> /\ r \notin failing /\ top \notin wrote
      /\ UNCHANGED <<stack, begun, failing, aborted, committed, event, unit, fate>>
      /\ levels' = [levels EXCEPT ![r][Len(levels[r])] = @ \cup {top}]
      /\ wrote' = wrote \cup {top}
  BY <1>1 DEF Write, Executing, promise
<1>3. /\ Len(stack[r]) \in Nat \ {0} /\ top = stack[r][Len(stack[r])]
      /\ top \in Call /\ top[1] = r /\ unit[top] = top
      /\ fate[top] = "open" /\ top[2] <= begun[r]
  BY <1>2, InnermostCall
<1> HIDE DEF top
<1>4. /\ levels[r] \in Seq(SUBSET Call) /\ Len(levels[r]) = Len(stack[r])
      /\ levels'[r] \in Seq(SUBSET Call) /\ Len(levels'[r]) = Len(stack[r])
      /\ levels'[r][Len(stack[r])] = levels[r][Len(stack[r])] \cup {top}
      /\ \A i \in 1 .. Len(stack[r]) : i # Len(stack[r]) => levels'[r][i] = levels[r][i]
      /\ \A q \in Requests \ {r} : levels'[q] = levels[q]
  BY <1>1, <1>2, <1>3 DEF Invariant, TypeOK, StacksMatch
<1>5. TypeOK'
  <2>1. levels' \in [QueryRunners -> Seq(SUBSET Call)]
    BY <1>1, <1>2, <1>4 DEF Invariant, TypeOK
  <2> QED  BY <1>2, <1>3, <2>1 DEF Invariant, TypeOK
<1>6. StacksMatch'
  BY <1>2, <1>4 DEF Invariant, StacksMatch
<1>7. HistoryOfBegun'
  BY <1>2, <1>3 DEF Invariant, HistoryOfBegun
<1>8. OpenOnStack' /\ EventsMatch'
  BY <1>2 DEF Invariant, OpenOnStack, EventsMatch
<1>9. LevelsHoldUnits'
  <2>1. \A q \in Requests \ {r} : \A i \in 1 .. Len(stack[q]) : stack[q][i] # top
    BY <1>3, StackCalls
  <2>2. \A q \in Requests \ {r} : \A i \in 1 .. Len(stack'[q]) :
           i < Len(stack'[q]) \/ q \notin failing'
               => levels'[q][i] = {c \in wrote' : unit'[c] = stack'[q][i]}
    BY <1>2, <1>3, <1>4, <2>1 DEF Invariant, LevelsHoldUnits
  <2>3. \A i \in 1 .. Len(stack[r]) : levels[r][i] = {c \in wrote : unit[c] = stack[r][i]}
    BY <1>2 DEF Invariant, LevelsHoldUnits
  <2>4. \A i \in 1 .. Len(stack[r]) : i # Len(stack[r]) => stack[r][i] # top
    BY <1>3 DEF Invariant, StacksMatch
  <2>5. \A i \in 1 .. Len(stack[r]) :
           levels'[r][i] = {c \in wrote' : unit[c] = stack[r][i]}
    BY <1>2, <1>3, <1>4, <2>3, <2>4
  <2> QED  BY <1>2, <2>2, <2>5 DEF LevelsHoldUnits
<1>10. AllOrNothing'
  <2>1. \A c \in wrote : unit[c] = top => c \notin committed /\ c[1] = r
    <3>1. Len(stack[r]) \in 1 .. Len(stack[r]) /\ wrote \subseteq Call
      BY <1>3 DEF Invariant, TypeOK
    <3> QED  BY <1>3, <3>1, UnitsOnStack
  <2>2. top \notin committed
    BY <1>2 DEF Invariant, TypeOK
  <2> QED  BY <1>2, <1>3, <2>1, <2>2 DEF Invariant, AllOrNothing
<1> QED  BY <1>5, <1>6, <1>7, <1>8, <1>9, <1>10 DEF Invariant

\* A step that changes no call, no write and no committed data keeps the
\* invariant if it throws away at most the innermost level of a request that
\* fails, and if it only adds or delivers an event of work that has begun.
LEMMA LightStep ==
    ASSUME Invariant, TypeOK',
           UNCHANGED <<stack, begun, committed, wrote, unit, fate>>,
           failing \subseteq failing',
           \A q \in Requests :
              /\ Len(levels'[q]) = Len(levels[q])
              /\ aborted'[q] => aborted[q] \/ stack[q] # <<>>
              /\ \A i \in 1 .. Len(stack[q]) :
                    i < Len(stack[q]) \/ q \notin failing' => levels'[q][i] = levels[q][i],
           \A c \in Call :
              \/ event'[c] = event[c]
              \/ event[c] = "none" /\ event'[c] = "waiting" /\ fate[c] = "open"
              \/ event[c] = "due" /\ event'[c] = "delivered"
    PROVE  Invariant'
<1>1. StacksMatch'
  BY DEF Invariant, StacksMatch
<1>2. HistoryOfBegun'
  BY DEF Invariant, HistoryOfBegun, EventsMatch
<1>3. OpenOnStack'
  BY DEF Invariant, OpenOnStack
<1>4. LevelsHoldUnits'
  BY DEF Invariant, LevelsHoldUnits
<1>5. AllOrNothing'
  BY DEF Invariant, AllOrNothing
<1>6. EventsMatch'
  BY DEF Invariant, EventsMatch
<1> QED  BY <1>1, <1>2, <1>3, <1>4, <1>5, <1>6 DEF Invariant

\* Failures, publications, deliveries, and a COMMIT that fails are such steps.
LEMMA LightInvariant ==
    ASSUME ~Shared, Invariant, NEW r \in Requests, NEW c \in Call,
           \/ StatementFails(r) \/ WorkFails(r) \/ Publish(r) \/ CommitFails(r)
           \/ Deliver(c)
    PROVE  Invariant'
<1>1. QueryRunners = Requests /\ QueryRunner(r) = r /\ Depth(r) = Len(levels[r])
  BY OwnRunner DEF Depth
<1>2. CASE StatementFails(r)
  <2>1. /\ stack[r] # <<>> /\ failing' \in {failing, failing \cup {r}}
        /\ aborted' = [aborted EXCEPT ![r] = @ \/ AbortsOnError]
        /\ UNCHANGED <<stack, begun, levels, committed, event, wrote, unit, fate>>
    BY <1>1, <1>2 DEF StatementFails, Executing, promise
  <2>2. TypeOK'
    BY <1>1, <2>1, DriverAssumption DEF Invariant, TypeOK
  <2> QED  BY <1>1, <2>1, <2>2, LightStep DEF Invariant, TypeOK
<1>3. CASE WorkFails(r)
  <2>1. /\ stack[r] # <<>> /\ failing' = failing \cup {r}
        /\ UNCHANGED <<stack, begun, levels, aborted, committed, event, wrote, unit, fate>>
    BY <1>3 DEF WorkFails, Executing, promise, database
  <2>2. TypeOK'
    BY <2>1 DEF Invariant, TypeOK
  <2> QED  BY <2>1, <2>2, LightStep
<1>4. CASE Publish(r)
  <2> DEFINE top == Innermost(stack[r])
  <2>1. /\ stack[r] # <<>> /\ event[top] = "none"
        /\ event' = [event EXCEPT ![top] = "waiting"]
        /\ UNCHANGED <<stack, begun, failing, levels, aborted, committed, wrote, unit, fate>>
    BY <1>4 DEF Publish, Executing, promise, database
  <2>2. top \in Call /\ fate[top] = "open"
    BY <2>1, InnermostCall
  <2> HIDE DEF top
  <2>3. TypeOK'
    BY <2>1, <2>2 DEF Invariant, TypeOK, EventState
  <2> QED  BY <2>1, <2>2, <2>3, LightStep DEF Invariant, TypeOK
<1>5. CASE CommitFails(r)
  <2>1. /\ stack[r] # <<>> /\ Len(levels[r]) = 1 /\ failing' = failing \cup {r}
        /\ levels' = [levels EXCEPT ![r] = <<{}>>]
        /\ aborted' = [aborted EXCEPT ![r] = FALSE]
        /\ UNCHANGED <<stack, begun, committed, event, wrote, unit, fate>>
    BY <1>1, <1>5 DEF CommitFails, Executing, promise
  <2>2. TypeOK'
    BY <1>1, <2>1 DEF Invariant, TypeOK
  <2>3. Len(stack[r]) = 1 /\ Len(levels'[r]) = 1
    BY <1>1, <2>1 DEF Invariant, TypeOK, StacksMatch
  <2>4. \A q \in Requests :
           /\ Len(levels'[q]) = Len(levels[q])
           /\ aborted'[q] => aborted[q] \/ stack[q] # <<>>
           /\ \A i \in 1 .. Len(stack[q]) :
                 i < Len(stack[q]) \/ q \notin failing' => levels'[q][i] = levels[q][i]
    <3> SUFFICES ASSUME NEW q \in Requests
                 PROVE  /\ Len(levels'[q]) = Len(levels[q])
                        /\ aborted'[q] => aborted[q]
                        /\ \A i \in 1 .. Len(stack[q]) :
                              i < Len(stack[q]) \/ q \notin failing'
                                  => levels'[q][i] = levels[q][i]
      OBVIOUS
    <3>1. CASE q = r
      <4>1. ~aborted'[r] /\ r \in failing' /\ Len(levels'[r]) = Len(levels[r])
        BY <1>1, <2>1, <2>3 DEF Invariant, TypeOK
      <4>2. \A i \in 1 .. Len(stack[r]) : ~(i < Len(stack[r]))
        BY <2>3
      <4> QED  BY <3>1, <4>1, <4>2
    <3>2. CASE q # r
      BY <1>1, <2>1, <3>2 DEF Invariant, TypeOK
    <3> QED  BY <3>1, <3>2
  <2> QED  BY <2>1, <2>2, <2>4, LightStep
<1>6. CASE Deliver(c)
  <2>1. /\ event[c] = "due" /\ event' = [event EXCEPT ![c] = "delivered"]
        /\ UNCHANGED <<stack, begun, failing, levels, aborted, committed, wrote, unit, fate>>
    BY <1>6 DEF Deliver, promise, database
  <2>2. TypeOK'
    BY <2>1 DEF Invariant, TypeOK, EventState
  <2> QED  BY <2>1, <2>2, LightStep DEF Invariant, TypeOK
<1> QED  BY <1>2, <1>3, <1>4, <1>5, <1>6

-----------------------------------------------------------------------------
(* The end of a call keeps the invariant.                                  *)

\* Popping the call and its level, and settling its unit: the database, the
\* stack and the promise still agree.
LEMMA EndsStep ==
    ASSUME Invariant, NEW r \in Requests, NEW outcome \in {"kept", "undone"},
           stack[r] # <<>>, Ends(r, outcome),
           UNCHANGED <<begun, wrote>>,
           failing' = failing \ {r},
           \A c \in Call : event[c] = "none" => event'[c] = "none",
           Len(levels'[r]) = Len(levels[r]) - 1,
           \A i \in 1 .. Len(levels[r]) - 1 : levels'[r][i] = levels[r][i],
           ~aborted'[r],
           \A q \in Requests \ {r} : levels'[q] = levels[q] /\ aborted'[q] = aborted[q]
    PROVE  /\ StacksMatch' /\ HistoryOfBegun' /\ OpenOnStack' /\ LevelsHoldUnits'
           /\ \A c \in Call : fate'[c] = IF unit[c] = Innermost(stack[r])
                                         THEN outcome ELSE fate[c]
           /\ \A c \in Call : c[1] = r /\ Len(stack[r]) = 1 => fate'[c] # "open"
<1> DEFINE top == Innermost(stack[r])
           n == Len(stack[r])
<1>1. /\ n \in Nat \ {0} /\ top = stack[r][n] /\ n \in 1 .. n
      /\ top \in Call /\ top[1] = r /\ unit[top] = top
      /\ fate[top] = "open" /\ top[2] <= begun[r]
  BY InnermostCall
<1>2. /\ stack'[r] = Without(stack[r]) /\ unit' = unit
      /\ \A q \in Requests \ {r} : stack'[q] = stack[q]
      /\ \A c \in Call : fate'[c] = IF unit[c] = top THEN outcome ELSE fate[c]
  BY DEF Ends, Invariant, TypeOK
<1>3. /\ stack[r] \in Seq(Call) /\ Len(stack'[r]) = n - 1
      /\ \A i \in 1 .. n - 1 : stack'[r][i] = stack[r][i]
  <2>1. stack[r] \in Seq(Call)
    BY DEF Invariant, TypeOK
  <2>2. /\ Len(Without(stack[r])) = Len(stack[r]) - 1
        /\ \A i \in 1 .. Len(stack[r]) - 1 : Without(stack[r])[i] = stack[r][i]
    BY <2>1, WithoutLast
  <2> QED  BY <1>2, <2>1, <2>2
<1>4. Len(levels[r]) = n
  BY DEF Invariant, StacksMatch
<1>5. \A i \in 1 .. n - 1 : i \in 1 .. n /\ stack[r][i] # top
  BY <1>1 DEF Invariant, StacksMatch
<1>6. \A i \in 1 .. n : i = n \/ i \in 1 .. n - 1
  BY <1>1
<1>7. \A c \in Call : unit[c] = top => c[1] = r /\ fate[c] = "open"
  BY <1>1, UnitsOnStack
<1> HIDE DEF top, n
<1>8. StacksMatch'
  <2>1. \A q \in Requests \ {r} :
           /\ Len(levels'[q]) = Len(stack'[q])
           /\ \A i \in 1 .. Len(stack'[q]) :
                 stack'[q][i][1] = q /\ unit'[stack'[q][i]] = stack'[q][i]
           /\ \A i, j \in 1 .. Len(stack'[q]) : stack'[q][i] = stack'[q][j] => i = j
           /\ aborted'[q] => stack'[q] # <<>>
    BY <1>2 DEF Invariant, StacksMatch
  <2>2. /\ \A i \in 1 .. n : stack[r][i][1] = r /\ unit[stack[r][i]] = stack[r][i]
        /\ \A i, j \in 1 .. n : stack[r][i] = stack[r][j] => i = j
    BY DEF Invariant, StacksMatch, n
  <2>3. /\ Len(levels'[r]) = Len(stack'[r])
        /\ \A i \in 1 .. Len(stack'[r]) :
              stack'[r][i][1] = r /\ unit'[stack'[r][i]] = stack'[r][i]
        /\ \A i, j \in 1 .. Len(stack'[r]) : stack'[r][i] = stack'[r][j] => i = j
    <3>1. Len(levels'[r]) = n - 1 /\ Len(stack'[r]) = n - 1 /\ unit' = unit
      BY <1>2, <1>3, <1>4
    <3>2. \A i \in 1 .. n - 1 : stack'[r][i] = stack[r][i] /\ i \in 1 .. n
      BY <1>3, <1>5
    <3>3. \A i \in 1 .. n - 1 :
             stack'[r][i][1] = r /\ unit'[stack'[r][i]] = stack'[r][i]
      <4> TAKE i \in 1 .. n - 1
      <4>1. stack[r][i][1] = r /\ unit[stack[r][i]] = stack[r][i]
        BY <2>2, <3>2
      <4> QED  BY <3>1, <3>2, <4>1
    <3>4. \A i, j \in 1 .. n - 1 : stack'[r][i] = stack'[r][j] => i = j
      <4> TAKE i, j \in 1 .. n - 1
      <4>1. i \in 1 .. n /\ j \in 1 .. n
        BY <3>2
      <4>2. stack[r][i] = stack[r][j] => i = j
        BY <2>2, <4>1
      <4> QED  BY <3>2, <4>2
    <3> QED  BY <3>1, <3>3, <3>4
  <2> SUFFICES ASSUME NEW q \in Requests
               PROVE  /\ Len(levels'[q]) = Len(stack'[q])
                      /\ \A i \in 1 .. Len(stack'[q]) :
                            stack'[q][i][1] = q /\ unit'[stack'[q][i]] = stack'[q][i]
                      /\ \A i, j \in 1 .. Len(stack'[q]) :
                            stack'[q][i] = stack'[q][j] => i = j
                      /\ aborted'[q] => stack'[q] # <<>>
    BY DEF StacksMatch
  <2>4. CASE q = r
    <3>1. ~aborted'[r]
      OBVIOUS
    <3> QED  BY <2>3, <2>4, <3>1, Zenon
  <2>5. CASE q # r
    BY <2>1, <2>5
  <2> QED  BY <2>4, <2>5
<1>9. HistoryOfBegun'
  BY <1>1, <1>2, <1>7 DEF Invariant, HistoryOfBegun
<1>10. OpenOnStack'
  <2> SUFFICES ASSUME NEW c \in Call
               PROVE  /\ unit'[c][1] = c[1]
                      /\ fate'[c] = "open" <=>
                           \E i \in 1 .. Len(stack'[c[1]]) : unit'[c] = stack'[c[1]][i]
    BY DEF OpenOnStack
  <2>1. /\ unit[c][1] = c[1] /\ c[1] \in Requests
        /\ fate[c] = "open" <=> \E i \in 1 .. Len(stack[c[1]]) : unit[c] = stack[c[1]][i]
    BY CallParts DEF Invariant, OpenOnStack
  <2>2. CASE c[1] # r
    BY <1>2, <1>7, <2>1, <2>2
  <2>3. CASE c[1] = r /\ unit[c] = top
    BY <1>2, <1>3, <1>5, <2>1, <2>3
  <2>4. CASE c[1] = r /\ unit[c] # top
    <3>1. (\E i \in 1 .. n : unit[c] = stack[r][i])
             <=> (\E i \in 1 .. n - 1 : unit[c] = stack'[r][i])
      <4>1. \A i \in 1 .. n : unit[c] = stack[r][i] => i \in 1 .. n - 1
        BY <1>1, <1>6, <2>4
      <4>2. \A i \in 1 .. n - 1 : stack'[r][i] = stack[r][i] /\ i \in 1 .. n
        BY <1>3, <1>5
      <4> QED  BY <4>1, <4>2
    <3> QED  BY <1>2, <1>3, <2>1, <2>4, <3>1 DEF n
  <2> QED  BY <2>2, <2>3, <2>4
<1>11. LevelsHoldUnits'
  <2>1. \A q \in Requests \ {r} : \A i \in 1 .. Len(stack'[q]) :
           i < Len(stack'[q]) \/ q \notin failing'
               => levels'[q][i] = {c \in wrote' : unit'[c] = stack'[q][i]}
    BY <1>2 DEF Invariant, LevelsHoldUnits
  <2>2. \A i \in 1 .. n - 1 : i < n /\ i \in 1 .. n
    BY <1>1
  <2>3. \A i \in 1 .. n - 1 : levels[r][i] = {c \in wrote : unit[c] = stack[r][i]}
    BY <2>2 DEF Invariant, LevelsHoldUnits, n
  <2>4. \A i \in 1 .. Len(stack'[r]) :
           levels'[r][i] = {c \in wrote' : unit'[c] = stack'[r][i]}
    <3> SUFFICES ASSUME NEW i \in 1 .. n - 1
                 PROVE  levels'[r][i] = {c \in wrote' : unit'[c] = stack'[r][i]}
      BY <1>3
    <3>1. levels'[r][i] = levels[r][i] /\ stack'[r][i] = stack[r][i]
      BY <1>3, <1>4
    <3>2. levels[r][i] = {c \in wrote : unit[c] = stack[r][i]}
      BY <2>3
    <3>3. unit' = unit /\ wrote' = wrote
      BY <1>2
    <3> QED  BY <3>1, <3>2, <3>3
  <2> QED  BY <2>1, <2>4 DEF LevelsHoldUnits
<1>12. \A c \in Call : c[1] = r /\ n = 1 => fate'[c] # "open"
  BY <1>1, <1>3, <1>10 DEF OpenOnStack
<1> QED  BY <1>2, <1>8, <1>9, <1>10, <1>11, <1>12 DEF top, n

\* The levels of a query runner when the innermost one is thrown away.
LEMMA LevelsWithout ==
    ASSUME Invariant, ~Shared, NEW r \in Requests, stack[r] # <<>>
    PROVE  /\ Without(levels[r]) \in Seq(SUBSET Call)
           /\ Len(levels[r]) = Len(stack[r]) /\ Len(levels[r]) \in Nat \ {0}
           /\ Len(Without(levels[r])) = Len(levels[r]) - 1
           /\ \A i \in 1 .. Len(levels[r]) - 1 : Without(levels[r])[i] = levels[r][i]
           /\ Without(stack[r]) \in Seq(Call)
<1>1. levels[r] \in Seq(SUBSET Call) /\ Len(levels[r]) = Len(stack[r])
      /\ stack[r] \in Seq(Call)
  BY OwnRunner DEF Invariant, TypeOK, StacksMatch
<1>2. Len(stack[r]) \in Nat \ {0} /\ levels[r] # <<>>
  <2>1. Len(stack[r]) \in Nat \ {0}
    BY InnermostCall
  <2>2. Len(<<>>) = 0
    OBVIOUS
  <2> QED  BY <1>1, <2>1, <2>2
<1>3. /\ Without(levels[r]) \in Seq(SUBSET Call)
      /\ Len(Without(levels[r])) = Len(levels[r]) - 1
      /\ \A i \in 1 .. Len(levels[r]) - 1 : Without(levels[r])[i] = levels[r][i]
  BY <1>1, <1>2, WithoutLast
<1>4. Without(stack[r]) \in Seq(Call)
  BY <1>1, WithoutLast
<1> QED  BY <1>1, <1>2, <1>3, <1>4

\* A rollback throws the innermost level away, and at the end of the outermost
\* call the events that wait.
LEMMA RollbackInvariant ==
    ASSUME ~Shared, Invariant, NEW r \in Requests, Rollback(r)
    PROVE  Invariant'
<1> DEFINE top == Innermost(stack[r])
<1>1. QueryRunners = Requests /\ \A q \in Requests : QueryRunner(q) = q
  BY OwnRunner
<1>2. /\ r \in failing /\ failing' = failing \ {r} /\ Ends(r, "undone")
      /\ levels' = [levels EXCEPT ![r] = Without(@)]
      /\ aborted' = [aborted EXCEPT ![r] = FALSE]
      /\ Notify(r, "dropped")
      /\ UNCHANGED <<begun, committed, wrote>>
  BY <1>1 DEF Rollback, AfterError, OnRollback
<1>3. stack[r] # <<>>
  BY <1>2 DEF Invariant, TypeOK
<1>4. /\ Len(levels[r]) = Len(stack[r]) /\ Len(levels[r]) \in Nat \ {0}
      /\ Len(Without(levels[r])) = Len(levels[r]) - 1
      /\ Without(levels[r]) \in Seq(SUBSET Call) /\ Without(stack[r]) \in Seq(Call)
      /\ \A i \in 1 .. Len(levels[r]) - 1 : Without(levels[r])[i] = levels[r][i]
  BY <1>3, LevelsWithout
<1>5. /\ levels'[r] = Without(levels[r]) /\ ~aborted'[r]
      /\ \A q \in Requests \ {r} : levels'[q] = levels[q] /\ aborted'[q] = aborted[q]
  BY <1>1, <1>2 DEF Invariant, TypeOK
<1>6. \A c \in Call :
         event'[c] = IF Len(levels[r]) = 1 /\ c[1] = r /\ event[c] = "waiting"
                     THEN "dropped" ELSE event[c]
  <2>1. ~IsTransactionActive(r) <=> Len(levels[r]) = 1
    <3>1. \A k \in Nat \ {0} : ~(k > 1) <=> k = 1
      OBVIOUS
    <3> QED  BY <1>4, <3>1 DEF IsTransactionActive
  <2>2. \A c \in Call : QueryRunner(c[1]) = c[1]
    BY <1>1, CallParts
  <2> QED  BY <1>2, <2>1, <2>2 DEF Notify
<1>7. /\ StacksMatch' /\ HistoryOfBegun' /\ OpenOnStack' /\ LevelsHoldUnits'
      /\ \A c \in Call : fate'[c] = IF unit[c] = top THEN "undone" ELSE fate[c]
      /\ \A c \in Call : c[1] = r /\ Len(stack[r]) = 1 => fate'[c] # "open"
  <2>1. /\ Len(levels'[r]) = Len(levels[r]) - 1
        /\ \A i \in 1 .. Len(levels[r]) - 1 : levels'[r][i] = levels[r][i]
        /\ \A c \in Call : event[c] = "none" => event'[c] = "none"
    BY <1>4, <1>5, <1>6
  <2> QED  BY <1>2, <1>3, <1>5, <2>1, EndsStep
<1>8. \A c \in Call : unit[c] = top => fate[c] = "open" /\ c \notin committed
  <2>1. top = stack[r][Len(stack[r])] /\ Len(stack[r]) \in 1 .. Len(stack[r])
    BY <1>3, InnermostCall
  <2> QED  BY <2>1, UnitsOnStack
<1> HIDE DEF top
<1>9. TypeOK'
  <2>1. levels' \in [QueryRunners -> Seq(SUBSET Call)] /\ aborted' \in [QueryRunners -> BOOLEAN]
    BY <1>1, <1>2, <1>4 DEF Invariant, TypeOK
  <2>2. stack' \in [Requests -> Seq(Call)] /\ \A q \in failing' : stack'[q] # <<>>
    BY <1>2, <1>4 DEF Invariant, TypeOK, Ends
  <2>3. event' \in [Call -> EventState] /\ fate' \in [Call -> Fate] /\ unit' = unit
    BY <1>2 DEF Invariant, TypeOK, Ends, Notify, EventState, Fate
  <2> QED  BY <1>2, <2>1, <2>2, <2>3 DEF Invariant, TypeOK
<1>10. AllOrNothing'
  <2>1. unit' = unit /\ committed \subseteq Call
    BY <1>2 DEF Ends, Invariant, TypeOK
  <2> QED  BY <1>2, <1>7, <1>8, <2>1 DEF Invariant, AllOrNothing
<1>11. EventsMatch'
  <2> SUFFICES ASSUME NEW c \in Call
               PROVE  /\ event'[c] = "dropped" => fate'[c] = "undone"
                      /\ event'[c] = "waiting" => fate'[c] # "kept"
                      /\ event'[c] \in {"due", "delivered"} => fate'[c] \in {"kept", "undone"}
    BY DEF EventsMatch
  <2>1. /\ event[c] = "dropped" => fate[c] = "undone"
        /\ event[c] = "waiting" => fate[c] \in {"open", "undone"}
        /\ event[c] \in {"due", "delivered"} => fate[c] \in {"kept", "undone"}
    BY DEF Invariant, EventsMatch, HistoryOfBegun, TypeOK, Fate
  <2>2. fate'[c] \in {fate[c], "undone"} /\ (fate'[c] # fate[c] => fate[c] = "open")
    BY <1>7, <1>8
  <2> QED  BY <1>4, <1>6, <1>7, <2>1, <2>2
<1> QED  BY <1>7, <1>9, <1>10, <1>11 DEF Invariant

\* The COMMIT of the outermost call makes its whole level permanent, or nothing.
LEMMA CommitInvariant ==
    ASSUME ~Shared, Invariant, NEW r \in Requests, CommitTransaction(r)
    PROVE  Invariant'
<1> DEFINE top == Innermost(stack[r])
<1>1. /\ QueryRunners = Requests /\ \A q \in Requests : QueryRunner(q) = q
      /\ Depth(r) = Len(levels[r])
  BY OwnRunner DEF Depth
<1>2. /\ stack[r] # <<>> /\ r \notin failing /\ Len(levels[r]) = 1
      /\ committed' = IF aborted[r] THEN committed ELSE committed \cup levels[r][1]
      /\ levels' = [levels EXCEPT ![r] = <<>>]
      /\ aborted' = [aborted EXCEPT ![r] = FALSE]
      /\ Notify(r, "due") /\ Resolves(r)
      /\ UNCHANGED <<begun, failing, wrote>>
  BY <1>1 DEF CommitTransaction, Executing
<1>3. Len(stack[r]) = 1 /\ Without(stack[r]) \in Seq(Call)
  BY <1>2, LevelsWithout
<1>4. Ends(r, "kept")
  BY <1>2, <1>3 DEF Resolves
<1>5. /\ levels'[r] = <<>> /\ Len(levels'[r]) = 0 /\ ~aborted'[r]
      /\ \A q \in Requests \ {r} : levels'[q] = levels[q] /\ aborted'[q] = aborted[q]
  BY <1>1, <1>2 DEF Invariant, TypeOK
<1>6. \A c \in Call :
         event'[c] = IF c[1] = r /\ event[c] = "waiting" THEN "due" ELSE event[c]
  BY <1>1, <1>2, CallParts DEF Notify, IsTransactionActive
<1>7. /\ StacksMatch' /\ HistoryOfBegun' /\ OpenOnStack' /\ LevelsHoldUnits'
      /\ \A c \in Call : fate'[c] = IF unit[c] = top THEN "kept" ELSE fate[c]
      /\ \A c \in Call : c[1] = r /\ Len(stack[r]) = 1 => fate'[c] # "open"
  <2>1. failing' = failing \ {r} /\ Len(levels'[r]) = Len(levels[r]) - 1
        /\ \A i \in 1 .. Len(levels[r]) - 1 : levels'[r][i] = levels[r][i]
    BY <1>2, <1>5
  <2>2. \A c \in Call : event[c] = "none" => event'[c] = "none"
    BY <1>6
  <2>3. UNCHANGED <<begun, wrote>> /\ stack[r] # <<>>
    BY <1>2
  <2> QED  BY <1>4, <1>5, <2>1, <2>2, <2>3, EndsStep
<1>8. top = stack[r][1] /\ 1 \in 1 .. Len(stack[r])
  BY <1>2, <1>3, InnermostCall
<1>9. \A c \in Call : unit[c] = top => c[1] = r /\ fate[c] = "open" /\ c \notin committed
  BY <1>8, UnitsOnStack
<1> HIDE DEF top
<1>10. levels[r][1] = {c \in wrote : unit[c] = top}
  BY <1>2, <1>8 DEF Invariant, LevelsHoldUnits
<1>11. TypeOK'
  <2>1. levels' \in [QueryRunners -> Seq(SUBSET Call)] /\ aborted' \in [QueryRunners -> BOOLEAN]
    BY <1>1, <1>2 DEF Invariant, TypeOK
  <2>2. stack' \in [Requests -> Seq(Call)] /\ \A q \in failing' : stack'[q] # <<>>
    BY <1>2, <1>3, <1>4 DEF Invariant, TypeOK, Ends
  <2>3. event' \in [Call -> EventState] /\ fate' \in [Call -> Fate] /\ unit' = unit
    BY <1>2, <1>4 DEF Invariant, TypeOK, Ends, Notify, EventState, Fate
  <2>4. committed' \subseteq wrote
    BY <1>2, <1>10 DEF Invariant, TypeOK
  <2> QED  BY <1>2, <2>1, <2>2, <2>3, <2>4 DEF Invariant, TypeOK
<1>12. AllOrNothing'
  <2>1. unit' = unit /\ wrote \subseteq Call /\ committed \subseteq wrote
    BY <1>4 DEF Ends, Invariant, TypeOK
  <2> QED  BY <1>2, <1>7, <1>9, <1>10, <2>1 DEF Invariant, AllOrNothing
<1>13. EventsMatch'
  <2> SUFFICES ASSUME NEW c \in Call
               PROVE  /\ event'[c] = "dropped" => fate'[c] = "undone"
                      /\ event'[c] = "waiting" => fate'[c] # "kept"
                      /\ event'[c] \in {"due", "delivered"} => fate'[c] \in {"kept", "undone"}
    BY DEF EventsMatch
  <2>1. /\ event[c] = "dropped" => fate[c] = "undone"
        /\ event[c] = "waiting" => fate[c] \in {"open", "undone"}
        /\ event[c] \in {"due", "delivered"} => fate[c] \in {"kept", "undone"}
    BY DEF Invariant, EventsMatch, HistoryOfBegun, TypeOK, Fate
  <2>2. /\ fate'[c] \in {fate[c], "kept"}
        /\ fate'[c] # fate[c] => fate[c] = "open" /\ c[1] = r
    BY <1>7, <1>9
  <2> QED  BY <1>3, <1>6, <1>7, <2>1, <2>2
<1> QED  BY <1>7, <1>11, <1>12, <1>13 DEF Invariant

\* The release of a savepoint hands its writes, and the calls that hang on it,
\* to the call around it.
LEMMA ReleaseInvariant ==
    ASSUME ~Shared, Invariant, NEW r \in Requests, ReleaseSavepoint(r)
    PROVE  Invariant'
<1> DEFINE n == Len(stack[r])
           top == stack[r][n]
           around == stack[r][n - 1]
<1>1. /\ QueryRunners = Requests /\ \A q \in Requests : QueryRunner(q) = q
      /\ Depth(r) = Len(levels[r])
  BY OwnRunner DEF Depth
<1>2. /\ stack[r] # <<>> /\ r \notin failing /\ Len(levels[r]) > 1
      /\ UNCHANGED <<begun, aborted, committed, wrote>>
  BY <1>1 DEF ReleaseSavepoint, Executing
<1>3. CASE aborted[r]
  <2>1. failing' = failing \cup {r} /\ UNCHANGED <<stack, levels, event, unit, fate>>
    BY <1>1, <1>3 DEF ReleaseSavepoint, promise
  <2>2. TypeOK'
    BY <1>2, <2>1 DEF Invariant, TypeOK
  <2> QED  BY <1>2, <2>1, <2>2, LightStep
<1>4. CASE ~aborted[r]
  <2>1. /\ levels' = [levels EXCEPT ![r] = Merged(@)] /\ failing' = failing
        /\ Resolves(r) /\ Notify(r, "due")
    BY <1>1, <1>4 DEF ReleaseSavepoint
  <2>2. /\ n \in Nat /\ n > 1 /\ Len(levels[r]) = n
        /\ stack[r] \in Seq(Call) /\ levels[r] \in Seq(SUBSET Call)
    BY <1>1, <1>2 DEF Invariant, TypeOK, StacksMatch
  <2>3. /\ Without(stack[r]) \in Seq(Call) /\ Without(stack[r]) # <<>>
        /\ Len(Without(stack[r])) = n - 1
        /\ \A i \in 1 .. n - 1 : Without(stack[r])[i] = stack[r][i]
        /\ Innermost(stack[r]) = top /\ Innermost(Without(stack[r])) = around
    BY <1>2, <2>2, WithoutLast
  <2>4. /\ stack' = [stack EXCEPT ![r] = Without(@)] /\ fate' = fate
        /\ unit' = [c \in Call |-> IF unit[c] = top THEN around ELSE unit[c]]
    BY <2>1, <2>2, <2>3 DEF Resolves, Joins
  <2>5. event' = event
    <3>1. IsTransactionActive(r)
      BY <1>2 DEF IsTransactionActive
    <3> QED  BY <2>1, <3>1 DEF Notify, Invariant, TypeOK
  <2>6. /\ Merged(levels[r]) \in Seq(SUBSET Call) /\ Len(Merged(levels[r])) = n - 1
        /\ \A i \in 1 .. n - 2 : Merged(levels[r])[i] = levels[r][i]
        /\ Merged(levels[r])[n - 1] = levels[r][n - 1] \cup levels[r][n]
    BY <2>2, MergedLevels
  <2>7. /\ n \in 1 .. n /\ n - 1 \in 1 .. n
        /\ \A i \in 1 .. n - 1 : i \in 1 .. n /\ i # n /\ (i = n - 1 \/ i \in 1 .. n - 2)
        /\ \A i \in 1 .. n : i = n \/ i \in 1 .. n - 1
    BY <2>2
  <2>8. /\ top \in Call /\ top[1] = r /\ unit[top] = top /\ fate[top] = "open"
        /\ around \in Call /\ around[1] = r /\ unit[around] = around
        /\ fate[around] = "open" /\ around[2] <= begun[r]
    BY <2>7, StackCalls
  <2>9. \A c \in Call : unit[c] \in {top, around}
                          => c[1] = r /\ fate[c] = "open" /\ c \notin committed
    <3>1. \A i \in 1 .. n : \A c \in Call :
             unit[c] = stack[r][i] => c[1] = r /\ fate[c] = "open" /\ c \notin committed
      BY UnitsOnStack
    <3> QED  BY <2>7, <3>1
  <2>10. \A i \in 1 .. n - 1 : stack[r][i] # top
    BY <2>7 DEF Invariant, StacksMatch
  <2>11. /\ stack'[r] = Without(stack[r]) /\ levels'[r] = Merged(levels[r])
         /\ \A q \in Requests \ {r} : stack'[q] = stack[q] /\ levels'[q] = levels[q]
    BY <1>1, <2>1, <2>4 DEF Invariant, TypeOK
  <2>12. /\ \A i \in 1 .. n : stack[r][i][1] = r /\ unit[stack[r][i]] = stack[r][i]
         /\ \A i, j \in 1 .. n : stack[r][i] = stack[r][j] => i = j
    BY DEF Invariant, StacksMatch
  <2>13. \A q \in Requests \ {r} : \A i \in 1 .. Len(stack[q]) :
            /\ stack[q][i] \in Call /\ stack[q][i][1] = q /\ stack[q][i] # top
            /\ stack[q][i] # around
    BY <2>8, StackCalls
  <2>14. \A i \in 1 .. n : stack[r][i] \in Call
    BY StackCalls
  <2> HIDE DEF n, top, around
  <2>15. TypeOK'
    <3>1. levels' \in [QueryRunners -> Seq(SUBSET Call)]
      BY <1>1, <2>1, <2>6 DEF Invariant, TypeOK
    <3>2. stack' \in [Requests -> Seq(Call)] /\ \A q \in failing' : stack'[q] # <<>>
      BY <1>2, <2>1, <2>3, <2>4 DEF Invariant, TypeOK
    <3>3. unit' \in [Call -> Call]
      BY <2>4, <2>8 DEF Invariant, TypeOK
    <3> QED  BY <1>2, <2>1, <2>4, <2>5, <3>1, <3>2, <3>3 DEF Invariant, TypeOK
  <2>16. StacksMatch'
    <3>1. \A q \in Requests \ {r} :
             /\ Len(levels'[q]) = Len(stack'[q])
             /\ \A i \in 1 .. Len(stack'[q]) :
                   stack'[q][i][1] = q /\ unit'[stack'[q][i]] = stack'[q][i]
             /\ \A i, j \in 1 .. Len(stack'[q]) : stack'[q][i] = stack'[q][j] => i = j
             /\ aborted'[q] => stack'[q] # <<>>
      BY <1>2, <2>4, <2>11, <2>13 DEF Invariant, StacksMatch
    <3>2. \A i \in 1 .. n - 1 :
             /\ stack'[r][i] = stack[r][i] /\ i \in 1 .. n
             /\ unit'[stack[r][i]] = stack[r][i]
      BY <2>3, <2>4, <2>7, <2>10, <2>11, <2>12, <2>14
    <3>3. /\ Len(levels'[r]) = n - 1 /\ Len(stack'[r]) = n - 1
          /\ \A i \in 1 .. n - 1 :
                stack'[r][i][1] = r /\ unit'[stack'[r][i]] = stack'[r][i]
          /\ \A i, j \in 1 .. n - 1 : stack'[r][i] = stack'[r][j] => i = j
      BY <2>3, <2>6, <2>11, <2>12, <3>2
    <3>4. ~aborted'[r]
      BY <1>2, <1>4
    <3> QED  BY <3>1, <3>3, <3>4 DEF StacksMatch
  <2>17. HistoryOfBegun'
    <3> SUFFICES ASSUME NEW c \in Call
                 PROVE  IF c[2] <= begun[c[1]]
                        THEN fate[c] # "unknown" /\ unit'[c][2] <= begun[c[1]]
                        ELSE fate[c] = "unknown" /\ unit'[c] = c
                             /\ c \notin wrote /\ event[c] = "none"
      BY <1>2, <2>4, <2>5 DEF HistoryOfBegun
    <3>1. CASE unit[c] = top
      BY <2>4, <2>8, <2>9, <3>1 DEF Invariant, HistoryOfBegun
    <3>2. CASE unit[c] # top
      BY <2>4, <3>2 DEF Invariant, HistoryOfBegun
    <3> QED  BY <3>1, <3>2
  <2>18. OpenOnStack'
    <3> SUFFICES ASSUME NEW c \in Call
                 PROVE  /\ unit'[c][1] = c[1]
                        /\ fate[c] = "open" <=>
                             \E i \in 1 .. Len(stack'[c[1]]) : unit'[c] = stack'[c[1]][i]
      BY <2>4 DEF OpenOnStack
    <3>1. /\ unit[c][1] = c[1] /\ c[1] \in Requests
          /\ fate[c] = "open" <=> \E i \in 1 .. Len(stack[c[1]]) : unit[c] = stack[c[1]][i]
      BY CallParts DEF Invariant, OpenOnStack
    <3>2. CASE unit[c] = top
      <4>1. /\ c[1] = r /\ fate[c] = "open" /\ unit'[c] = around
            /\ Len(stack'[r]) = n - 1 /\ n - 1 \in 1 .. n - 1 /\ stack'[r][n - 1] = around
        BY <2>2, <2>3, <2>4, <2>9, <2>11, <3>2 DEF around
      <4> QED  BY <2>8, <4>1
    <3>3. CASE unit[c] # top /\ c[1] # r
      BY <2>4, <2>11, <3>1, <3>3
    <3>4. CASE unit[c] # top /\ c[1] = r
      <4>1. (\E i \in 1 .. n : unit[c] = stack[r][i])
               <=> (\E i \in 1 .. n - 1 : unit[c] = stack'[r][i])
        BY <2>3, <2>7, <2>11, <3>4 DEF top
      <4> QED  BY <2>3, <2>4, <2>11, <3>1, <3>4, <4>1 DEF n
    <3> QED  BY <3>2, <3>3, <3>4
  <2>19. LevelsHoldUnits'
    <3>1. \A q \in Requests \ {r} : \A i \in 1 .. Len(stack[q]) :
             {c \in wrote : unit'[c] = stack[q][i]} = {c \in wrote : unit[c] = stack[q][i]}
      BY <2>4, <2>13 DEF Invariant, TypeOK
    <3>2. \A q \in Requests \ {r} : \A i \in 1 .. Len(stack'[q]) :
             i < Len(stack'[q]) \/ q \notin failing'
                 => levels'[q][i] = {c \in wrote' : unit'[c] = stack'[q][i]}
      BY <1>2, <2>1, <2>11, <3>1 DEF Invariant, LevelsHoldUnits
    <3>3. \A i \in 1 .. n : levels[r][i] = {c \in wrote : unit[c] = stack[r][i]}
      BY <1>2 DEF Invariant, LevelsHoldUnits, n
    <3>4. \A i \in 1 .. n - 2 : levels'[r][i] = {c \in wrote : unit'[c] = stack'[r][i]}
      <4> SUFFICES ASSUME NEW i \in 1 .. n - 2
                   PROVE  levels[r][i] = {c \in wrote : unit'[c] = stack[r][i]}
        BY <2>2, <2>3, <2>6, <2>11
      <4>1. stack[r][i] # top /\ stack[r][i] # around
        BY <2>2, <2>7, <2>10, <2>12 DEF around
      <4> QED  BY <2>2, <2>4, <3>3, <4>1 DEF Invariant, TypeOK
    <3>5. levels'[r][n - 1] = {c \in wrote : unit'[c] = stack'[r][n - 1]}
      <4>1. /\ levels'[r][n - 1] = {c \in wrote : unit[c] \in {around, top}}
            /\ stack'[r][n - 1] = around
        BY <2>2, <2>3, <2>6, <2>7, <2>11, <3>3 DEF around, top
      <4>2. wrote \subseteq Call
        BY DEF Invariant, TypeOK
      <4> QED  BY <2>4, <4>1, <4>2
    <3>6. \A i \in 1 .. Len(stack'[r]) :
             levels'[r][i] = {c \in wrote' : unit'[c] = stack'[r][i]}
      BY <1>2, <2>3, <2>7, <2>11, <3>4, <3>5
    <3> QED  BY <3>2, <3>6 DEF LevelsHoldUnits
  <2>20. AllOrNothing'
    <3>1. wrote \subseteq Call
      BY DEF Invariant, TypeOK
    <3> QED  BY <1>2, <2>4, <2>9, <3>1 DEF Invariant, AllOrNothing
  <2>21. EventsMatch'
    BY <2>4, <2>5 DEF Invariant, EventsMatch
  <2> QED  BY <2>15, <2>16, <2>17, <2>18, <2>19, <2>20, <2>21 DEF Invariant
<1> QED  BY <1>3, <1>4

-----------------------------------------------------------------------------
(* The theorems.                                                           *)

\* Every step keeps the invariant.
LEMMA NextInvariant ==
    ASSUME ~Shared, Invariant, [Next]_vars
    PROVE  Invariant'
<1>1. ASSUME NEW r \in Requests, RequestStep(r) PROVE Invariant'
  <2>1. CASE Begin(r)
    BY <2>1, BeginInvariant
  <2>2. CASE Write(r)
    BY <2>2, WriteInvariant
  <2>3. CASE StatementFails(r) \/ WorkFails(r) \/ Publish(r) \/ CommitFails(r)
    <3>1. stack[r] # <<>>
      BY <2>3 DEF StatementFails, WorkFails, Publish, CommitFails, Executing
    <3>2. Innermost(stack[r]) \in Call
      BY <3>1, InnermostCall
    <3> QED  BY <2>3, <3>2, LightInvariant
  <2>4. CASE ReleaseSavepoint(r)
    BY <2>4, ReleaseInvariant
  <2>5. CASE CommitTransaction(r)
    BY <2>5, CommitInvariant
  <2>6. CASE Rollback(r)
    BY <2>6, RollbackInvariant
  <2> QED  BY <1>1, <2>1, <2>2, <2>3, <2>4, <2>5, <2>6 DEF RequestStep, EndCall
<1>2. ASSUME NEW c \in Call, Deliver(c) PROVE Invariant'
  BY <1>2, LightInvariant, CallParts
<1>3. CASE UNCHANGED vars
  <2>1. TypeOK'
    BY <1>3 DEF vars, Invariant, TypeOK
  <2> QED  BY <1>3, <2>1, LightStep DEF vars
<1> QED  BY <1>1, <1>2, <1>3 DEF Next

\* With a query runner for each request the invariant holds in every behaviour.
THEOREM Invariance == ASSUME ~Shared PROVE Spec => []Invariant
BY InitInvariant, NextInvariant, PTL DEF Spec

\* Every variable keeps its type, and only a request with a call can fail.
THEOREM TypeCorrect == ASSUME ~Shared PROVE Spec => []TypeOK
<1>1. Invariant => TypeOK
  BY DEF Invariant
<1> QED  BY <1>1, Invariance, PTL

\* Work is committed as a whole, nested calls included, or not at all, and never
\* when a call has rejected: whatever the work does with its errors, however
\* deep it nests, and wherever a statement, the work or the COMMIT fails.
THEOREM WorkIsAtomic == ASSUME ~Shared PROVE Spec => []AllOrNothing
<1>1. Invariant => AllOrNothing
  BY DEF Invariant
<1> QED  BY <1>1, Invariance, PTL

\* An event is never delivered before the work that published it has ended,
\* and never lost when that work was kept.
THEOREM EventsWait == ASSUME ~Shared PROVE Spec => []EventsFollowTransaction
<1>1. Invariant => EventsFollowTransaction
  BY DEF Invariant, EventsMatch, EventsFollowTransaction
<1> QED  BY <1>1, Invariance, PTL

\* A request that has ended leaves no transaction on its connection.
THEOREM ConnectionGivenBack == ASSUME ~Shared PROVE Spec => []ConnectionIsClean
<1>1. ASSUME Invariant PROVE ConnectionIsClean
  <2>1. \A r \in Requests : stack[r] = <<>> => levels[r] = <<>> /\ ~aborted[r]
    <3> SUFFICES ASSUME NEW r \in Requests, stack[r] = <<>>
                 PROVE  levels[r] = <<>> /\ ~aborted[r]
      OBVIOUS
    <3>1. levels[r] \in Seq(SUBSET Call) /\ Len(levels[r]) = Len(stack[r]) /\ ~aborted[r]
      BY <1>1, OwnRunner DEF Invariant, TypeOK, StacksMatch
    <3>2. Len(<<>>) = 0
      OBVIOUS
    <3> QED  BY <3>1, <3>2
  <2> QED  BY <2>1, OwnRunner DEF ConnectionIsClean
<1> QED  BY <1>1, Invariance, PTL

-----------------------------------------------------------------------------
(* The promise of executeInTransaction, where no error of an aborting        *)
(* database is caught.                                                     *)

\* No call can resolve in an aborted transaction, and what was kept is committed.
PromiseKept ==
    /\ \A r \in Requests : aborted[r] => r \in failing
    /\ \A c \in wrote : fate[c] = "kept" => c \in committed

\* Every step keeps the promise.
LEMMA NextPromise ==
    ASSUME ~Shared, AbortsOnError => ~CatchesErrors, Invariant, PromiseKept, [Next]_vars
    PROVE  PromiseKept'
<1>1. QueryRunners = Requests /\ \A q \in Requests : QueryRunner(q) = q
  BY OwnRunner
<1>2. ASSUME NEW r \in Requests, RequestStep(r) PROVE PromiseKept'
  <2>1. CASE Begin(r)
    <3> DEFINE call == <<r, begun[r] + 1>>
    <3>1. call \notin wrote
      <4>1. begun[r] \in Nat /\ begun[r] + 1 \in 1 .. MaxCalls[r]
        <5>1. begun[r] < MaxCalls[r]
          BY <2>1 DEF Begin
        <5> QED  BY <5>1, CallsAssumption DEF Invariant, TypeOK
      <4>2. call \in Call /\ call[1] = r /\ call[2] = begun[r] + 1
        BY <4>1, CallMade
      <4> QED  BY <4>1, <4>2 DEF Invariant, HistoryOfBegun
    <3>2. /\ fate' \in {[fate EXCEPT ![call] = "undone"], [fate EXCEPT ![call] = "open"]}
          /\ UNCHANGED <<failing, aborted, committed, wrote>>
      BY <2>1 DEF Begin
    <3> HIDE DEF call
    <3>3. \A c \in wrote : fate'[c] = fate[c]
      BY <3>1, <3>2 DEF Invariant, TypeOK
    <3> QED  BY <3>2, <3>3 DEF PromiseKept
  <2>2. CASE Write(r)
    <3>1. stack[r] # <<>> /\ wrote' = wrote \cup {Innermost(stack[r])}
          /\ UNCHANGED <<failing, aborted, committed, fate>>
      BY <2>2 DEF Write, Executing, promise
    <3>2. fate[Innermost(stack[r])] = "open"
      BY <3>1, InnermostCall
    <3> QED  BY <3>1, <3>2 DEF PromiseKept
  <2>3. CASE StatementFails(r)
    <3>1. /\ aborted' = [aborted EXCEPT ![r] = @ \/ AbortsOnError]
          /\ failing' = failing \cup {r} \/ (CatchesErrors /\ failing' = failing)
          /\ UNCHANGED <<committed, wrote, fate>>
      BY <1>1, <2>3 DEF StatementFails, promise
    <3>2. failing \subseteq failing'
      BY <3>1
    <3>3. CASE AbortsOnError
      BY <1>1, <3>1, <3>2, <3>3 DEF PromiseKept, Invariant, TypeOK
    <3>4. CASE ~AbortsOnError
      <4>1. \A q \in Requests : aborted'[q] => aborted[q]
        BY <1>1, <3>1, <3>4 DEF Invariant, TypeOK
      <4> QED  BY <3>1, <3>2, <4>1 DEF PromiseKept
    <3> QED  BY <3>3, <3>4
  <2>4. CASE WorkFails(r) \/ Publish(r)
    BY <2>4 DEF WorkFails, Publish, PromiseKept, database, promise
  <2>5. CASE ReleaseSavepoint(r)
    <3>1. /\ failing \subseteq failing' /\ UNCHANGED <<aborted, committed, wrote, fate>>
      <4>1. CASE aborted[r]
        BY <1>1, <2>5, <4>1 DEF ReleaseSavepoint, promise
      <4>2. CASE ~aborted[r]
        <5>1. /\ Resolves(r) /\ Len(levels[r]) > 1 /\ failing' = failing
              /\ UNCHANGED <<aborted, committed, wrote>>
          BY <1>1, <2>5, <4>2 DEF ReleaseSavepoint, Depth
        <5>2. Len(stack[r]) # 1
          BY <5>1 DEF Invariant, StacksMatch
        <5> QED  BY <5>1, <5>2 DEF Resolves, Joins
      <4> QED  BY <4>1, <4>2
    <3> QED  BY <3>1 DEF PromiseKept
  <2>6. CASE CommitTransaction(r)
    <3>1. /\ stack[r] # <<>> /\ ~aborted[r] /\ Len(levels[r]) = 1
          /\ committed' = IF aborted[r] THEN committed ELSE committed \cup levels[r][1]
          /\ aborted' = [aborted EXCEPT ![r] = FALSE]
          /\ Resolves(r) /\ UNCHANGED <<failing, wrote>> /\ r \notin failing
      BY <1>1, <2>6 DEF CommitTransaction, Executing, Depth, PromiseKept
    <3>2. Len(stack[r]) = 1 /\ Innermost(stack[r]) = stack[r][1]
      BY <3>1, InnermostCall DEF Invariant, StacksMatch
    <3>3. levels[r][1] = {c \in wrote : unit[c] = Innermost(stack[r])}
      BY <3>1, <3>2 DEF Invariant, LevelsHoldUnits
    <3>4. \A c \in Call : fate'[c] = IF unit[c] = Innermost(stack[r]) THEN "kept" ELSE fate[c]
      BY <3>1, <3>2 DEF Resolves, Ends
    <3>5. \A q \in Requests : aborted'[q] => aborted[q]
      BY <1>1, <3>1 DEF Invariant, TypeOK
    <3>6. wrote \subseteq Call
      BY DEF Invariant, TypeOK
    <3> QED  BY <3>1, <3>3, <3>4, <3>5, <3>6 DEF PromiseKept
  <2>7. CASE CommitFails(r)
    <3>1. /\ aborted' = [aborted EXCEPT ![r] = FALSE] /\ failing \subseteq failing'
          /\ UNCHANGED <<committed, wrote, fate>>
      BY <1>1, <2>7 DEF CommitFails, promise
    <3>2. \A q \in Requests : aborted'[q] => aborted[q]
      BY <1>1, <3>1 DEF Invariant, TypeOK
    <3> QED  BY <3>1, <3>2 DEF PromiseKept
  <2>8. CASE Rollback(r)
    <3>1. /\ aborted' = [aborted EXCEPT ![r] = FALSE] /\ failing' = failing \ {r}
          /\ Ends(r, "undone") /\ UNCHANGED <<committed, wrote>>
      BY <1>1, <2>8 DEF Rollback
    <3>2. \A q \in Requests : aborted'[q] => aborted[q] /\ q # r
      BY <1>1, <3>1 DEF Invariant, TypeOK
    <3>3. \A c \in wrote : fate'[c] = "kept" => fate[c] = "kept"
      BY <3>1 DEF Ends, Invariant, TypeOK
    <3> QED  BY <3>1, <3>2, <3>3 DEF PromiseKept
  <2> QED  BY <1>2, <2>1, <2>2, <2>3, <2>4, <2>5, <2>6, <2>7, <2>8 DEF RequestStep, EndCall
<1>3. ASSUME NEW c \in Call, Deliver(c) PROVE PromiseKept'
  BY <1>3 DEF Deliver, PromiseKept, database, promise
<1>4. CASE UNCHANGED vars
  BY <1>4 DEF vars, PromiseKept
<1> QED  BY <1>2, <1>3, <1>4 DEF Next

\* The doc comment of executeInTransaction is right where a failed statement
\* does not abort the transaction, or where no work catches its error: work is
\* committed if and only if the calls it belongs to have resolved.
THEOREM DocumentedPromise ==
    ASSUME ~Shared, AbortsOnError => ~CatchesErrors
    PROVE  Spec => []CommittedAsPromised
<1>1. Init => PromiseKept
  BY OwnRunner DEF Init, PromiseKept
<1>2. PromiseKept /\ Invariant /\ [Next]_vars => PromiseKept'
  BY NextPromise
<1>3. PromiseKept /\ Invariant => CommittedAsPromised
  BY DEF PromiseKept, Invariant, AllOrNothing, CommittedAsPromised
<1> QED  BY <1>1, <1>2, <1>3, Invariance, PTL DEF Spec
=============================================================================
