--------------------------- MODULE HandlerProofs ---------------------------
(***************************************************************************)
(* The order of blocking event handlers, for any handlers.                 *)
(***************************************************************************)
EXTENDS BlockingHandlers, FiniteSetTheorems, TLAPS

-----------------------------------------------------------------------------
(***************************************************************************)
(* The walk.  Its parts are named with the list L, the open calls C, the   *)
(* handlers D that are ordered and the index n of the loop.                *)
(***************************************************************************)

Distinct(L) == \A i, j \in DOMAIN L : L[i].id = L[j].id => i = j

\* e is before f in D.
Precedes(D, e, f) == \E i, j \in DOMAIN D : i < j /\ D[i] = e /\ D[j] = f

\* What is ordered is on the list, once.
OrderedFromList(L, D) == Distinct(D) /\ ToSet(D) \subseteq ToSet(L)

\* An open call is of a handler on the list that is not ordered, once, and
\* visiting holds their ids.
CallsOpen(L, C, V, D) ==
    /\ \A i \in DOMAIN C : C[i].handler \in ToSet(L) \ ToSet(D)
    /\ \A i, j \in DOMAIN C : C[i].handler = C[j].handler => i = j
    /\ V = {C[i].handler.id : i \in DOMAIN C}

\* A call that has called another one waits for the handler it comes after, or
\* that one is ordered.
CallsWait(L, C, D) ==
    /\ \A i \in DOMAIN C : i < Len(C) => C[i].at = "self"
    /\ \A i \in DOMAIN C : C[i].at = "self" =>
          \A a \in ToSet(L) : a.id = C[i].handler.after =>
              a \in ToSet(D) \/ (i < Len(C) /\ C[i + 1].handler = a)

\* A handler is ordered behind the one it comes after.
AfterKept(L, D) ==
    \A h \in ToSet(D), a \in ToSet(L) : a.id = h.after => Precedes(D, a, h)

\* The loop leaves nothing behind.
LoopDone(L, n, C, D) ==
    \A i \in DOMAIN L : i < n =>
        L[i] \in ToSet(D) \/ (C # <<>> /\ C[1].handler = L[i])

\* h names b as the one to run before, and b was registered later and is named by
\* nothing else.
Leads(L, A, h, b) ==
    /\ h \in ToSet(L) /\ b \in ToSet(L)
    /\ b.id = h.before /\ h.before # h.after
    /\ \A g \in ToSet(L) : g.id # h.id => g.after # b.id /\ g.before # b.id
    /\ Precedes(A, h.id, b.id)

\* Nothing enters b before h is ordered.
LeadersFirst(L, A, C, D) ==
    \A h, b \in ToSet(L) : Leads(L, A, h, b) =>
        /\ Precedes(L, h, b)
        /\ b \in ToSet(D) => Precedes(D, h, b)
        /\ \A i \in DOMAIN C : C[i].handler = b => h \in ToSet(D)

-----------------------------------------------------------------------------
(* The inductive invariant.                                                *)

\* The handlers between two registrations.
HandlersTyped ==
    /\ handlers \in Seq(Handler) /\ arrived \in Seq(HandlerIds)
    /\ list \in Seq(Handler) /\ ordered \in Seq(Handler) /\ visits \in Seq(OpenVisit)
    /\ next \in Nat \ {0} /\ visiting \subseteq HandlerIds
    /\ threw \in BOOLEAN

HandlersArrived ==
    /\ Distinct(handlers)
    /\ Len(handlers) = Len(arrived)
    /\ {h.id : h \in ToSet(handlers)} = ToSet(arrived)
    /\ \A i, j \in DOMAIN arrived : arrived[i] = arrived[j] => i = j

HandlersInOrder ==
    ~threw =>
        /\ AfterKept(handlers, handlers)
        /\ \A h, b \in ToSet(handlers) :
              Leads(handlers, arrived, h, b) => Precedes(handlers, h, b)

\* The walk over the handlers and the new one.
NoWalk == list = <<>> /\ visits = <<>> /\ visiting = {} /\ ordered = <<>>

WalkParts(L, t, A, n, C, V, D) ==
    /\ OrderedFromList(L, D)
    /\ CallsOpen(L, C, V, D)
    /\ CallsWait(L, C, D)
    /\ AfterKept(L, D)
    /\ LoopDone(L, n, C, D)
    /\ ~t => LeadersFirst(L, A, C, D)

ListWalk ==
    /\ Len(list) = Len(handlers) + 1
    /\ \A i \in DOMAIN handlers : list[i] = handlers[i]
    /\ Distinct(list)
    /\ WalkParts(list, threw, Append(arrived, list[Len(list)].id), next, visits, visiting, ordered)

HandlersInv ==
    /\ HandlersTyped
    /\ HandlersArrived
    /\ HandlersInOrder
    /\ list = <<>> => NoWalk
    /\ list # <<>> => ListWalk

-----------------------------------------------------------------------------
(* Sequences.                                                              *)

LEMMA AppendedTo ==
    ASSUME NEW S, NEW s \in Seq(S), NEW e \in S
    PROVE  /\ Append(s, e) \in Seq(S) /\ Append(s, e) # <<>>
           /\ Len(Append(s, e)) = Len(s) + 1
           /\ DOMAIN s = 1 .. Len(s) /\ Len(s) \in Nat
           /\ DOMAIN Append(s, e) = 1 .. Len(s) + 1
           /\ \A i \in 1 .. Len(s) : Append(s, e)[i] = s[i]
           /\ Append(s, e)[Len(s) + 1] = e
OBVIOUS

LEMMA AppendedSet ==
    ASSUME NEW S, NEW s \in Seq(S), NEW e \in S
    PROVE  ToSet(Append(s, e)) = ToSet(s) \cup {e}
<1>1. ToSet(Append(s, e)) \subseteq ToSet(s) \cup {e}
  BY AppendedTo DEF ToSet
<1>2. ASSUME NEW x \in ToSet(s) PROVE x \in ToSet(Append(s, e))
  <2>1. PICK i \in DOMAIN s : s[i] = x
    BY DEF ToSet
  <2>2. i \in DOMAIN Append(s, e) /\ Append(s, e)[i] = x
    BY <2>1, AppendedTo
  <2> QED
    BY <2>2 DEF ToSet
<1>3. e \in ToSet(Append(s, e))
  <2>1. Len(s) + 1 \in DOMAIN Append(s, e) /\ Append(s, e)[Len(s) + 1] = e
    BY AppendedTo
  <2> QED
    BY <2>1 DEF ToSet
<1> QED
  BY <1>1, <1>2, <1>3

LEMMA FrontAndLast ==
    ASSUME NEW S, NEW s \in Seq(S), s # <<>>
    PROVE  /\ Len(s) \in Nat \ {0} /\ DOMAIN s = 1 .. Len(s)
           /\ Last(s) = s[Len(s)] /\ Last(s) \in S
           /\ Front(s) \in Seq(S) /\ Len(Front(s)) = Len(s) - 1
           /\ DOMAIN Front(s) = 1 .. Len(s) - 1
           /\ \A i \in 1 .. Len(s) - 1 : Front(s)[i] = s[i]
<1>1. Len(s) \in Nat \ {0} /\ DOMAIN s = 1 .. Len(s) /\ \A i \in 1 .. Len(s) : s[i] \in S
  OBVIOUS
<1>2. Last(s) = s[Len(s)] /\ Last(s) \in S
  BY <1>1 DEF Last
<1>3. Front(s) = [i \in 1 .. Len(s) - 1 |-> s[i]]
  BY <1>1 DEF Front
<1>4. Front(s) \in Seq(S) /\ Len(Front(s)) = Len(s) - 1
  BY <1>1, <1>3
<1> QED
  BY <1>1, <1>2, <1>3, <1>4

LEMMA InSet ==
    ASSUME NEW S, NEW s \in Seq(S)
    PROVE  /\ ToSet(s) \subseteq S
           /\ \A i \in 1 .. Len(s) : s[i] \in ToSet(s)
           /\ \A e \in ToSet(s) : \E i \in 1 .. Len(s) : s[i] = e
BY DEF ToSet

\* What BlockingOrderKept calls at and came.
At(L, id) == SelectInSeq(L, LAMBDA h : h.id = id)
Came(A, id) == SelectInSeq(A, LAMBDA i : i = id)

\* The position of the handler of a name, in a list that has it once.
LEMMA PositionOf ==
    ASSUME NEW L \in Seq(Handler), Distinct(L), NEW i \in DOMAIN L
    PROVE  At(L, L[i].id) = i
<1>1. {j \in 1 .. Len(L) : L[j].id = L[i].id} = {i}
  BY DEF Distinct
<1>2. Min({i}) = i
  <2>1. i \in Nat
    OBVIOUS
  <2>2. \A y \in {i} : i =< y
    BY <2>1
  <2> QED
    BY <2>2 DEF Min
<1> QED
  BY <1>1, <1>2 DEF SelectInSeq, At

LEMMA PositionOfNone ==
    ASSUME NEW L, NEW id, Named(L, id) = {}, L \in Seq(Handler)
    PROVE  At(L, id) = 0
<1>1. {j \in 1 .. Len(L) : L[j].id = id} = {}
  BY InSet DEF Named
<1> QED
  BY <1>1 DEF SelectInSeq, At

LEMMA PositionIn ==
    ASSUME NEW A \in Seq(HandlerIds), \A j, k \in DOMAIN A : A[j] = A[k] => j = k,
           NEW i \in DOMAIN A
    PROVE  Came(A, A[i]) = i
<1>1. {j \in 1 .. Len(A) : A[j] = A[i]} = {i}
  OBVIOUS
<1>2. Min({i}) = i
  <2>1. i \in Nat
    OBVIOUS
  <2>2. \A y \in {i} : i =< y
    BY <2>1
  <2> QED
    BY <2>2 DEF Min
<1> QED
  BY <1>1, <1>2 DEF SelectInSeq, Came

LEMMA PositionInNone ==
    ASSUME NEW A \in Seq(HandlerIds), NEW id, id \notin ToSet(A)
    PROVE  Came(A, id) = 0
<1>1. {j \in 1 .. Len(A) : A[j] = id} = {}
  BY InSet
<1> QED
  BY <1>1 DEF SelectInSeq, Came

\* What comes first in a list does so in a longer one.
LEMMA PrecedesLonger ==
    ASSUME NEW S, NEW D \in Seq(S), NEW e \in S, NEW x, NEW y, Precedes(D, x, y)
    PROVE  Precedes(Append(D, e), x, y)
<1>1. PICK i, j \in DOMAIN D : i < j /\ D[i] = x /\ D[j] = y
  BY DEF Precedes
<1>2. /\ i \in DOMAIN Append(D, e) /\ j \in DOMAIN Append(D, e)
      /\ Append(D, e)[i] = x /\ Append(D, e)[j] = y
  BY <1>1, AppendedTo
<1> QED
  BY <1>1, <1>2 DEF Precedes

LEMMA PrecedesNew ==
    ASSUME NEW S, NEW D \in Seq(S), NEW e \in S, NEW x \in ToSet(D)
    PROVE  Precedes(Append(D, e), x, e)
<1>1. PICK i \in 1 .. Len(D) : D[i] = x
  BY InSet
<1>2. /\ i \in DOMAIN Append(D, e) /\ Len(D) + 1 \in DOMAIN Append(D, e)
      /\ Append(D, e)[i] = x /\ Append(D, e)[Len(D) + 1] = e
      /\ i < Len(D) + 1
  BY <1>1, AppendedTo
<1> QED
  BY <1>2 DEF Precedes

\* A pair of a longer list is one of the list, unless the new one is its second.
LEMMA PrecedesShorter ==
    ASSUME NEW S, NEW D \in Seq(S), NEW e \in S, NEW x, NEW y, y # e,
           Precedes(Append(D, e), x, y)
    PROVE  Precedes(D, x, y)
<1>1. PICK i, j \in DOMAIN Append(D, e) : i < j /\ Append(D, e)[i] = x /\ Append(D, e)[j] = y
  BY DEF Precedes
<1>2. i \in 1 .. Len(D) + 1 /\ j \in 1 .. Len(D) + 1 /\ Len(D) \in Nat
  BY AppendedTo
<1>3. j # Len(D) + 1
  BY <1>1, AppendedTo
<1>4. i \in DOMAIN D /\ j \in DOMAIN D /\ D[i] = x /\ D[j] = y
  BY <1>1, <1>2, <1>3, AppendedTo
<1> QED
  BY <1>1, <1>4 DEF Precedes

\* An id names one handler of a list that has it once.
LEMMA OneOfId ==
    ASSUME NEW L \in Seq(Handler), Distinct(L), NEW g \in ToSet(L), NEW h \in ToSet(L),
           g.id = h.id
    PROVE  g = h
<1>1. PICK i \in 1 .. Len(L) : L[i] = g
  BY InSet
<1>2. PICK j \in 1 .. Len(L) : L[j] = h
  BY InSet
<1>3. i \in DOMAIN L /\ j \in DOMAIN L
  OBVIOUS
<1> QED
  BY <1>1, <1>2, <1>3 DEF Distinct

-----------------------------------------------------------------------------
(***************************************************************************)
(* One visit.  Visit and VisitNamed are called with the calls C that stay  *)
(* open and the handlers D that are ordered: `Asking' is what WalkParts    *)
(* says of them while the handler of the name id has not been visited.     *)
(***************************************************************************)

Waits(L, C, D, id) ==
    \A i \in DOMAIN C :
        /\ C[i].at = "self"
        /\ \A a \in ToSet(L) : a.id = C[i].handler.after =>
              a \in ToSet(D) \/ (i < Len(C) /\ C[i + 1].handler = a) \/ (i = Len(C) /\ a.id = id)

LoopAsks(L, n, C, D, id) ==
    \A i \in DOMAIN L : i < n =>
        L[i] \in ToSet(D) \/ (C # <<>> /\ C[1].handler = L[i]) \/ (C = <<>> /\ L[i].id = id)

\* The leaders of what is visited are ordered.
LedBy(L, A, D, id) ==
    \A h, b \in ToSet(L) : b.id = id /\ Leads(L, A, h, b) => h \in ToSet(D)

Asking(L, t, A, n, C, V, D, id) ==
    /\ OrderedFromList(L, D)
    /\ CallsOpen(L, C, V, D)
    /\ Waits(L, C, D, id)
    /\ AfterKept(L, D)
    /\ LoopAsks(L, n, C, D, id)
    /\ ~t => LeadersFirst(L, A, C, D) /\ LedBy(L, A, D, id)

\* The handlers of an open call and the id that visiting holds for it.
LEMMA EnteredCalls ==
    ASSUME NEW L \in Seq(Handler), Distinct(L), NEW C \in Seq(OpenVisit), NEW V, NEW D,
           CallsOpen(L, C, V, D), NEW h \in ToSet(L) \ ToSet(D), h.id \notin V
    PROVE  /\ Append(C, Entered(h)) \in Seq(OpenVisit)
           /\ CallsOpen(L, Append(C, Entered(h)), V \cup {h.id}, D)
<1> DEFINE C1 == Append(C, Entered(h))
<1>1. Entered(h) \in OpenVisit /\ Entered(h).handler = h
  BY InSet DEF Entered, OpenVisit
<1>2. /\ C1 \in Seq(OpenVisit) /\ DOMAIN C1 = 1 .. Len(C) + 1 /\ Len(C) \in Nat
      /\ DOMAIN C = 1 .. Len(C)
      /\ \A i \in 1 .. Len(C) : C1[i] = C[i]
      /\ C1[Len(C) + 1] = Entered(h)
  BY <1>1, AppendedTo
<1> HIDE DEF C1
<1>3. \A i \in DOMAIN C1 : C1[i].handler \in ToSet(L) \ ToSet(D)
  BY <1>1, <1>2 DEF CallsOpen
<1>4. \A i \in DOMAIN C : C[i].handler # h
  BY DEF CallsOpen
<1>5. \A i, j \in DOMAIN C1 : C1[i].handler = C1[j].handler => i = j
  BY <1>1, <1>2, <1>4 DEF CallsOpen
<1>6. V \cup {h.id} = {C1[i].handler.id : i \in DOMAIN C1}
  <2>1. ASSUME NEW i \in DOMAIN C1 PROVE C1[i].handler.id \in V \cup {h.id}
    BY <1>1, <1>2 DEF CallsOpen
  <2>2. ASSUME NEW v \in V PROVE \E i \in DOMAIN C1 : C1[i].handler.id = v
    BY <1>2 DEF CallsOpen
  <2>3. C1[Len(C) + 1].handler.id = h.id /\ Len(C) + 1 \in DOMAIN C1
    BY <1>1, <1>2
  <2> QED
    BY <2>1, <2>2, <2>3
<1> QED
  BY <1>2, <1>3, <1>5, <1>6 DEF C1, CallsOpen

LEMMA EnteredWaits ==
    ASSUME NEW L \in Seq(Handler), NEW C \in Seq(OpenVisit), NEW D,
           NEW h \in ToSet(L), Waits(L, C, D, h.id), Distinct(L)
    PROVE  CallsWait(L, Append(C, Entered(h)), D)
<1> DEFINE C1 == Append(C, Entered(h))
<1>1. Entered(h) \in OpenVisit /\ Entered(h).handler = h /\ Entered(h).at = "after"
  BY InSet DEF Entered, OpenVisit
<1>2. /\ DOMAIN C1 = 1 .. Len(C) + 1 /\ Len(C) \in Nat /\ Len(C1) = Len(C) + 1
      /\ DOMAIN C = 1 .. Len(C)
      /\ \A i \in 1 .. Len(C) : C1[i] = C[i]
      /\ C1[Len(C) + 1] = Entered(h)
  BY <1>1, AppendedTo
<1> HIDE DEF C1
<1>3. ASSUME NEW i \in DOMAIN C1, i < Len(C1) PROVE i \in DOMAIN C /\ C1[i] = C[i] /\ C1[i].at = "self"
  BY <1>2, <1>3 DEF Waits
<1>4. ASSUME NEW i \in DOMAIN C1, C1[i].at = "self", NEW a \in ToSet(L), a.id = C1[i].handler.after
      PROVE  a \in ToSet(D) \/ (i < Len(C1) /\ C1[i + 1].handler = a)
  <2>1. i # Len(C) + 1
    BY <1>1, <1>2, <1>4
  <2>2. i \in DOMAIN C /\ C1[i] = C[i] /\ i < Len(C1)
    BY <1>2, <2>1
  <2>3. a \in ToSet(D) \/ (i < Len(C) /\ C[i + 1].handler = a) \/ (i = Len(C) /\ a = h)
    BY <1>4, <2>2, OneOfId DEF Waits
  <2>4. CASE i < Len(C) /\ C[i + 1].handler = a
    BY <1>2, <2>2, <2>4
  <2>5. CASE i = Len(C) /\ a = h
    BY <1>1, <1>2, <2>2, <2>5
  <2> QED
    BY <2>3, <2>4, <2>5
<1> QED
  BY <1>3, <1>4 DEF C1, CallsWait

LEMMA EnteredLoop ==
    ASSUME NEW L \in Seq(Handler), Distinct(L), NEW n, NEW C \in Seq(OpenVisit), NEW D,
           NEW h \in ToSet(L), LoopAsks(L, n, C, D, h.id)
    PROVE  LoopDone(L, n, Append(C, Entered(h)), D)
<1>1. Entered(h) \in OpenVisit /\ Entered(h).handler = h
  BY InSet DEF Entered, OpenVisit
<1>2. Append(C, Entered(h)) # <<>>
  BY <1>1, AppendedTo
<1>3. CASE C = <<>>
  <2>1. Append(C, Entered(h))[1].handler = h
    BY <1>1, <1>3
  <2>2. \A i \in DOMAIN L : L[i].id = h.id => L[i] = h
    BY OneOfId, InSet
  <2> QED
    BY <1>2, <1>3, <2>1, <2>2 DEF LoopAsks, LoopDone
<1>4. CASE C # <<>>
  <2>1. Append(C, Entered(h))[1] = C[1]
    BY <1>1, <1>4, AppendedTo
  <2> QED
    BY <1>2, <1>4, <2>1 DEF LoopAsks, LoopDone
<1> QED
  BY <1>3, <1>4

LEMMA EnteredLeaders ==
    ASSUME NEW L \in Seq(Handler), Distinct(L), NEW A, NEW C \in Seq(OpenVisit), NEW D,
           NEW h \in ToSet(L), LeadersFirst(L, A, C, D), LedBy(L, A, D, h.id)
    PROVE  LeadersFirst(L, A, Append(C, Entered(h)), D)
<1> DEFINE C1 == Append(C, Entered(h))
<1>1. Entered(h) \in OpenVisit /\ Entered(h).handler = h
  BY InSet DEF Entered, OpenVisit
<1>2. /\ DOMAIN C1 = 1 .. Len(C) + 1 /\ Len(C) \in Nat
      /\ DOMAIN C = 1 .. Len(C)
      /\ \A i \in 1 .. Len(C) : C1[i] = C[i]
      /\ C1[Len(C) + 1] = Entered(h)
  BY <1>1, AppendedTo
<1> HIDE DEF C1
<1>3. ASSUME NEW g \in ToSet(L), NEW b \in ToSet(L), Leads(L, A, g, b),
             NEW i \in DOMAIN C1, C1[i].handler = b
      PROVE  g \in ToSet(D)
  <2>1. CASE i = Len(C) + 1
    BY <1>1, <1>2, <1>3, <2>1 DEF LedBy
  <2>2. CASE i # Len(C) + 1
    BY <1>2, <1>3, <2>2 DEF LeadersFirst
  <2> QED
    BY <2>1, <2>2
<1> QED
  BY <1>3 DEF LeadersFirst, C1

LEMMA VisitStarts ==
    ASSUME NEW L \in Seq(Handler), Distinct(L), NEW t, NEW A, NEW n, NEW C \in Seq(OpenVisit),
           NEW V, NEW D, NEW h \in ToSet(L) \ ToSet(D), h.id \notin V,
           Asking(L, t, A, n, C, V, D, h.id)
    PROVE  /\ Append(C, Entered(h)) \in Seq(OpenVisit)
           /\ WalkParts(L, t, A, n, Append(C, Entered(h)), V \cup {h.id}, D)
<1>1. /\ Append(C, Entered(h)) \in Seq(OpenVisit)
      /\ CallsOpen(L, Append(C, Entered(h)), V \cup {h.id}, D)
  BY EnteredCalls DEF Asking
<1>2. CallsWait(L, Append(C, Entered(h)), D)
  BY EnteredWaits DEF Asking
<1>3. LoopDone(L, n, Append(C, Entered(h)), D)
  BY EnteredLoop DEF Asking
<1>4. ~t => LeadersFirst(L, A, Append(C, Entered(h)), D)
  BY EnteredLeaders DEF Asking
<1> QED
  BY <1>1, <1>2, <1>3, <1>4 DEF Asking, WalkParts

LEMMA VisitReturns ==
    ASSUME NEW L \in Seq(Handler), NEW t, NEW A, NEW n, NEW C \in Seq(OpenVisit),
           NEW V, NEW D, NEW id, Asking(L, t, A, n, C, V, D, id),
           \A a \in ToSet(L) : a.id = id => a \in ToSet(D)
    PROVE  WalkParts(L, t, A, n, C, V, D)
<1>1. CallsWait(L, C, D)
  BY DEF Asking, Waits, CallsWait
<1>2. LoopDone(L, n, C, D)
  <2>1. \A i \in DOMAIN L : L[i] \in ToSet(L)
    BY DEF ToSet
  <2> QED
    BY <2>1 DEF Asking, LoopAsks, LoopDone
<1> QED
  BY <1>1, <1>2 DEF Asking, WalkParts

-----------------------------------------------------------------------------
(* The steps.                                                              *)

\* A list that has each handler once is as long as its set.
LEMMA LengthOfSet ==
    ASSUME NEW L \in Seq(Handler), Distinct(L)
    PROVE  IsFiniteSet(ToSet(L)) /\ Cardinality(ToSet(L)) = Len(L)
<1>1. Len(L) \in Nat /\ DOMAIN L = 1 .. Len(L)
  OBVIOUS
<1>2. IsFiniteSet(1 .. Len(L)) /\ Cardinality(1 .. Len(L)) = Len(L)
  BY <1>1, FS_Interval
<1>3. L \in Bijection(1 .. Len(L), ToSet(L))
  <2>1. L \in [1 .. Len(L) -> ToSet(L)]
    BY <1>1, InSet
  <2>2. \A i, j \in 1 .. Len(L) : L[i] = L[j] => i = j
    BY <1>1 DEF Distinct
  <2>3. \A e \in ToSet(L) : \E i \in 1 .. Len(L) : L[i] = e
    BY InSet
  <2> QED
    BY <2>1, <2>2, <2>3 DEF Bijection, Injection, Surjection, IsInjective
<1>4. ExistsBijection(1 .. Len(L), ToSet(L))
  BY <1>3 DEF ExistsBijection
<1> QED
  BY <1>2, <1>4, FS_Bijection

NewArrived == Append(arrived, list[Len(list)].id)

\* The new handler has an id that is not on the list before it.
LEMMA ArrivedWithNew ==
    ASSUME HandlersTyped, HandlersArrived, list # <<>>, ListWalk
    PROVE  /\ Len(list) \in Nat \ {0} /\ DOMAIN list = 1 .. Len(list)
           /\ Last(list) = list[Len(list)] /\ list[Len(list)].id \in HandlerIds
           /\ NewArrived \in Seq(HandlerIds) /\ Len(NewArrived) = Len(list)
           /\ {h.id : h \in ToSet(list)} = ToSet(NewArrived)
           /\ \A i, j \in DOMAIN NewArrived : NewArrived[i] = NewArrived[j] => i = j
<1> DEFINE new == list[Len(list)].id
<1>1. /\ Len(list) \in Nat \ {0} /\ DOMAIN list = 1 .. Len(list)
      /\ Last(list) = list[Len(list)] /\ list[Len(list)] \in Handler
  BY FrontAndLast DEF HandlersTyped
<1>2. new \in HandlerIds
  BY <1>1 DEF Handler
<1>3. /\ NewArrived \in Seq(HandlerIds) /\ Len(NewArrived) = Len(arrived) + 1
      /\ DOMAIN NewArrived = 1 .. Len(arrived) + 1 /\ Len(arrived) \in Nat
      /\ DOMAIN arrived = 1 .. Len(arrived)
      /\ \A i \in 1 .. Len(arrived) : NewArrived[i] = arrived[i]
      /\ NewArrived[Len(arrived) + 1] = new
      /\ ToSet(NewArrived) = ToSet(arrived) \cup {new}
  BY <1>2, AppendedTo, AppendedSet DEF NewArrived, HandlersTyped
<1>4. /\ Len(handlers) = Len(arrived) /\ DOMAIN handlers = 1 .. Len(handlers)
      /\ Len(list) = Len(handlers) + 1 /\ \A i \in 1 .. Len(handlers) : list[i] = handlers[i]
  BY DEF HandlersArrived, HandlersTyped, ListWalk
<1>5. ToSet(list) = ToSet(handlers) \cup {list[Len(list)]}
  <2>1. ASSUME NEW e \in ToSet(list) PROVE e \in ToSet(handlers) \cup {list[Len(list)]}
    BY <1>1, <1>4 DEF ToSet
  <2>2. ASSUME NEW e \in ToSet(handlers) PROVE e \in ToSet(list)
    BY <1>1, <1>4 DEF ToSet
  <2>3. list[Len(list)] \in ToSet(list)
    BY <1>1 DEF ToSet
  <2> QED
    BY <2>1, <2>2, <2>3
<1>6. {h.id : h \in ToSet(list)} = ToSet(NewArrived)
  BY <1>3, <1>5 DEF HandlersArrived
<1>7. new \notin ToSet(arrived)
  <2>1. SUFFICES ASSUME new \in ToSet(arrived) PROVE FALSE
    OBVIOUS
  <2>2. PICK h \in ToSet(handlers) : h.id = new
    BY <2>1 DEF HandlersArrived
  <2>3. PICK i \in 1 .. Len(handlers) : handlers[i] = h
    BY InSet DEF HandlersTyped
  <2>4. list[i].id = list[Len(list)].id /\ i \in DOMAIN list /\ Len(list) \in DOMAIN list /\ i # Len(list)
    BY <1>1, <1>4, <2>2, <2>3
  <2> QED
    BY <2>4 DEF ListWalk, Distinct
<1>8. \A i \in 1 .. Len(arrived) : arrived[i] # new
  BY <1>7, InSet DEF HandlersTyped
<1>9. \A i, j \in DOMAIN NewArrived : NewArrived[i] = NewArrived[j] => i = j
  BY <1>3, <1>8 DEF HandlersArrived
<1> QED
  BY <1>1, <1>2, <1>3, <1>4, <1>6, <1>9

LEMMA RefuseKeeps ==
    ASSUME HandlersInv, list # <<>>, Refuse, next' \in Nat \ {0}
    PROVE  HandlersInv'
<1>1. ListWalk
  BY DEF HandlersInv
<1>2. /\ NewArrived \in Seq(HandlerIds) /\ Len(NewArrived) = Len(list)
      /\ {h.id : h \in ToSet(list)} = ToSet(NewArrived)
      /\ \A i, j \in DOMAIN NewArrived : NewArrived[i] = NewArrived[j] => i = j
      /\ Last(list) = list[Len(list)]
  BY <1>1, ArrivedWithNew DEF HandlersInv
<1>3. \/ UNCHANGED <<handlers, arrived>>
      \/ handlers' = list /\ arrived' = NewArrived
  BY <1>2 DEF Refuse, NewArrived
<1>4. /\ threw' = TRUE /\ list' = <<>> /\ visits' = <<>> /\ visiting' = {} /\ ordered' = <<>>
  BY DEF Refuse, EndWalk
<1>5. HandlersTyped'
  BY <1>2, <1>3, <1>4 DEF HandlersInv, HandlersTyped
<1>6. HandlersArrived'
  <2>1. CASE UNCHANGED <<handlers, arrived>>
    BY <2>1 DEF HandlersInv, HandlersArrived
  <2>2. CASE handlers' = list /\ arrived' = NewArrived
    BY <1>1, <1>2, <2>2 DEF HandlersArrived, ListWalk
  <2> QED
    BY <1>3, <2>1, <2>2
<1>7. HandlersInOrder'
  BY <1>4 DEF HandlersInOrder
<1>8. NoWalk'
  BY <1>4 DEF NoWalk
<1> QED
  BY <1>4, <1>5, <1>6, <1>7, <1>8 DEF HandlersInv

\* visit(h) while a list is ordered.
LEMMA VisitKeeps ==
    ASSUME HandlersInv, list # <<>>, NEW h \in ToSet(list),
           NEW C \in Seq(OpenVisit), NEW V \in SUBSET HandlerIds, NEW D \in Seq(Handler),
           next' \in Nat \ {0}, Asking(list, threw, NewArrived, next', C, V, D, h.id),
           Visit(h, C, V, D)
    PROVE  HandlersInv'
<1>1. ListWalk /\ HandlersTyped /\ Distinct(list)
  BY DEF HandlersInv, ListWalk
<1>2. CASE h.id \in V
  BY <1>2, RefuseKeeps DEF Visit
<1>3. CASE h.id \notin V
  <2>1. UNCHANGED <<handlers, list, arrived, threw>> /\ ordered' = D
    BY <1>3 DEF Visit
  <2>2. /\ visits' \in Seq(OpenVisit) /\ visiting' \in SUBSET HandlerIds
        /\ WalkParts(list, threw, NewArrived, next', visits', visiting', D)
    <3>1. CASE Contains(D, h)
      <4>1. h \in ToSet(D)
        BY <3>1, InSet DEF Contains
      <4>2. \A a \in ToSet(list) : a.id = h.id => a \in ToSet(D)
        BY <1>1, <4>1, OneOfId DEF HandlersTyped
      <4>3. visits' = C /\ visiting' = V
        BY <1>3, <3>1 DEF Visit
      <4>4. WalkParts(list, threw, NewArrived, next', C, V, D)
        BY <1>1, <4>2, VisitReturns DEF HandlersTyped
      <4> QED
        BY <4>3, <4>4
    <3>2. CASE ~Contains(D, h)
      <4>1. h \notin ToSet(D)
        BY <3>2, InSet DEF Contains
      <4>2. visits' = Append(C, Entered(h)) /\ visiting' = V \cup {h.id}
        BY <1>3, <3>2 DEF Visit
      <4>3. /\ Append(C, Entered(h)) \in Seq(OpenVisit)
            /\ WalkParts(list, threw, NewArrived, next', Append(C, Entered(h)), V \cup {h.id}, D)
        BY <1>1, <1>3, <4>1, VisitStarts DEF HandlersTyped
      <4>4. h.id \in HandlerIds
        <5>1. h \in Handler
          BY <1>1, InSet DEF HandlersTyped
        <5> QED
          BY <5>1 DEF Handler
      <4> QED
        BY <4>2, <4>3, <4>4
    <3> QED
      BY <3>1, <3>2
  <2>3. HandlersTyped'
    BY <1>1, <2>1, <2>2 DEF HandlersTyped
  <2>4. HandlersArrived' /\ HandlersInOrder'
    BY <2>1 DEF HandlersInv, HandlersArrived, HandlersInOrder
  <2>5. ListWalk'
    BY <1>1, <2>1, <2>2 DEF ListWalk, NewArrived
  <2> QED
    BY <2>1, <2>3, <2>4, <2>5 DEF HandlersInv
<1> QED
  BY <1>2, <1>3

LEMMA VisitNamedKeeps ==
    ASSUME HandlersInv, list # <<>>, NEW id,
           NEW C \in Seq(OpenVisit), NEW V \in SUBSET HandlerIds, NEW D \in Seq(Handler),
           next' = next, Asking(list, threw, NewArrived, next, C, V, D, id),
           VisitNamed(id, C, V, D)
    PROVE  HandlersInv'
<1>1. ListWalk /\ HandlersTyped
  BY DEF HandlersInv
<1>2. CASE \E h \in Named(list, id) : Visit(h, C, V, D)
  <2>1. PICK h \in Named(list, id) : Visit(h, C, V, D)
    BY <1>2
  <2>2. h \in ToSet(list) /\ h.id = id
    BY DEF Named
  <2>3. next' \in Nat \ {0}
    BY <1>1 DEF HandlersTyped
  <2> QED
    BY <2>1, <2>2, <2>3, VisitKeeps
<1>3. CASE /\ Named(list, id) = {}
           /\ visits' = C /\ visiting' = V /\ ordered' = D
           /\ UNCHANGED <<handlers, list, arrived, threw>>
  <2>1. \A a \in ToSet(list) : a.id # id
    BY <1>3 DEF Named
  <2>2. WalkParts(list, threw, NewArrived, next, C, V, D)
    BY <1>1, <2>1, VisitReturns DEF HandlersTyped
  <2>3. HandlersTyped'
    BY <1>1, <1>3 DEF HandlersTyped
  <2>4. HandlersArrived' /\ HandlersInOrder'
    BY <1>3 DEF HandlersInv, HandlersArrived, HandlersInOrder
  <2>5. ListWalk'
    BY <1>1, <1>3, <2>2 DEF ListWalk, NewArrived
  <2> QED
    BY <1>3, <2>3, <2>4, <2>5 DEF HandlersInv
<1> QED
  BY <1>2, <1>3 DEF VisitNamed

LEMMA InitialHandlers ==
    ASSUME HandlersInit
    PROVE  HandlersInv
<1>1. HandlersTyped
  <2>1. <<>> \in Seq(Handler) /\ <<>> \in Seq(HandlerIds) /\ <<>> \in Seq(OpenVisit)
    OBVIOUS
  <2>2. next \in Nat \ {0} /\ visiting \subseteq HandlerIds
    BY DEF HandlersInit
  <2>3. threw \in BOOLEAN
    BY Zenon DEF HandlersInit
  <2>4. handlers = <<>> /\ arrived = <<>> /\ list = <<>> /\ ordered = <<>> /\ visits = <<>>
    BY DEF HandlersInit
  <2> QED
    BY <2>1, <2>2, <2>3, <2>4 DEF HandlersTyped
<1>2. HandlersArrived
  BY DEF HandlersInit, HandlersArrived, Distinct, ToSet
<1>3. HandlersInOrder
  BY DEF HandlersInit, HandlersInOrder, AfterKept, ToSet
<1> QED
  BY <1>1, <1>2, <1>3 DEF HandlersInit, HandlersInv, NoWalk

\* A new list is in the order in which the handlers have to be entered.
LEMMA NewLeads ==
    ASSUME HandlersTyped, HandlersArrived, HandlersInOrder, ~threw,
           NEW h \in Handler, Named(handlers, h.id) = {},
           NEW g, NEW b, Leads(Append(handlers, h), Append(arrived, h.id), g, b)
    PROVE  Precedes(Append(handlers, h), g, b)
<1>1. /\ handlers \in Seq(Handler) /\ arrived \in Seq(HandlerIds) /\ h.id \in HandlerIds
  BY DEF HandlersTyped, Handler
<1>2. ToSet(Append(handlers, h)) = ToSet(handlers) \cup {h}
  BY <1>1, AppendedSet
<1>3. h.id \notin ToSet(arrived) /\ \A e \in ToSet(handlers) : e.id # h.id
  BY DEF Named, HandlersArrived
<1>4. /\ g \in ToSet(handlers) \cup {h} /\ b \in ToSet(handlers) \cup {h}
      /\ b.id = g.before /\ g.before # g.after
      /\ \A e \in ToSet(handlers) \cup {h} : e.id # g.id => e.after # b.id /\ e.before # b.id
      /\ Precedes(Append(arrived, h.id), g.id, b.id)
  BY <1>2 DEF Leads
<1>5. g # h
  <2>1. SUFFICES ASSUME g = h PROVE FALSE
    OBVIOUS
  <2>2. PICK i, j \in DOMAIN Append(arrived, h.id) :
           i < j /\ Append(arrived, h.id)[i] = h.id
    BY <1>4, <2>1 DEF Precedes
  <2>3. i \in 1 .. Len(arrived) + 1 /\ j \in 1 .. Len(arrived) + 1 /\ Len(arrived) \in Nat
    BY <1>1, AppendedTo
  <2>4. i \in 1 .. Len(arrived)
    BY <2>2, <2>3
  <2>5. arrived[i] = h.id
    BY <1>1, <2>2, <2>4, AppendedTo
  <2> QED
    BY <1>1, <1>3, <2>4, <2>5, InSet
<1>6. CASE b = h
  BY <1>1, <1>4, <1>5, <1>6, PrecedesNew
<1>7. CASE b # h
  <2>1. b \in ToSet(handlers) /\ b.id # h.id /\ g \in ToSet(handlers)
    BY <1>3, <1>4, <1>5, <1>7
  <2>2. Precedes(arrived, g.id, b.id)
    BY <1>1, <1>4, <2>1, PrecedesShorter
  <2>3. Leads(handlers, arrived, g, b)
    BY <1>4, <2>1, <2>2 DEF Leads
  <2>4. Precedes(handlers, g, b)
    BY <2>1, <2>3 DEF HandlersInOrder
  <2> QED
    BY <1>1, <2>4, PrecedesLonger
<1> QED
  BY <1>6, <1>7

LEMMA RegisterKeeps ==
    ASSUME HandlersInv, RegisterBlockingEventHandler
    PROVE  HandlersInv'
<1>1. PICK h \in Handler :
        /\ list = <<>> /\ Named(handlers, h.id) = {}
        /\ list' = Append(handlers, h) /\ next' = 1
        /\ UNCHANGED <<handlers, visits, visiting, ordered, arrived, threw>>
  BY DEF RegisterBlockingEventHandler
<1>2. HandlersTyped /\ HandlersArrived /\ HandlersInOrder /\ NoWalk
  BY <1>1 DEF HandlersInv
<1>3. /\ handlers \in Seq(Handler) /\ list' \in Seq(Handler) /\ list' # <<>>
      /\ Len(list') = Len(handlers) + 1 /\ Len(handlers) \in Nat
      /\ DOMAIN handlers = 1 .. Len(handlers) /\ DOMAIN list' = 1 .. Len(handlers) + 1
      /\ \A i \in 1 .. Len(handlers) : list'[i] = handlers[i]
      /\ list'[Len(handlers) + 1] = h
  BY <1>1, <1>2, AppendedTo DEF HandlersTyped
<1>4. HandlersTyped'
  BY <1>1, <1>2, <1>3 DEF HandlersTyped
<1>5. HandlersArrived' /\ HandlersInOrder'
  BY <1>1, <1>2 DEF HandlersArrived, HandlersInOrder
<1>6. Distinct(list')
  <2>1. \A i \in 1 .. Len(handlers) : handlers[i].id # h.id
    BY <1>1, <1>3, InSet DEF Named
  <2> QED
    BY <1>2, <1>3, <2>1 DEF HandlersArrived, Distinct
<1>7. visits' = <<>> /\ visiting' = {} /\ ordered' = <<>>
  BY <1>1, <1>2 DEF NoWalk
<1>8. WalkParts(list', threw', Append(arrived', list'[Len(list')].id), next', <<>>, {}, <<>>)
  <2>1. ToSet(<<>>) = {}
    BY DEF ToSet
  <2>2. OrderedFromList(list', <<>>) /\ AfterKept(list', <<>>)
    BY <2>1 DEF OrderedFromList, AfterKept, Distinct
  <2>3. CallsOpen(list', <<>>, {}, <<>>) /\ CallsWait(list', <<>>, <<>>)
    BY DEF CallsOpen, CallsWait
  <2>4. LoopDone(list', next', <<>>, <<>>)
    BY <1>1, <1>3 DEF LoopDone
  <2>5. ASSUME ~threw' PROVE LeadersFirst(list', Append(arrived, h.id), <<>>, <<>>)
    <3>1. ASSUME NEW g, NEW b, Leads(list', Append(arrived, h.id), g, b)
          PROVE  Precedes(list', g, b)
      BY <1>1, <1>2, <2>5, <3>1, NewLeads
    <3> QED
      BY <2>1, <3>1 DEF LeadersFirst
  <2>6. Append(arrived', list'[Len(list')].id) = Append(arrived, h.id)
    BY <1>1, <1>3
  <2> QED
    BY <2>2, <2>3, <2>4, <2>5, <2>6 DEF WalkParts
<1>9. ListWalk'
  BY <1>1, <1>3, <1>6, <1>7, <1>8 DEF ListWalk
<1> QED
  BY <1>3, <1>4, <1>5, <1>9 DEF HandlersInv

\* What the walk is about, in one place for the three steps of a visit.
LEMMA WalkFacts ==
    ASSUME HandlersInv, list # <<>>
    PROVE  /\ HandlersTyped /\ HandlersArrived /\ ListWalk /\ Distinct(list)
           /\ list \in Seq(Handler) /\ ordered \in Seq(Handler) /\ visits \in Seq(OpenVisit)
           /\ WalkParts(list, threw, NewArrived, next, visits, visiting, ordered)
           /\ visiting \in SUBSET HandlerIds /\ next \in Nat \ {0}
BY DEF HandlersInv, HandlersTyped, ListWalk, NewArrived

\* What names b is what leads to b.
LEMMA NamedByLeader ==
    ASSUME NEW L \in Seq(Handler), Distinct(L), NEW A, NEW g, NEW b, Leads(L, A, g, b),
           NEW h \in ToSet(L)
    PROVE  h.after # b.id /\ (h.before = b.id => h = g)
<1>1. g \in ToSet(L)
  BY DEF Leads
<1>2. CASE h.id = g.id
  <2>1. h = g
    BY <1>1, <1>2, OneOfId
  <2> QED
    BY <2>1 DEF Leads
<1>3. CASE h.id # g.id
  BY <1>3 DEF Leads
<1> QED
  BY <1>2, <1>3

LEMMA VisitNextKeeps ==
    ASSUME HandlersInv, VisitNext
    PROVE  HandlersInv'
<1> DEFINE h == list[next]
<1>1. visits = <<>> /\ next \in DOMAIN list /\ Visit(h, visits, visiting, ordered) /\ next' = next + 1
  BY DEF VisitNext
<1>2. list # <<>>
  BY <1>1
<1>3. /\ Distinct(list) /\ list \in Seq(Handler) /\ ordered \in Seq(Handler)
      /\ visits \in Seq(OpenVisit) /\ visiting \in SUBSET HandlerIds /\ next \in Nat \ {0}
      /\ WalkParts(list, threw, NewArrived, next, visits, visiting, ordered)
  BY <1>2, WalkFacts
<1>4. h \in ToSet(list) /\ DOMAIN list = 1 .. Len(list)
  BY <1>1, <1>3, InSet
<1>5. \A i \in DOMAIN list : i < next => list[i] \in ToSet(ordered)
  BY <1>1, <1>3 DEF WalkParts, LoopDone
<1>6. Waits(list, visits, ordered, h.id)
  BY <1>1 DEF Waits
<1>7. LoopAsks(list, next + 1, visits, ordered, h.id)
  <2>1. ASSUME NEW i \in DOMAIN list, i < next + 1
        PROVE  list[i] \in ToSet(ordered) \/ list[i].id = h.id
    <3>1. i < next \/ i = next
      BY <1>3, <1>4, <2>1
    <3> QED
      BY <1>5, <3>1
  <2> QED
    BY <1>1, <2>1 DEF LoopAsks
<1>8. ASSUME ~threw PROVE LedBy(list, NewArrived, ordered, h.id)
  <2>1. ASSUME NEW g \in ToSet(list), NEW b \in ToSet(list), b.id = h.id,
               Leads(list, NewArrived, g, b)
        PROVE  g \in ToSet(ordered)
    <3>1. b = h
      BY <1>3, <1>4, <2>1, OneOfId
    <3>2. Precedes(list, g, b)
      BY <1>3, <1>8, <2>1 DEF WalkParts, LeadersFirst
    <3>3. PICK i, j \in DOMAIN list : i < j /\ list[i] = g /\ list[j] = b
      BY <3>2 DEF Precedes
    <3>4. j = next
      BY <1>1, <1>3, <3>1, <3>3 DEF Distinct
    <3> QED
      BY <1>5, <3>3, <3>4
  <2> QED
    BY <2>1 DEF LedBy
<1>9. Asking(list, threw, NewArrived, next', visits, visiting, ordered, h.id)
  BY <1>1, <1>3, <1>6, <1>7, <1>8 DEF Asking, WalkParts
<1>10. next' \in Nat \ {0}
  BY <1>1, <1>3
<1> HIDE DEF h
<1> QED
  BY <1>1, <1>2, <1>3, <1>4, <1>9, <1>10, VisitKeeps

LEMMA VisitAfterKeeps ==
    ASSUME HandlersInv, VisitAfter, list # <<>>
    PROVE  HandlersInv'
<1> DEFINE h == Last(visits).handler
           self == [handler |-> h, at |-> "self"]
           C == Append(Front(visits), self)
<1>1. visits # <<>> /\ VisitNamed(h.after, C, visiting, ordered) /\ next' = next
  BY DEF VisitAfter
<1>2. /\ Distinct(list) /\ list \in Seq(Handler) /\ ordered \in Seq(Handler)
      /\ visits \in Seq(OpenVisit) /\ visiting \in SUBSET HandlerIds /\ next \in Nat \ {0}
      /\ WalkParts(list, threw, NewArrived, next, visits, visiting, ordered)
  BY WalkFacts
<1>3. /\ Len(visits) \in Nat \ {0} /\ DOMAIN visits = 1 .. Len(visits)
      /\ h = visits[Len(visits)].handler
      /\ Last(visits) \in OpenVisit
      /\ Front(visits) \in Seq(OpenVisit) /\ Len(Front(visits)) = Len(visits) - 1
      /\ \A i \in 1 .. Len(visits) - 1 : Front(visits)[i] = visits[i]
  BY <1>1, <1>2, FrontAndLast
<1>4. self \in OpenVisit /\ self.handler = h /\ self.at = "self"
  BY <1>3 DEF OpenVisit
<1>5. /\ C \in Seq(OpenVisit) /\ C # <<>> /\ Len(C) = Len(visits) /\ DOMAIN C = 1 .. Len(visits)
      /\ C[Len(visits)] = self
      /\ \A i \in 1 .. Len(visits) - 1 : C[i] = visits[i]
  <2> DEFINE F == Front(visits)
  <2>1. F \in Seq(OpenVisit) /\ Len(F) = Len(visits) - 1 /\ self \in OpenVisit
    BY <1>3, <1>4
  <2> HIDE DEF F, self
  <2>2. /\ Append(F, self) \in Seq(OpenVisit) /\ Append(F, self) # <<>>
        /\ Len(Append(F, self)) = Len(F) + 1
        /\ DOMAIN Append(F, self) = 1 .. Len(F) + 1
        /\ \A i \in 1 .. Len(F) : Append(F, self)[i] = F[i]
        /\ Append(F, self)[Len(F) + 1] = self
    BY <2>1, AppendedTo
  <2>3. Len(F) + 1 = Len(visits)
    BY <1>3, <2>1
  <2>4. \A i \in 1 .. Len(visits) - 1 : F[i] = visits[i]
    BY <1>3 DEF F
  <2> QED
    BY <2>1, <2>2, <2>3, <2>4 DEF F
<1> HIDE DEF C, self, h
<1>6. \A i \in DOMAIN visits : C[i].handler = visits[i].handler
  BY <1>3, <1>4, <1>5
<1>7. h \in ToSet(list)
  BY <1>2, <1>3 DEF WalkParts, CallsOpen
<1>8. CallsOpen(list, C, visiting, ordered)
  <2>1. DOMAIN C = DOMAIN visits
    BY <1>3, <1>5
  <2>2. {C[i].handler.id : i \in DOMAIN C} = {visits[i].handler.id : i \in DOMAIN visits}
    BY <1>6, <2>1
  <2>3. CallsOpen(list, visits, visiting, ordered)
    BY <1>2 DEF WalkParts
  <2> QED
    BY <1>6, <2>1, <2>2, <2>3 DEF CallsOpen
<1>9. Waits(list, C, ordered, h.after)
  <2>1. ASSUME NEW i \in DOMAIN C, i < Len(visits)
        PROVE  /\ C[i].at = "self"
               /\ \A a \in ToSet(list) : a.id = C[i].handler.after =>
                     a \in ToSet(ordered) \/ (i < Len(C) /\ C[i + 1].handler = a)
    <3>1. i \in DOMAIN visits /\ i + 1 \in DOMAIN visits /\ C[i] = visits[i]
      BY <1>3, <1>5, <2>1
    <3> QED
      BY <1>2, <1>5, <1>6, <2>1, <3>1 DEF WalkParts, CallsWait
  <2>2. ASSUME NEW i \in DOMAIN C, i = Len(visits) PROVE C[i].at = "self" /\ C[i].handler = h /\ i = Len(C)
    BY <1>4, <1>5, <2>2
  <2>3. \A i \in DOMAIN C : i < Len(visits) \/ i = Len(visits)
    BY <1>3, <1>5
  <2> QED
    BY <2>1, <2>2, <2>3 DEF Waits
<1>10. LoopAsks(list, next, C, ordered, h.after)
  BY <1>1, <1>2, <1>3, <1>5, <1>6 DEF WalkParts, LoopDone, LoopAsks
<1>11. ASSUME ~threw PROVE LeadersFirst(list, NewArrived, C, ordered)
  BY <1>2, <1>3, <1>5, <1>6, <1>11 DEF WalkParts, LeadersFirst
<1>12. LedBy(list, NewArrived, ordered, h.after)
  BY <1>2, <1>7, NamedByLeader DEF LedBy
<1>13. Asking(list, threw, NewArrived, next, C, visiting, ordered, h.after)
  BY <1>2, <1>8, <1>9, <1>10, <1>11, <1>12 DEF Asking, WalkParts
<1> QED
  BY <1>1, <1>2, <1>5, <1>13, VisitNamedKeeps

LEMMA OrderSelfKeeps ==
    ASSUME HandlersInv, OrderSelf, list # <<>>
    PROVE  HandlersInv'
<1> DEFINE h == Last(visits).handler
           C == Front(visits)
           V == visiting \ {h.id}
           D == Append(ordered, h)
<1>1. /\ visits # <<>> /\ Last(visits).at = "self"
      /\ VisitNamed(h.before, C, V, D) /\ next' = next
  BY DEF OrderSelf
<1>2. /\ Distinct(list) /\ list \in Seq(Handler) /\ ordered \in Seq(Handler)
      /\ visits \in Seq(OpenVisit) /\ visiting \in SUBSET HandlerIds /\ next \in Nat \ {0}
      /\ WalkParts(list, threw, NewArrived, next, visits, visiting, ordered)
  BY WalkFacts
<1>3. /\ Len(visits) \in Nat \ {0} /\ DOMAIN visits = 1 .. Len(visits)
      /\ h = visits[Len(visits)].handler /\ visits[Len(visits)].at = "self"
      /\ C \in Seq(OpenVisit) /\ Len(C) = Len(visits) - 1 /\ DOMAIN C = 1 .. Len(visits) - 1
      /\ \A i \in 1 .. Len(visits) - 1 : C[i] = visits[i]
  BY <1>1, <1>2, FrontAndLast
<1>4. h \in ToSet(list) /\ h \notin ToSet(ordered) /\ h \in Handler
  BY <1>2, <1>3, InSet DEF WalkParts, CallsOpen
<1>5. /\ D \in Seq(Handler) /\ ToSet(D) = ToSet(ordered) \cup {h}
      /\ Len(ordered) \in Nat /\ DOMAIN ordered = 1 .. Len(ordered)
      /\ DOMAIN D = 1 .. Len(ordered) + 1
      /\ \A i \in 1 .. Len(ordered) : D[i] = ordered[i]
      /\ D[Len(ordered) + 1] = h
  BY <1>2, <1>4, AppendedTo, AppendedSet
<1>6. \A x, y : Precedes(ordered, x, y) => Precedes(D, x, y)
  BY <1>2, <1>4, PrecedesLonger
<1>7. \A x \in ToSet(ordered) : Precedes(D, x, h)
  BY <1>2, <1>4, PrecedesNew
<1> HIDE DEF h, C, D
<1>8. OrderedFromList(list, D)
  <2>1. \A i \in 1 .. Len(ordered) : ordered[i].id # h.id
    BY <1>2, <1>4, OneOfId, InSet DEF WalkParts, OrderedFromList
  <2>2. Distinct(D)
    BY <1>2, <1>5, <2>1 DEF WalkParts, OrderedFromList, Distinct
  <2> QED
    BY <1>2, <1>4, <1>5, <2>2 DEF WalkParts, OrderedFromList
<1>9. CallsOpen(list, C, V, D)
  <2>1. \A i \in DOMAIN C : i \in DOMAIN visits /\ C[i] = visits[i] /\ i # Len(visits)
    BY <1>3
  <2>2. \A i \in DOMAIN C : C[i].handler # h /\ C[i].handler \in ToSet(list) \ ToSet(ordered)
    <3>1. Len(visits) \in DOMAIN visits
      BY <1>3
    <3>2. CallsOpen(list, visits, visiting, ordered)
      BY <1>2 DEF WalkParts
    <3> QED
      BY <1>3, <2>1, <3>1, <3>2 DEF CallsOpen
  <2>3. \A i \in DOMAIN C : C[i].handler.id # h.id
    BY <1>2, <1>4, <2>2, OneOfId
  <2>4. V = {C[i].handler.id : i \in DOMAIN C}
    <3>1. visiting = {visits[i].handler.id : i \in DOMAIN visits}
      BY <1>2 DEF WalkParts, CallsOpen
    <3>2. \A i \in DOMAIN visits : i \in DOMAIN C \/ i = Len(visits)
      BY <1>3
    <3> QED
      BY <1>3, <2>1, <2>3, <3>1, <3>2
  <2>5. \A i, j \in DOMAIN C : C[i].handler = C[j].handler => i = j
    BY <1>2, <2>1 DEF WalkParts, CallsOpen
  <2> QED
    BY <1>5, <2>2, <2>4, <2>5 DEF CallsOpen
<1>10. Waits(list, C, D, h.before)
  <2>1. ASSUME NEW i \in DOMAIN C
        PROVE  /\ C[i].at = "self"
               /\ \A a \in ToSet(list) : a.id = C[i].handler.after =>
                     a \in ToSet(D) \/ (i < Len(C) /\ C[i + 1].handler = a)
    <3>1. i \in DOMAIN visits /\ i < Len(visits) /\ C[i] = visits[i]
      BY <1>3
    <3>2. visits[i].at = "self"
      BY <1>2, <3>1 DEF WalkParts, CallsWait
    <3>3. ASSUME NEW a \in ToSet(list), a.id = C[i].handler.after
          PROVE  a \in ToSet(D) \/ (i < Len(C) /\ C[i + 1].handler = a)
      <4>1. a \in ToSet(ordered) \/ visits[i + 1].handler = a
        BY <1>2, <3>1, <3>2, <3>3 DEF WalkParts, CallsWait
      <4>2. CASE i + 1 = Len(visits)
        BY <1>3, <1>5, <4>1, <4>2
      <4>3. CASE i + 1 # Len(visits)
        <5>1. i < Len(C) /\ C[i + 1] = visits[i + 1]
          BY <1>3, <3>1, <4>3
        <5> QED
          BY <1>5, <4>1, <5>1
      <4> QED
        BY <4>2, <4>3
    <3> QED
      BY <3>1, <3>2, <3>3
  <2> QED
    BY <2>1 DEF Waits
<1>11. AfterKept(list, D)
  <2>1. ASSUME NEW x \in ToSet(D), NEW a \in ToSet(list), a.id = x.after
        PROVE  Precedes(D, a, x)
    <3>1. CASE x = h
      <4>1. a \in ToSet(ordered)
        <5>1. Len(visits) \in DOMAIN visits /\ ~(Len(visits) < Len(visits))
          BY <1>3
        <5>2. CallsWait(list, visits, ordered)
          BY <1>2 DEF WalkParts
        <5>3. a.id = visits[Len(visits)].handler.after
          BY <1>3, <2>1, <3>1
        <5> QED
          BY <1>3, <5>1, <5>2, <5>3 DEF CallsWait
      <4> QED
        BY <1>7, <3>1, <4>1
    <3>2. CASE x # h
      <4>1. x \in ToSet(ordered)
        BY <1>5, <3>2
      <4>2. Precedes(ordered, a, x)
        BY <1>2, <2>1, <4>1 DEF WalkParts, AfterKept
      <4> QED
        BY <1>6, <4>2
    <3> QED
      BY <3>1, <3>2
  <2> QED
    BY <2>1 DEF AfterKept
<1>12. LoopAsks(list, next, C, D, h.before)
  <2>1. ASSUME NEW i \in DOMAIN list, i < next
        PROVE  list[i] \in ToSet(D) \/ (C # <<>> /\ C[1].handler = list[i])
    <3>1. list[i] \in ToSet(ordered) \/ visits[1].handler = list[i]
      BY <1>2, <2>1 DEF WalkParts, LoopDone
    <3>2. CASE Len(visits) = 1
      BY <1>3, <1>5, <3>1, <3>2
    <3>3. CASE Len(visits) # 1
      <4>1. C # <<>> /\ C[1] = visits[1]
        BY <1>3, <3>3
      <4> QED
        BY <1>5, <3>1, <4>1
    <3> QED
      BY <3>2, <3>3
  <2> QED
    BY <2>1 DEF LoopAsks
<1>13. ASSUME ~threw, NEW g \in ToSet(list), NEW b \in ToSet(list), Leads(list, NewArrived, g, b)
       PROVE  /\ Precedes(list, g, b)
              /\ b \in ToSet(D) => Precedes(D, g, b)
              /\ \A i \in DOMAIN C : C[i].handler = b => g \in ToSet(D)
  <2>1. /\ Precedes(list, g, b)
        /\ b \in ToSet(ordered) => Precedes(ordered, g, b)
        /\ \A i \in DOMAIN visits : visits[i].handler = b => g \in ToSet(ordered)
    BY <1>2, <1>13 DEF WalkParts, LeadersFirst
  <2>2. b = h => Precedes(D, g, b)
    BY <1>3, <1>7, <2>1
  <2>3. b \in ToSet(D) => Precedes(D, g, b)
    BY <1>5, <1>6, <2>1, <2>2
  <2>4. \A i \in DOMAIN C : C[i].handler = b => g \in ToSet(D)
    BY <1>3, <1>5, <2>1
  <2> QED
    BY <2>1, <2>3, <2>4
<1>14. LedBy(list, NewArrived, D, h.before)
  BY <1>2, <1>4, <1>5, NamedByLeader DEF LedBy
<1>15. Asking(list, threw, NewArrived, next, C, V, D, h.before)
  BY <1>8, <1>9, <1>10, <1>11, <1>12, <1>13, <1>14 DEF Asking, LeadersFirst
<1>16. V \in SUBSET HandlerIds
  BY <1>2
<1> HIDE DEF V
<1> QED
  BY <1>1, <1>3, <1>5, <1>15, <1>16, VisitNamedKeeps

LEMMA SetOrderedKeeps ==
    ASSUME HandlersInv, SetOrdered
    PROVE  HandlersInv'
<1>1. /\ list # <<>> /\ visits = <<>> /\ next > Len(list)
      /\ handlers' = ordered /\ next' = next /\ threw' = threw
      /\ list' = <<>> /\ visits' = <<>> /\ visiting' = {} /\ ordered' = <<>>
  BY DEF SetOrdered, EndWalk
<1>2. /\ Distinct(list) /\ list \in Seq(Handler) /\ ordered \in Seq(Handler)
      /\ next \in Nat \ {0} /\ HandlersTyped /\ ListWalk /\ HandlersArrived
      /\ WalkParts(list, threw, NewArrived, next, visits, visiting, ordered)
  BY <1>1, WalkFacts
<1>3. /\ NewArrived \in Seq(HandlerIds) /\ Len(NewArrived) = Len(list)
      /\ {h.id : h \in ToSet(list)} = ToSet(NewArrived)
      /\ \A i, j \in DOMAIN NewArrived : NewArrived[i] = NewArrived[j] => i = j
      /\ Last(list) = list[Len(list)] /\ DOMAIN list = 1 .. Len(list) /\ Len(list) \in Nat
  BY <1>1, <1>2, ArrivedWithNew
<1>4. arrived' = NewArrived
  BY <1>3 DEF SetOrdered, NewArrived
<1>5. ToSet(ordered) = ToSet(list)
  <2>1. \A i \in 1 .. Len(list) : list[i] \in ToSet(ordered)
    BY <1>1, <1>2, <1>3 DEF WalkParts, LoopDone
  <2>2. ToSet(list) \subseteq ToSet(ordered)
    BY <1>2, <2>1, InSet
  <2> QED
    BY <1>2, <2>2 DEF WalkParts, OrderedFromList
<1>6. Distinct(ordered)
  BY <1>2 DEF WalkParts, OrderedFromList
<1>7. Len(ordered) = Len(list)
  BY <1>2, <1>5, <1>6, LengthOfSet
<1>8. HandlersTyped'
  BY <1>1, <1>2, <1>3, <1>4 DEF HandlersTyped
<1>9. HandlersArrived'
  BY <1>1, <1>3, <1>4, <1>5, <1>6, <1>7 DEF HandlersArrived
<1>10. HandlersInOrder'
  <2>1. SUFFICES ASSUME ~threw
                 PROVE  /\ AfterKept(ordered, ordered)
                        /\ \A h, b \in ToSet(ordered) :
                              Leads(ordered, NewArrived, h, b) => Precedes(ordered, h, b)
    BY <1>1, <1>4 DEF HandlersInOrder
  <2>2. AfterKept(ordered, ordered)
    BY <1>2, <1>5 DEF WalkParts, AfterKept
  <2>3. ASSUME NEW h \in ToSet(ordered), NEW b \in ToSet(ordered), Leads(ordered, NewArrived, h, b)
        PROVE  Precedes(ordered, h, b)
    <3>1. Leads(list, NewArrived, h, b)
      BY <1>5, <2>3 DEF Leads
    <3> QED
      BY <1>2, <1>5, <2>1, <2>3, <3>1 DEF WalkParts, LeadersFirst
  <2> QED
    BY <2>2, <2>3
<1>11. NoWalk'
  BY <1>1 DEF NoWalk
<1> QED
  BY <1>1, <1>8, <1>9, <1>10, <1>11 DEF HandlersInv

LEMMA HandlersStep ==
    ASSUME HandlersInv, [HandlersNext]_handlerVars
    PROVE  HandlersInv'
<1>1. visits # <<>> => list # <<>>
  BY DEF HandlersInv, NoWalk
<1>2. CASE RegisterBlockingEventHandler
  BY <1>2, RegisterKeeps
<1>3. CASE VisitNext
  BY <1>3, VisitNextKeeps
<1>4. CASE VisitAfter
  BY <1>1, <1>4, VisitAfterKeeps DEF VisitAfter
<1>5. CASE OrderSelf
  BY <1>1, <1>5, OrderSelfKeeps DEF OrderSelf
<1>6. CASE SetOrdered
  BY <1>6, SetOrderedKeeps
<1>7. CASE UNCHANGED handlerVars
  BY <1>7 DEF handlerVars, walkVars, HandlersInv, HandlersTyped, HandlersArrived, HandlersInOrder,
              NoWalk, ListWalk
<1> QED
  BY <1>2, <1>3, <1>4, <1>5, <1>6, <1>7 DEF HandlersNext

\* The invariant of the registrations: the walk orders each handler behind the
\* one it comes after, enters none before those that lead to it are ordered, and
\* loses none.
THEOREM HandlersInvariance == HandlersSpec => []HandlersInv
<1>1. HandlersInit => HandlersInv
  BY InitialHandlers
<1>2. HandlersInv /\ [HandlersNext]_handlerVars => HandlersInv'
  BY HandlersStep
<1> QED
  BY <1>1, <1>2, PTL DEF HandlersSpec

LEMMA HandlersTypeFollows ==
    ASSUME HandlersInv
    PROVE  HandlersTypeOK
<1>1. IsInjective([i \in DOMAIN handlers |-> handlers[i].id])
  BY DEF HandlersInv, HandlersArrived, Distinct, IsInjective
<1> QED
  BY <1>1 DEF HandlersInv, HandlersTyped, HandlersArrived, HandlersTypeOK

\* The position of what precedes in a list is smaller.
LEMMA PrecedesByPosition ==
    ASSUME NEW L \in Seq(Handler), Distinct(L), NEW e, NEW f, Precedes(L, e, f)
    PROVE  At(L, e.id) < At(L, f.id)
<1>1. PICK i, j \in DOMAIN L : i < j /\ L[i] = e /\ L[j] = f
  BY DEF Precedes
<1>2. At(L, L[i].id) = i
  BY PositionOf
<1>3. At(L, L[j].id) = j
  BY PositionOf
<1> QED
  BY <1>1, <1>2, <1>3

LEMMA OrderFollows ==
    ASSUME HandlersInv
    PROVE  BlockingOrderKept
<1> DEFINE at(id) == At(handlers, id)
           came(id) == Came(arrived, id)
           others(h) == {g \in ToSet(handlers) : g.id # h.id}
<1>1. SUFFICES ASSUME ~threw, NEW h \in ToSet(handlers)
               PROVE  /\ at(h.after) # 0 => at(h.after) < at(h.id)
                      /\ /\ came(h.id) < came(h.before) /\ h.before # h.after
                         /\ \A g \in others(h) : {g.after, g.before} \cap {h.before} = {}
                         => at(h.id) < at(h.before)
  BY DEF BlockingOrderKept, At, Came
<1>2. /\ handlers \in Seq(Handler) /\ arrived \in Seq(HandlerIds) /\ Distinct(handlers)
      /\ {g.id : g \in ToSet(handlers)} = ToSet(arrived)
      /\ \A i, j \in DOMAIN arrived : arrived[i] = arrived[j] => i = j
  BY DEF HandlersInv, HandlersTyped, HandlersArrived
<1>3. ASSUME at(h.after) # 0 PROVE at(h.after) < at(h.id)
  <2>1. Named(handlers, h.after) # {}
    BY <1>2, <1>3, PositionOfNone
  <2>2. PICK a \in ToSet(handlers) : a.id = h.after
    BY <2>1 DEF Named
  <2>3. Precedes(handlers, a, h)
    BY <1>1, <2>2 DEF HandlersInv, HandlersInOrder, AfterKept
  <2>4. at(a.id) < at(h.id)
    BY <1>2, <2>3, PrecedesByPosition
  <2> QED
    BY <2>2, <2>4
<1>4. ASSUME came(h.id) < came(h.before), h.before # h.after,
             \A g \in others(h) : {g.after, g.before} \cap {h.before} = {}
      PROVE  at(h.id) < at(h.before)
  <2>1. h.id \in ToSet(arrived)
    BY <1>2
  <2>2. PICK i \in 1 .. Len(arrived) : arrived[i] = h.id
    BY <1>2, <2>1, InSet
  <2>3. came(h.id) = i
    <3>1. i \in DOMAIN arrived
      BY <1>2
    <3> QED
      BY <1>2, <2>2, <3>1, PositionIn
  <2>4. h.before \in ToSet(arrived)
    <3>1. SUFFICES ASSUME h.before \notin ToSet(arrived) PROVE FALSE
      OBVIOUS
    <3>2. came(h.before) = 0
      BY <1>2, <3>1, PositionInNone
    <3> QED
      BY <1>4, <2>3, <3>2
  <2>5. PICK j \in 1 .. Len(arrived) : arrived[j] = h.before
    BY <1>2, <2>4, InSet
  <2>6. came(h.before) = j
    <3>1. j \in DOMAIN arrived
      BY <1>2
    <3> QED
      BY <1>2, <2>5, <3>1, PositionIn
  <2>7. PICK b \in ToSet(handlers) : b.id = h.before
    BY <1>2, <2>4
  <2>8. Precedes(arrived, h.id, b.id)
    <3>1. i < j
      BY <1>4, <2>3, <2>6
    <3>2. i \in DOMAIN arrived /\ j \in DOMAIN arrived
      BY <1>2
    <3> QED
      BY <2>2, <2>5, <2>7, <3>1, <3>2 DEF Precedes
  <2>9. Leads(handlers, arrived, h, b)
    BY <1>1, <1>4, <2>7, <2>8 DEF Leads
  <2>10. Precedes(handlers, h, b)
    BY <1>1, <2>9 DEF HandlersInv, HandlersInOrder
  <2>11. at(h.id) < at(b.id)
    BY <1>2, <2>10, PrecedesByPosition
  <2> QED
    BY <2>7, <2>11
<1> QED
  BY <1>3, <1>4

\* A registration keeps the ids apart and the list as long as what was registered.
THEOREM HandlersTypeCorrect == HandlersSpec => []HandlersTypeOK
<1>1. HandlersInv => HandlersTypeOK
  BY HandlersTypeFollows
<1> QED
  BY <1>1, HandlersInvariance, PTL

\* While no registration was refused, handlers run in the order that they ask for:
\* the walk of orderEventHandlers, for any handlers and any order of registration.
THEOREM HandlersRunInOrder == HandlersSpec => []BlockingOrderKept
<1>1. HandlersInv => BlockingOrderKept
  BY OrderFollows
<1> QED
  BY <1>1, HandlersInvariance, PTL

-----------------------------------------------------------------------------
(***************************************************************************)
(* Every registration ends: a step of the walk leaves less to do, and what *)
(* is left is a natural number.                                            *)
(***************************************************************************)

Entering(C) == IF C # <<>> /\ Last(C).at = "after" THEN 1 ELSE 0

\* The rest of the loop, two steps for each handler that is not ordered, less one
\* for each open call that has visited the handler it comes after.
Left == (Len(list) + 1 - next) + 2 * (Len(list) - Len(ordered)) - (Len(visits) - Entering(visits))

Walking == VisitNext \/ VisitAfter \/ OrderSelf

LoopInList == list # <<>> => next \in 1 .. Len(list) + 1

\* A visit that does not throw leaves the calls open, all of which wait, or adds one.
LEMMA VisitLeaves ==
    ASSUME NEW h \in Handler, NEW C \in Seq(OpenVisit), NEW V, NEW D,
           Entering(C) = 0, Visit(h, C, V, D)
    PROVE  \/ list' = <<>>
           \/ list' = list /\ ordered' = D /\ Len(visits') - Entering(visits') = Len(C)
<1>1. CASE Refuse
  BY <1>1 DEF Refuse, EndWalk
<1>2. CASE list' = list /\ ordered' = D /\ visits' = C
  BY <1>2
<1>3. CASE list' = list /\ ordered' = D /\ visits' = Append(C, Entered(h))
  <2>1. Entered(h) \in OpenVisit /\ Entered(h).at = "after"
    BY DEF Entered, OpenVisit
  <2>2. /\ Append(C, Entered(h)) \in Seq(OpenVisit) /\ Append(C, Entered(h)) # <<>>
        /\ Len(Append(C, Entered(h))) = Len(C) + 1 /\ Len(C) \in Nat
        /\ Append(C, Entered(h))[Len(C) + 1] = Entered(h)
    BY <2>1, AppendedTo
  <2>3. Last(Append(C, Entered(h))) = Entered(h)
    BY <2>2, FrontAndLast
  <2>4. Entering(Append(C, Entered(h))) = 1
    BY <2>1, <2>2, <2>3 DEF Entering
  <2> QED
    BY <1>3, <2>2, <2>4
<1> QED
  BY <1>1, <1>2, <1>3 DEF Visit

LEMMA VisitNamedLeaves ==
    ASSUME NEW id, NEW C \in Seq(OpenVisit), NEW V, NEW D, list \in Seq(Handler),
           Entering(C) = 0, VisitNamed(id, C, V, D)
    PROVE  \/ list' = <<>>
           \/ list' = list /\ ordered' = D /\ Len(visits') - Entering(visits') = Len(C)
<1>1. Named(list, id) \subseteq Handler
  BY InSet DEF Named
<1>2. CASE \E h \in Named(list, id) : Visit(h, C, V, D)
  BY <1>1, <1>2, VisitLeaves
<1>3. CASE visits' = C /\ ordered' = D /\ list' = list
  BY <1>3
<1> QED
  BY <1>2, <1>3 DEF VisitNamed

LEMMA LoopStaysInList ==
    ASSUME HandlersInv, LoopInList, [HandlersNext]_handlerVars
    PROVE  LoopInList'
<1>1. /\ list \in Seq(Handler) /\ handlers \in Seq(Handler) /\ Len(list) \in Nat
      /\ (visits # <<>> => list # <<>>)
  BY DEF HandlersInv, HandlersTyped, NoWalk
<1>2. CASE RegisterBlockingEventHandler
  <2>1. PICK h \in Handler : list' = Append(handlers, h) /\ next' = 1
    BY <1>2 DEF RegisterBlockingEventHandler
  <2> QED
    BY <1>1, <2>1, AppendedTo DEF LoopInList
<1>3. CASE VisitNext
  <2>1. next \in DOMAIN list /\ DOMAIN list = 1 .. Len(list) /\ next' = next + 1
    BY <1>1, <1>3 DEF VisitNext
  <2>2. list' = <<>> \/ list' = list
    BY <1>3 DEF VisitNext, Visit, Refuse, EndWalk
  <2> QED
    BY <1>1, <2>1, <2>2 DEF LoopInList
<1>4. CASE VisitAfter \/ OrderSelf
  <2>1. next' = next /\ (list' = <<>> \/ list' = list)
    BY <1>4 DEF VisitAfter, OrderSelf, VisitNamed, Visit, Refuse, EndWalk
  <2> QED
    BY <2>1 DEF LoopInList
<1>5. CASE SetOrdered
  BY <1>5 DEF SetOrdered, EndWalk, LoopInList
<1>6. CASE UNCHANGED handlerVars
  BY <1>6 DEF handlerVars, walkVars, LoopInList
<1> QED
  BY <1>2, <1>3, <1>4, <1>5, <1>6 DEF HandlersNext

\* The handlers that are ordered and those in an open call are different ones.
LEMMA CallsFit ==
    ASSUME HandlersInv, list # <<>>
    PROVE  Len(visits) + Len(ordered) <= Len(list)
<1>1. /\ Distinct(list) /\ list \in Seq(Handler) /\ ordered \in Seq(Handler) /\ visits \in Seq(OpenVisit)
      /\ WalkParts(list, threw, NewArrived, next, visits, visiting, ordered)
  BY WalkFacts
<1>2. /\ IsFiniteSet(ToSet(list)) /\ Cardinality(ToSet(list)) = Len(list)
      /\ IsFiniteSet(ToSet(ordered)) /\ Cardinality(ToSet(ordered)) = Len(ordered)
      /\ ToSet(ordered) \subseteq ToSet(list)
  BY <1>1, LengthOfSet DEF WalkParts, OrderedFromList
<1> DEFINE rest == ToSet(list) \ ToSet(ordered)
           F == [i \in 1 .. Len(visits) |-> visits[i].handler]
<1>3. Len(visits) \in Nat /\ Len(ordered) \in Nat /\ Len(list) \in Nat
  BY <1>1
<1>4. F \in Injection(1 .. Len(visits), rest)
  <2>1. CallsOpen(list, visits, visiting, ordered) /\ DOMAIN visits = 1 .. Len(visits)
    BY <1>1 DEF WalkParts
  <2> QED
    BY <2>1 DEF CallsOpen, Injection, IsInjective
<1>5. IsFiniteSet(rest) /\ Cardinality(rest) = Cardinality(ToSet(list)) - Cardinality(ToSet(ordered))
  <2>1. ToSet(list) \cap ToSet(ordered) = ToSet(ordered)
    BY <1>2
  <2>2. /\ IsFiniteSet(rest)
        /\ Cardinality(rest) = Cardinality(ToSet(list)) - Cardinality(ToSet(list) \cap ToSet(ordered))
    BY <1>2, FS_Difference
  <2> QED
    BY <2>1, <2>2
<1> HIDE DEF rest, F
<1>6. Cardinality(1 .. Len(visits)) = Len(visits)
  <2>1. \A n \in Nat : Cardinality(1 .. n) = n
    BY FS_Interval
  <2> QED
    BY <1>3, <2>1
<1>7. Cardinality(1 .. Len(visits)) <= Cardinality(rest)
  BY <1>4, <1>5, FS_Injection
<1> QED
  BY <1>2, <1>3, <1>5, <1>6, <1>7

LEMMA LeftIsNatural ==
    ASSUME HandlersInv, LoopInList, list # <<>>
    PROVE  Left \in Nat
<1>1. /\ list \in Seq(Handler) /\ ordered \in Seq(Handler) /\ visits \in Seq(OpenVisit)
      /\ next \in 1 .. Len(list) + 1
  BY DEF HandlersInv, HandlersTyped, LoopInList
<1>2. Len(visits) \in Nat /\ Len(ordered) \in Nat /\ Len(list) \in Nat
  BY <1>1
<1>3. Entering(visits) \in {0, 1} /\ (visits = <<>> => Entering(visits) = 0)
  BY DEF Entering
<1>4. Len(visits) - Entering(visits) >= 0
  BY <1>1, <1>2, <1>3
<1> QED
  BY <1>1, <1>2, <1>3, <1>4, CallsFit DEF Left

LEMMA WalkShortens ==
    ASSUME HandlersInv, LoopInList, Walking
    PROVE  list' = <<>> \/ Left' < Left
<1>1. list # <<>>
  BY DEF Walking, VisitNext, VisitAfter, OrderSelf, HandlersInv, NoWalk
<1>2. /\ list \in Seq(Handler) /\ ordered \in Seq(Handler) /\ visits \in Seq(OpenVisit)
      /\ WalkParts(list, threw, NewArrived, next, visits, visiting, ordered)
      /\ next \in 1 .. Len(list) + 1
  BY <1>1, WalkFacts DEF LoopInList
<1>3. Len(visits) \in Nat /\ Len(ordered) \in Nat /\ Len(list) \in Nat
  BY <1>2
<1>4. CASE VisitNext
  <2>1. /\ visits = <<>> /\ next \in DOMAIN list /\ next' = next + 1
        /\ Visit(list[next], visits, visiting, ordered)
    BY <1>4 DEF VisitNext
  <2>2. Entering(visits) = 0 /\ list[next] \in Handler /\ Len(visits) = 0
    BY <1>2, <2>1 DEF Entering
  <2>3. \/ list' = <<>>
        \/ list' = list /\ ordered' = ordered /\ Len(visits') - Entering(visits') = Len(visits)
    BY <1>2, <2>1, <2>2, VisitLeaves
  <2> QED
    BY <1>2, <1>3, <2>1, <2>2, <2>3 DEF Left
<1>5. CASE VisitAfter
  <2> DEFINE h == Last(visits).handler
             self == [handler |-> h, at |-> "self"]
             C == Append(Front(visits), self)
  <2>1. /\ visits # <<>> /\ Last(visits).at = "after" /\ next' = next
        /\ VisitNamed(h.after, C, visiting, ordered)
    BY <1>5 DEF VisitAfter
  <2>2. /\ Last(visits) \in OpenVisit /\ Front(visits) \in Seq(OpenVisit)
        /\ Len(Front(visits)) = Len(visits) - 1
    BY <1>2, <2>1, FrontAndLast
  <2>3. self \in OpenVisit /\ self.at = "self"
    BY <2>2 DEF OpenVisit
  <2> HIDE DEF self
  <2>4. /\ C \in Seq(OpenVisit) /\ C # <<>> /\ Len(C) = Len(visits) /\ C[Len(C)] = self
    BY <1>3, <2>2, <2>3, AppendedTo
  <2>5. Last(C) = self
    BY <2>4, FrontAndLast
  <2> HIDE DEF C, h
  <2>6. Entering(C) = 0 /\ Entering(visits) = 1
    BY <2>1, <2>3, <2>5 DEF Entering
  <2>7. \/ list' = <<>>
        \/ list' = list /\ ordered' = ordered /\ Len(visits') - Entering(visits') = Len(C)
    BY <1>2, <2>1, <2>4, <2>6, VisitNamedLeaves
  <2> QED
    BY <1>2, <1>3, <2>1, <2>4, <2>6, <2>7 DEF Left
<1>6. CASE OrderSelf
  <2> DEFINE h == Last(visits).handler
             C == Front(visits)
             D == Append(ordered, h)
  <2>1. /\ visits # <<>> /\ Last(visits).at = "self" /\ next' = next
        /\ VisitNamed(h.before, C, visiting \ {h.id}, D)
    BY <1>6 DEF OrderSelf
  <2>2. /\ Last(visits) \in OpenVisit /\ C \in Seq(OpenVisit) /\ Len(C) = Len(visits) - 1
        /\ DOMAIN C = 1 .. Len(visits) - 1 /\ DOMAIN visits = 1 .. Len(visits)
        /\ \A i \in 1 .. Len(visits) - 1 : C[i] = visits[i]
    BY <1>2, <2>1, FrontAndLast
  <2>3. h \in Handler
    BY <2>2 DEF OpenVisit
  <2>4. Len(D) = Len(ordered) + 1
    BY <1>2, <2>3, AppendedTo
  <2> HIDE DEF C, D, h
  <2>5. Entering(C) = 0
    <3>1. SUFFICES ASSUME C # <<>> PROVE Last(C).at = "self"
      BY DEF Entering
    <3>2. Last(C) = C[Len(C)] /\ Len(C) \in Nat \ {0} /\ DOMAIN C = 1 .. Len(C)
      <4>1. C \in Seq(OpenVisit)
        BY <2>2
      <4> QED
        BY <3>1, <4>1, FrontAndLast
    <3>3. Last(C) = visits[Len(C)] /\ Len(C) \in DOMAIN visits /\ Len(C) < Len(visits)
      BY <1>3, <2>2, <3>2
    <3> QED
      BY <1>2, <3>3 DEF WalkParts, CallsWait
  <2>6. Entering(visits) = 0
    BY <2>1 DEF Entering
  <2>7. \/ list' = <<>>
        \/ list' = list /\ ordered' = D /\ Len(visits') - Entering(visits') = Len(C)
    BY <1>2, <2>1, <2>2, <2>5, VisitNamedLeaves
  <2> QED
    BY <1>2, <1>3, <2>1, <2>2, <2>4, <2>6, <2>7 DEF Left
<1> QED
  BY <1>4, <1>5, <1>6 DEF Walking

WalkIsBounded == list # <<>> => Left \in Nat
WalkGetsShorter == [][Walking => list' = <<>> \/ Left' < Left]_handlerVars

\* No registration walks for ever, whatever circles "after" and "before" make: each
\* step of orderEventHandlers ends the walk or leaves less of it, and what is left
\* is never less than nothing.
THEOREM RegistrationsEnd == HandlersSpec => []WalkIsBounded /\ WalkGetsShorter
<1>1. HandlersInit => LoopInList
  BY DEF HandlersInit, LoopInList
<1>2. HandlersInv /\ LoopInList /\ [HandlersNext]_handlerVars => LoopInList'
  BY LoopStaysInList
<1>3. HandlersInv /\ LoopInList => WalkIsBounded
  BY LeftIsNatural DEF WalkIsBounded
<1>4. HandlersInv /\ LoopInList /\ [HandlersNext]_handlerVars
      => [Walking => list' = <<>> \/ Left' < Left]_handlerVars
  BY WalkShortens
<1> QED
  BY <1>1, <1>2, <1>3, <1>4, HandlersInvariance, PTL DEF HandlersSpec, WalkGetsShorter
=============================================================================
