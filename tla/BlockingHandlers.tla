-------------------------- MODULE BlockingHandlers --------------------------
(***************************************************************************)
(* EventBus.registerBlockingEventHandler and orderEventHandlers, for the   *)
(* handlers of one event.  A handler may name another one that it should   *)
(* run before, and one that it should run after.                           *)
(*                                                                         *)
(* orderEventHandlers walks the list with a recursive visit().  The model  *)
(* keeps its call stack: one action is one step of a visit.  The code does *)
(* not await in between, so nobody sees `handlers' before the walk ends.   *)
(***************************************************************************)
EXTENDS Naturals, Sequences, FiniteSets, SequencesExt

CONSTANT HandlerIds

VARIABLES
    handlers,  \* the list blockingEventHandlers has for the event
    list,      \* the list that is being ordered, empty when none is
    next,      \* the index of the loop over that list
    visits,    \* the calls of visit() that have not returned, the innermost last
    visiting,  \* the set of that name
    ordered,   \* orderedHandlers
    arrived,   \* history: the ids in the order they were registered
    threw      \* history: a registration was refused as circular

walkVars == <<list, visits, visiting, ordered>>
handlerVars == <<handlers, walkVars, next, arrived, threw>>

Nobody == "nobody"
Handler == [id : HandlerIds, after : HandlerIds \cup {Nobody}, before : HandlerIds \cup {Nobody}]
OpenVisit == [handler : Handler, at : {"after", "self"}]

HandlersTypeOK ==
    /\ handlers \in Seq(Handler)
    /\ IsInjective([i \in DOMAIN handlers |-> handlers[i].id])
    /\ Len(handlers) = Len(arrived)
    /\ list \in Seq(Handler) /\ ordered \in Seq(Handler) /\ visits \in Seq(OpenVisit)
    /\ next \in Nat \ {0} /\ visiting \subseteq HandlerIds
    /\ threw \in BOOLEAN

HandlersInit ==
    /\ handlers = <<>> /\ arrived = <<>> /\ threw = FALSE
    /\ list = <<>> /\ next = 1 /\ visits = <<>> /\ visiting = {} /\ ordered = <<>>

-----------------------------------------------------------------------------
Named(among, id) == {h \in ToSet(among) : h.id = id}

\* registerBlockingEventHandler refuses an id that is there, or starts the walk.
RegisterBlockingEventHandler ==
    \E h \in Handler :
       /\ list = <<>> /\ Named(handlers, h.id) = {}
       /\ list' = Append(handlers, h)
       /\ next' = 1
       /\ UNCHANGED <<handlers, visits, visiting, ordered, arrived, threw>>

EndWalk == list' = <<>> /\ visits' = <<>> /\ visiting' = {} /\ ordered' = <<>>

\* The walk throws.  The new handler stays at the end of the array it was pushed
\* to; the first one was in an array of its own.
Refuse ==
    /\ IF handlers = <<>> THEN UNCHANGED <<handlers, arrived>>
       ELSE handlers' = list /\ arrived' = Append(arrived, Last(list).id)
    /\ threw' = TRUE
    /\ EndWalk

\* What a visit starts with: the handler that h comes after.
Entered_SelfOnly(h) == [handler |-> h, at |-> "self"]
Entered(h) == [handler |-> h, at |-> "after"]

\* visit(h), called with these calls open, these ids in visiting and these
\* handlers ordered: it throws, returns at once, or is one more open call.
Visit(h, calls, open, done) ==
    IF h.id \in open THEN Refuse
    ELSE /\ IF Contains(done, h) THEN visits' = calls /\ visiting' = open
            ELSE visits' = Append(calls, Entered(h)) /\ visiting' = open \cup {h.id}
         /\ ordered' = done
         /\ UNCHANGED <<handlers, list, arrived, threw>>

VisitNamed(id, calls, open, done) ==
    \/ \E h \in Named(list, id) : Visit(h, calls, open, done)
    \/ /\ Named(list, id) = {}
       /\ visits' = calls /\ visiting' = open /\ ordered' = done
       /\ UNCHANGED <<handlers, list, arrived, threw>>

\* The loop over the handlers.
VisitNext ==
    /\ visits = <<>> /\ next \in DOMAIN list
    /\ Visit(list[next], visits, visiting, ordered)
    /\ next' = next + 1

\* The innermost visit calls visit for the handler it comes after.
VisitAfter ==
    /\ visits # <<>> /\ Last(visits).at = "after"
    /\ LET h == Last(visits).handler
       IN  VisitNamed(h.after, Append(Front(visits), [handler |-> h, at |-> "self"]),
                      visiting, ordered)
    /\ UNCHANGED next

\* It puts its handler behind those ordered so far.  The last thing it does is to
\* call visit for the handler it comes before.
OrderSelf ==
    /\ visits # <<>> /\ Last(visits).at = "self"
    /\ LET h == Last(visits).handler
       IN  VisitNamed(h.before, Front(visits), visiting \ {h.id}, Append(ordered, h))
    /\ UNCHANGED next

SetOrdered ==
    /\ list # <<>> /\ visits = <<>> /\ next > Len(list)
    /\ handlers' = ordered
    /\ arrived' = Append(arrived, Last(list).id)
    /\ EndWalk
    /\ UNCHANGED <<next, threw>>

HandlersNext ==
    RegisterBlockingEventHandler \/ VisitNext \/ VisitAfter \/ OrderSelf \/ SetOrdered

HandlersSpec == HandlersInit /\ [][HandlersNext]_handlerVars

-----------------------------------------------------------------------------
\* While no registration was refused, a handler runs after the one it named so,
\* in whatever order and with whatever others they were registered.  It runs
\* before the one it named so if that one was registered later and is named by
\* no other handler, nor by this one in both ways.
BlockingOrderKept ==
    LET at(id) == SelectInSeq(handlers, LAMBDA h : h.id = id)
        came(id) == SelectInSeq(arrived, LAMBDA i : i = id)
        others(h) == {g \in ToSet(handlers) : g.id # h.id}
    IN  ~threw =>
        \A h \in ToSet(handlers) :
           /\ at(h.after) # 0 => at(h.after) < at(h.id)
           /\ /\ came(h.id) < came(h.before) /\ h.before # h.after
              /\ \A g \in others(h) : {g.after, g.before} \cap {h.before} = {}
              => at(h.id) < at(h.before)
=============================================================================
