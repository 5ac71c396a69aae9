---------------------------- MODULE Collections ----------------------------
(***************************************************************************)
(* CollectionService: the tree of collections, the filters that hold in    *)
(* each, and the job that fills a collection with what passes them.        *)
(*                                                                         *)
(* Calls are made outside a transaction, as the populator makes them, so   *)
(* that every statement is seen at once and a call may end between two.    *)
(* Names, slugs, assets and the order of siblings are left out, and so are *)
(* calls that name the root collection itself.                             *)
(***************************************************************************)
EXTENDS Naturals, Sequences, FiniteSets, SequencesExt

CONSTANTS
    Nodes,         \* the collections there may ever be
    TreeRequests,  \* overlapping calls of the service
    MaxFilters,    \* bound: versions of one collection's filters; 0 is none
    MaxChanges     \* bound: calls and changes of job posts

Root == "root"
Absent == "absent"     \* there has been no such row
Gone == "gone"         \* it was deleted; no other row gets its id

ASSUME TreeAssumption ==
    /\ MaxFilters \in Nat /\ MaxChanges \in Nat
    /\ IsFiniteSet(Nodes) /\ Nodes \cap {Root, Absent, Gone} = {}

VARIABLES
    row,       \* row[c]: the row of collection c
    members,   \* members[c]: the filters that all job posts linked to c pass
    call,      \* call[r]: a call in progress
    pending,   \* collections that "apply-collection-filters" jobs have ahead
    job,       \* the collection the worker is at
    changes,   \* calls begun and entity events so far
    unchecked, \* history: a parent was written that no check had seen: see
               \* MoveCollection and UpdateCollection
    stale      \* history: what in force in c, or its links, changed after the
               \* last application to c began, with no other one to follow

treeVars == <<row, members, call, pending, job, changes, unchecked, stale>>

Row == [parent : Nodes \cup {Root, Absent, Gone}, filters : 0 .. MaxFilters, inherits : BOOLEAN]
NoCall == [at |-> "idle", on |-> Root, to |-> Root, rows |-> <<>>]
NoJob == [at |-> "idle", on |-> Root, own |-> {}, inherits |-> FALSE, target |-> {}, was |-> {}]

\* What is left when links were removed that other filters had put there.
Partly == {<<Root, 0>>}

Exists(c) == c \in Nodes /\ row[c].parent \notin {Absent, Gone}
Alive == {c \in Nodes : Exists(c)}

TreeTypeOK ==
    /\ row \in [Nodes -> Row]
    /\ \A c \in Nodes : members[c] \subseteq (Nodes \X (1 .. MaxFilters)) \cup Partly
    /\ \A r \in TreeRequests :
          /\ call[r].at \in {"idle", "create", "move", "delete", "enqueue"}
          /\ \A c \in DOMAIN call[r].rows : call[r].rows[c] \in Row
    /\ pending \subseteq Nodes /\ stale \subseteq Nodes
    /\ job.at \in {"idle", "loaded", "compared"}
    /\ job.at # "idle" => job.on \in Nodes
    /\ changes \in 0 .. MaxChanges
    /\ unchecked \in BOOLEAN

-----------------------------------------------------------------------------
(***************************************************************************)
(* Ancestors and filters.                                                  *)
(***************************************************************************)
\* getAncestors: c, its parent, and so on up to the root.
LineUp(c) ==
    LET up[n \in Nat] ==
          IF n = 0 THEN <<c>>
          ELSE LET p == row[Last(up[n - 1])].parent
               IN  IF Exists(p) THEN Append(up[n - 1], p) ELSE up[n - 1]
    IN  up[Cardinality(Nodes)]

\* The walk up from c ends.
Ends(c) == Len(LineUp(c)) <= Cardinality(Nodes)

\* c is above itself, and so getDescendants of c comes back to it for ever.
Circles(c) == c \in ToSet(Tail(LineUp(c)))

\* getDescendants
Descendants(c) == {d \in Alive \ {c} : c \in ToSet(LineUp(d))}

Own(c) == {<<c, row[c].filters>>} \cap (Nodes \X (1 .. MaxFilters))

\* getAncestorFilters: only if c inherits any, and it stops behind the first
\* ancestor that does not inherit.
FiltersAlong(line) ==
    UNION {Own(line[i]) : i \in {k \in 2 .. Len(line) :
                                    \A j \in 2 .. k - 1 : row[line[j]].inherits}}

AncestorFilters(c, inherits) ==
    UNION {FiltersAlong(line) : line \in IF inherits THEN {LineUp(c)} ELSE {}}

InForce(c) == Own(c) \cup AncestorFilters(c, row[c].inherits)

\* A tree that was built by creates and updates, with all jobs done.
TreeInit ==
    /\ row \in [Nodes -> Row]
    /\ \A c \in Nodes :
          /\ row[c].parent \in Alive \cup {Root, Absent} /\ Ends(c)
          /\ row[c].filters = IF Exists(c) THEN MaxFilters ELSE 0
          /\ Exists(c) \/ row[c].inherits
    /\ members = [c \in Nodes |-> InForce(c)]
    /\ call = [r \in TreeRequests |-> NoCall]
    /\ pending = {} /\ job = NoJob
    /\ changes = 0 /\ unchecked = FALSE /\ stale = {}

\* What a change of row leaves stale, if a job follows for the collections `on'.
LeftStale(on) ==
    {d \in Alive' \ on :
        d \notin Alive \/ row'[d].inherits # row[d].inherits \/ InForce(d)' # InForce(d)}

-----------------------------------------------------------------------------
(***************************************************************************)
(* Calls of the service.                                                   *)
(***************************************************************************)
Begin(r) ==
    /\ call[r] = NoCall /\ changes < MaxChanges
    /\ changes' = changes + 1

Ids == {call[r].on : r \in TreeRequests}

\* create: a parent that is not found is left in place for the foreign key to
\* refuse; it may also go before save().
CreateCollection(r) ==
    /\ Begin(r)
    /\ \E c \in Nodes, p \in Alive \cup {Root}, f \in 0 .. MaxFilters, inherits \in BOOLEAN :
          /\ row[c].parent = Absent /\ c \notin Ids
          /\ call' = [call EXCEPT ![r] =
                 [at |-> "create", on |-> c, to |-> p,
                  rows |-> [d \in {c} |-> [parent |-> p, filters |-> f, inherits |-> inherits]]]]
          /\ UNCHANGED <<row, members, pending, job, unchecked, stale>>

Moving == {r \in TreeRequests : call[r].at = "move"}

Inside_Itself(c) == {c}
Inside(c) == {c} \cup Descendants(c)

\* move: the rows of the siblings are read, to be written back whole.
MoveCollection(r) ==
    /\ Begin(r)
    /\ \E c \in Alive, p \in Alive \cup {Root} :
          /\ ~Circles(c) /\ p \notin Inside(c)
          /\ call' = [call EXCEPT ![r] =
                 [at |-> "move", on |-> c, to |-> p,
                  rows |-> [d \in {c} \cup {s \in Alive : row[s].parent = p} |->
                               [row[d] EXCEPT !.parent = p]]]]
          /\ unchecked' = (unchecked \/ Moving # {})
          /\ UNCHANGED <<row, members, pending, job, stale>>

\* save(): rows that are gone by now are inserted again; the parent must exist.
SaveRows(r) ==
    /\ call[r].at \in {"create", "move"}
    /\ call[r].to \in Alive \cup {Root}
    /\ row' = [d \in Nodes |-> IF d \in DOMAIN call[r].rows THEN call[r].rows[d] ELSE row[d]]
    /\ stale' = stale \cup LeftStale({call[r].on})
    /\ call' = [call EXCEPT ![r] = [NoCall EXCEPT !.at = "enqueue", !.on = call[r].on]]
    /\ UNCHANGED <<members, pending, job, changes, unchecked>>

\* update: the columns of the input are written, the parent among them as it is.
\* A job is added only if the input has filters.
UpdateCollection(r) ==
    /\ Begin(r)
    /\ \E c \in Alive, p \in Alive \cup {Root}, f \in 0 .. MaxFilters,
          inherits \in BOOLEAN, given \in BOOLEAN :
          /\ given \/ f = row[c].filters
          /\ row' = [row EXCEPT ![c] = [parent |-> p, filters |-> f, inherits |-> inherits]]
          /\ call' = IF given
                     THEN [call EXCEPT ![r] = [NoCall EXCEPT !.at = "enqueue", !.on = c]]
                     ELSE call
          /\ stale' = stale \cup LeftStale(IF given THEN {c} ELSE {})
          /\ unchecked' = \/ unchecked \/ p \in {c} \cup Descendants(c)
                          \/ p # row[c].parent /\ Moving # {}
          /\ UNCHANGED <<members, pending, job>>

FollowUp_None(r) == {}
FollowUp(r) == {call[r].on}

Enqueue(r) ==
    /\ call[r].at = "enqueue"
    /\ pending' = pending \cup FollowUp(r)
    /\ call' = [call EXCEPT ![r] = NoCall]
    /\ UNCHANGED <<row, members, job, changes, unchecked, stale>>

\* delete: the collection, with the descendants it has now.
DeleteCollection(r) ==
    /\ Begin(r)
    /\ \E c \in Alive :
          /\ ~Circles(c)
          /\ call' = [call EXCEPT ![r] = [at |-> "delete", on |-> c, to |-> c,
                                          rows |-> [d \in {c} \cup Descendants(c) |-> row[d]]]]
          /\ UNCHANGED <<row, members, pending, job, unchecked, stale>>

\* One after the other, children first.  The links that go first are those of
\* the collection the call names, to the job posts of this one.
RemoveOne(r) ==
    LET rows == call[r].rows
        c == call[r].on
    IN  /\ call[r].at = "delete"
        /\ \E d \in DOMAIN rows :
              /\ \A e \in DOMAIN rows : rows[e].parent # d
              /\ \A e \in Alive \ {d} : row[e].parent # d
              /\ row' = [row EXCEPT ![d].parent = Gone]
              /\ members' = [members EXCEPT
                    ![c] = IF members[d] = {} \/ @ = {} THEN @ ELSE Partly,
                    ![d] = {}]
              /\ stale' = stale \cup {c}
              /\ call' = [call EXCEPT ![r] =
                     IF d = c THEN NoCall
                     ELSE [@ EXCEPT !.rows = [e \in DOMAIN rows \ {d} |-> rows[e]]]]
        /\ UNCHANGED <<pending, job, changes, unchecked>>

\* A statement is refused, or the process dies.
CallFails(r) ==
    /\ call[r].at # "idle"
    /\ call' = [call EXCEPT ![r] = NoCall]
    /\ stale' = IF call[r].at = "enqueue" THEN stale \cup {call[r].on} ELSE stale
    /\ UNCHANGED <<row, members, pending, job, changes, unchecked>>

-----------------------------------------------------------------------------
(***************************************************************************)
(* The worker: one application at a time.                                  *)
(***************************************************************************)
\* Events of job posts, debounced: a job for all collections.
JobPostsChange ==
    /\ changes < MaxChanges
    /\ changes' = changes + 1
    /\ pending' = pending \cup Alive
    /\ UNCHANGED <<row, members, call, job, unchecked, stale>>

\* A collection that is not found is skipped.
LoadCollection ==
    \E c \in pending :
       /\ job = NoJob
       /\ pending' = pending \ {c}
       /\ job' = IF Exists(c)
                 THEN [NoJob EXCEPT !.at = "loaded", !.on = c, !.own = Own(c),
                                    !.inherits = row[c].inherits]
                 ELSE NoJob
       /\ stale' = stale \ {c}
       /\ UNCHANGED <<row, members, call, changes, unchecked>>

\* The filters of the ancestors, looked up if it inherits any, and what the
\* collection has of them.
CompareMembers ==
    /\ job.at = "loaded"
    /\ job.inherits => Ends(job.on)
    /\ job' = [job EXCEPT !.at = "compared", !.was = members[job.on],
                          !.target = job.own \cup AncestorFilters(job.on, job.inherits)]
    /\ UNCHANGED <<row, members, call, pending, changes, unchecked, stale>>

\* Links are added and removed in one transaction.
ApplyMembers ==
    LET c == job.on IN
    /\ job.at = "compared" /\ Exists(c)
    /\ members' = [members EXCEPT ![c] = IF @ = job.was THEN job.target ELSE Partly]
    /\ stale' = IF members[c] = job.was THEN stale ELSE stale \cup {c}
    /\ job' = NoJob
    /\ UNCHANGED <<row, call, pending, changes, unchecked>>

\* The error is logged and the next collection taken, or the job is cancelled.
ApplyFails ==
    /\ job.at # "idle"
    /\ job' = NoJob
    /\ stale' = stale \cup {job.on}
    /\ UNCHANGED <<row, members, call, pending, changes, unchecked>>

TreeNext ==
    \/ \E r \in TreeRequests :
          \/ CreateCollection(r) \/ MoveCollection(r) \/ SaveRows(r)
          \/ UpdateCollection(r) \/ Enqueue(r)
          \/ DeleteCollection(r) \/ RemoveOne(r) \/ CallFails(r)
    \/ JobPostsChange
    \/ LoadCollection \/ CompareMembers \/ ApplyMembers \/ ApplyFails

-----------------------------------------------------------------------------
\* Whatever calls overlap, and although a move writes back and even inserts again
\* the siblings it has read: no collection hangs below one that was deleted, and
\* every walk up the tree ends, until two moves overlap, or update() changes a
\* parent during a move, or puts a collection inside itself.  "Cannot move a
\* Collection into itself" is what move() says; update() does not look.
EveryWalkEnds ==
    \A c \in Alive :
       /\ ~unchecked => Ends(c)
       /\ row[c].parent \in Alive \cup {Root}

\* When no job is ahead for a collection, it holds what passes the filters in
\* force: its own and those it inherits.  Not so (stale) when a collection above
\* it changed, when update() changed inheritFilters or the parent without filters
\* beside them, when a move wrote old filters back, or when a call or a job did
\* not get to its end.
MembersFollowFilters ==
    \A c \in Alive \ (stale \cup pending \cup {job.on} \cup
                      {call[r].on : r \in {q \in TreeRequests : call[q].at = "enqueue"}}) :
       members[c] = InForce(c)
=============================================================================
