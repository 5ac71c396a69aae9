-------------------------- MODULE JobPostLifecycle --------------------------
(***************************************************************************)
(* The life of one job post: JobPostService, the state machine of          *)
(* defaultJobPostProcess, and the requests of the shop and admin APIs that *)
(* drive it, each in a database transaction of its own (@Transaction()).   *)
(*                                                                         *)
(* A request loads the entity, changes it in memory and saves it.  save()  *)
(* is TypeORM's: SELECT the row, then UPDATE the columns in which the      *)
(* entity DIFFERS from what the SELECT saw.  Transactions run at READ      *)
(* COMMITTED (Postgres' default, no isolation level is configured): they   *)
(* see what is committed at each statement, and an UPDATE waits for the    *)
(* transaction that holds the row.  Nothing compares versions, so an       *)
(* entity loaded before another request's commit is written over it.       *)
(***************************************************************************)
EXTENDS Naturals, FiniteSets

CONSTANTS
    Requests,    \* requests that may be served at the same time
    Categories,  \* facet values of the facet "category"
    Skills,      \* facet values of the facet "skill"
    MinSkills, MaxSkills,
    MaxStale     \* bound: commits of entities that others have overtaken

ASSUME FacetsAssumption == Categories \cap Skills = {}
ASSUME SkillsAssumption ==
    IsFiniteSet(Skills) /\ MinSkills \in Nat \ {0} /\ MaxSkills \in Nat
ASSUME MaxStaleAssumption == MaxStale \in Nat
ASSUME RequestsAssumption == "nobody" \notin Requests

-----------------------------------------------------------------------------
(* The process: its states, its transitions and the column each stamps.    *)

JobPostState == {"DRAFT", "DRAFT_DELETED", "REQUESTED", "REJECTED", "OPEN", "CLOSED"}

Process_WithoutReview ==
    [state \in JobPostState |->
        CASE state = "DRAFT" -> {"DRAFT_DELETED", "REQUESTED", "OPEN"}
          [] state = "REQUESTED" -> {"REJECTED", "OPEN"}
          [] state = "OPEN" -> {"CLOSED"}
          [] OTHER -> {}]
Process ==
    [state \in JobPostState |->
        CASE state = "DRAFT" -> {"DRAFT_DELETED", "REQUESTED"}
          [] state = "REQUESTED" -> {"REJECTED", "OPEN"}
          [] state = "OPEN" -> {"CLOSED"}
          [] OTHER -> {}]

Dates == {"deletedAt", "rejectedAt", "publishedAt", "closedAt", "editedAt"}

Stamp_Forgets(state) == {}
Stamp(state) ==
    CASE state = "DRAFT_DELETED" -> {"deletedAt"}
      [] state = "REJECTED" -> {"rejectedAt"}
      [] state = "OPEN" -> {"publishedAt"}
      [] state = "CLOSED" -> {"closedAt"}
      [] OTHER -> {}

\* The requests that call transitionToState, and the state they ask for.
Transitions ==
    [deleteDraft |-> "DRAFT_DELETED", requestPublishDraft |-> "REQUESTED",
     publish |-> "OPEN", close |-> "CLOSED"]

\* The requests that edit, and the one state in which each may.
Editable(op) == IF op = "edit" THEN {"OPEN"} ELSE {"DRAFT"}
Edits == {"editDraft", "edit"}

-----------------------------------------------------------------------------
(* Data.  A JobPost is its state, the dates that are not null, whether the *)
(* nullable columns (description, budget, currencyCode) have values, and   *)
(* the rows of its join table with facet_value.                            *)

Post == [state : JobPostState, dates : SUBSET Dates, described : BOOLEAN,
         facetValues : SUBSET (Categories \cup Skills)]
Blank == [state |-> "DRAFT", dates |-> {}, described |-> FALSE, facetValues |-> {}]

\* A JobPost without the relation, or the row without the join rows.
RowOf(p) == [p EXCEPT !.facetValues = {}]

Deleted(p) == "deletedAt" \in p.dates

\* What an input says of a facet (zod schema and validateConstraints): nothing,
\* which is {}, or {ids}.  MinSkills to MaxSkills skills; one category, or with an
\* id of 0 (which null and "" are coerced to) none.
CategoryInputs == {{}} \cup {{ids} : ids \in {{}} \cup {{c} : c \in Categories}}
SkillInputs ==
    {{}} \cup {{ids} : ids \in {S \in SUBSET Skills : Cardinality(S) \in MinSkills .. MaxSkills}}

\* updateFacetValuesForType: the values of the facet are replaced, or removed.
WithFacetValues_Appends(values, facet, input) == values \cup UNION input
WithFacetValues(values, facet, input) ==
    IF input = {} THEN values ELSE (values \ facet) \cup UNION input

Described(p, describe) == [p EXCEPT !.described = @ \/ describe]

\* patchEntity and updateJobPostFacetValues
Patched(p, op, describe, categories, skills) ==
    [Described(p, describe) EXCEPT
        !.dates = IF op = "edit" THEN @ \cup {"editedAt"} ELSE @,
        !.facetValues = WithFacetValues(WithFacetValues(@, Categories, categories),
                                        Skills, skills)]

\* checkRequiredFieldsDefined
Complete(p) ==
    /\ p.described
    /\ p.facetValues \cap Categories # {}
    /\ p.facetValues \cap Skills # {}

-----------------------------------------------------------------------------
VARIABLES
    post,      \* the committed row and its join rows, or NoPost
    dirty,     \* the row as its holder has written it, not committed
    holder,    \* the request whose transaction holds the row, or Nobody
    at,        \* at[r]: where request r is
    op,        \* op[r]: its operation
    copy,      \* copy[r]: its JobPost object
    base,      \* base[r]: the row as the SELECT of its save() saw it
    fresh,     \* history: requests that have loaded what is committed now
    stale,     \* history: how many requests committed that were not fresh
    done       \* history: which of Review have committed

requestVars == <<at, op, copy, base>>
history == <<fresh, stale, done>>
vars == <<post, dirty, holder, at, op, copy, base, fresh, stale, done>>

NoPost == [Blank EXCEPT !.state = "none"]
Nobody == "nobody"
Review == {"requestPublishDraft", "publish"}
Operation == DOMAIN Transitions \cup Edits
Place == {"idle", "check", "save", "write", "finalize", "saveAgain", "writeAgain", "commit"}

TypeOK ==
    /\ post \in Post \cup {NoPost}
    /\ dirty \in Post
    /\ holder \in Requests \cup {Nobody}
    /\ at \in [Requests -> Place]
    /\ op \in [Requests -> Operation]
    /\ copy \in [Requests -> Post] /\ base \in [Requests -> Post]
    /\ fresh \subseteq Requests
    /\ stale \in Nat /\ done \subseteq Review
    /\ post = NoPost => \A r \in Requests : at[r] = "idle"
    /\ holder # Nobody => at[holder] \notin {"idle", "check", "save", "write"}

Init ==
    /\ post = NoPost /\ dirty = Blank /\ holder = Nobody
    /\ at = [r \in Requests |-> "idle"]
    /\ op = [r \in Requests |-> "edit"]
    /\ copy = [r \in Requests |-> Blank]
    /\ base = [r \in Requests |-> Blank]
    /\ fresh = {} /\ stale = 0 /\ done = {}

Goto(r, place) == at' = [at EXCEPT ![r] = place]

\* What a statement of r sees: its own uncommitted writes, or what is committed.
View(r) == IF holder = r THEN dirty ELSE post

\* The columns and join rows in which the entity differs from the SELECT are
\* written over the current ones.
Overwrite_Whole(now, then, entity) == entity
Overwrite(now, then, entity) ==
    [state |-> IF entity.state # then.state THEN entity.state ELSE now.state,
     dates |-> (now.dates \ (then.dates \ entity.dates)) \cup (entity.dates \ then.dates),
     described |-> IF entity.described # then.described THEN entity.described
                   ELSE now.described,
     facetValues |-> (now.facetValues \ (then.facetValues \ entity.facetValues))
                         \cup (entity.facetValues \ then.facetValues)]

Inserted(r) == copy[r].facetValues \ base[r].facetValues
JoinRows(r) == Inserted(r) \cup (base[r].facetValues \ copy[r].facetValues)

-----------------------------------------------------------------------------
(* Requests.                                                               *)

\* createDraft.  Nobody else knows the id before the transaction commits.
Create(describe, categories, skills) ==
    /\ post = NoPost
    /\ post' = Patched(Blank, "createDraft", describe, categories, skills)
    /\ UNCHANGED <<dirty, holder, requestVars, history>>

\* The controller and getEntityOrThrow find the post, not deleted.
Load(r, o, entity, place) ==
    /\ at[r] = "idle" /\ post # NoPost /\ ~Deleted(post)
    /\ Goto(r, place)
    /\ op' = [op EXCEPT ![r] = o]
    /\ copy' = [copy EXCEPT ![r] = entity]
    /\ fresh' = fresh \cup {r}
    /\ UNCHANGED <<post, dirty, holder, base, stale, done>>

\* editDraft and edit
Edit(r, o, describe, categories, skills) ==
    /\ post # NoPost
    /\ post.state \in Editable(o)
    /\ Load(r, o, Patched(post, o, describe, categories, skills), "save")

\* transitionToState up to the first save: JobPostStateMachine.transition.  It
\* loads no relation, and save() leaves alone the relations it has not loaded.
Transition(r, o) ==
    /\ post # NoPost
    /\ Transitions[o] \in Process[post.state]
    /\ Load(r, o, [RowOf(post) EXCEPT !.state = Transitions[o]],
            IF o = "requestPublishDraft" THEN "check" ELSE "save")

\* onTransitionStart: checkRequiredFieldsDefined loads the post once more.
CheckRequiredFieldsDefined_Never(r) == ~Deleted(View(r))
CheckRequiredFieldsDefined(r) == ~Deleted(View(r)) /\ Complete(View(r))

OnTransitionStart(r) ==
    /\ at[r] = "check"
    /\ CheckRequiredFieldsDefined(r)
    /\ Goto(r, "save")
    /\ UNCHANGED <<post, dirty, holder, op, copy, base, history>>

\* save(): the SELECT, of the relations too that the entity has loaded.
SaveSelect(r) ==
    /\ at[r] \in {"save", "saveAgain"}
    /\ base' = [base EXCEPT ![r] = IF op[r] \in Edits THEN View(r) ELSE RowOf(View(r))]
    /\ Goto(r, IF at[r] = "save" THEN "write" ELSE "writeAgain")
    /\ UNCHANGED <<post, dirty, holder, op, copy, history>>

\* save(): INSERTs into the join table, UPDATE of the row, DELETEs.  They wait
\* for the transactions that hold the rows; a join row that has meanwhile been
\* inserted by another one fails the request (see Fails).
RowChanges(r) ==
    \/ RowOf(copy[r]) # RowOf(base[r])
    \/ op[r] = "edit"                      \* editedAt is a new date

SaveWrite(r) ==
    /\ at[r] \in {"write", "writeAgain"}
    /\ \A other \in Requests \ {r} :
          /\ RowChanges(r) => holder # other
          /\ at[other] = "commit" /\ op[other] \in Edits
             => JoinRows(r) \cap JoinRows(other) = {}
    /\ Inserted(r) \cap post.facetValues = {}
    /\ IF RowChanges(r)
       THEN holder' = r /\ dirty' = RowOf(Overwrite(View(r), base[r], copy[r]))
       ELSE UNCHANGED <<holder, dirty>>
    /\ Goto(r, IF at[r] = "write" /\ op[r] \notin Edits THEN "finalize" ELSE "commit")
    /\ UNCHANGED <<post, op, copy, base, history>>

\* onTransitionEnd
Finalize(r) ==
    /\ at[r] = "finalize"
    /\ copy' = [copy EXCEPT ![r].dates = @ \cup Stamp(copy[r].state)]
    /\ Goto(r, "saveAgain")
    /\ UNCHANGED <<post, dirty, holder, op, base, history>>

\* The end of the transaction of r, and of the request.
ReleaseRow_Never(r) == UNCHANGED <<holder, dirty>>
ReleaseRow(r) ==
    IF holder = r THEN holder' = Nobody /\ dirty' = Blank ELSE UNCHANGED <<holder, dirty>>

EndRequest(r) ==
    /\ Goto(r, "idle")
    /\ op' = [op EXCEPT ![r] = "edit"]
    /\ copy' = [copy EXCEPT ![r] = Blank]
    /\ base' = [base EXCEPT ![r] = Blank]

\* The other join rows of the post may have changed since r wrote its row.
Commit(r) ==
    /\ at[r] = "commit"
    /\ r \in fresh \/ stale < MaxStale
    /\ post' = [View(r) EXCEPT
                   !.facetValues = Overwrite(post, base[r], copy[r]).facetValues]
    /\ ReleaseRow(r)
    /\ EndRequest(r)
    /\ fresh' = {}
    /\ stale' = IF r \in fresh THEN stale ELSE stale + 1
    /\ done' = done \cup ({op[r]} \cap Review)

\* A check fails, a statement fails, the process dies: ROLLBACK.
Fails(r) ==
    /\ at[r] # "idle"
    /\ ReleaseRow(r)
    /\ EndRequest(r)
    /\ fresh' = fresh \ {r}
    /\ UNCHANGED <<post, stale, done>>

Next ==
    \/ \E describe \in BOOLEAN, categories \in CategoryInputs, skills \in SkillInputs :
          \/ Create(describe, categories, skills)
          \/ \E r \in Requests, o \in Edits : Edit(r, o, describe, categories, skills)
    \/ \E r \in Requests :
          \/ \E o \in DOMAIN Transitions : Transition(r, o)
          \/ OnTransitionStart(r) \/ SaveSelect(r) \/ SaveWrite(r)
          \/ Finalize(r) \/ Commit(r) \/ Fails(r)

Spec == Init /\ [][Next]_vars

-----------------------------------------------------------------------------
(***************************************************************************)
(* Properties.  Requests that overlap may write over each other (see       *)
(* TerminalStatesAreFinal).  The first five properties say that this is    *)
(* the only way the process is ever broken: they hold as long as no        *)
(* request has committed an entity that was loaded before another commit.  *)
(***************************************************************************)

\* The transitions that job-post-state.ts documents.
Documented ==
    {<<"DRAFT", "DRAFT_DELETED">>, <<"DRAFT", "REQUESTED">>,
     <<"REQUESTED", "REJECTED">>, <<"REQUESTED", "OPEN">>, <<"OPEN", "CLOSED">>}

\* The state of a post changes along a documented transition only: the state
\* checks of editDraft, edit and the FSM, and the two saves of a transition.
\* JobPostProcess has no other step, so ServedOneByOne implies it.
FollowsProcess ==
    [][ post # NoPost /\ post'.state # post.state /\ stale' = 0
        => <<post.state, post'.state>> \in Documented ]_vars

\* The dates of a post tell which states it has been through: onTransitionEnd
\* runs after the first save and its effect is saved by the second one.
DatesAgreeWithState ==
    post # NoPost /\ stale = 0 =>
        /\ "deletedAt" \in post.dates <=> post.state = "DRAFT_DELETED"
        /\ "rejectedAt" \in post.dates <=> post.state = "REJECTED"
        /\ "publishedAt" \in post.dates <=> post.state \in {"OPEN", "CLOSED"}
        /\ "closedAt" \in post.dates <=> post.state = "CLOSED"
        /\ "editedAt" \in post.dates => "publishedAt" \in post.dates

\* A post under review has every required field, and once it is open it keeps
\* them, whatever is edited after the check of onTransitionStart, except for the
\* category, which an edit of the open post may take away.
SubmittedIsComplete ==
    post # NoPost /\ stale = 0 =>
        /\ post.state = "REQUESTED" => Complete(post)
        /\ post.state \in {"OPEN", "CLOSED"} =>
              /\ post.described /\ post.facetValues \cap Skills # {}
              /\ "editedAt" \in post.dates \/ Complete(post)

\* A post has at most one category and no more skills than allowed: each edit
\* replaces the values of a facet in the list it has loaded.
FacetValuesWithinLimits ==
    post # NoPost /\ stale = 0 =>
        /\ Cardinality(post.facetValues \cap Categories) <= 1
        /\ Cardinality(post.facetValues \cap Skills) <= MaxSkills

\* Requests are served as if one at a time: whatever interleaves with the
\* statements of a request or fails between them, its commit does to the post
\* that is committed by then all that its operation does to a post, or nothing.
Atomic == INSTANCE JobPostProcess WITH overtaken <- stale # 0
ServedOneByOne == Atomic!Spec

\* Whatever overlaps: nothing becomes visible to freelancers that the client
\* has not submitted and an administrator has not published.
VisibleOnlyAfterReview ==
    post # NoPost /\ post.state \in {"OPEN", "CLOSED"}
        => done = Review

\* job-post-state.ts:23,30,38: "This is a terminal state (no further
\* transitions allowed)".
TerminalStatesAreFinal ==
    [][ post # NoPost /\ post.state \in {"DRAFT_DELETED", "REJECTED", "CLOSED"}
        => post'.state = post.state ]_vars
=============================================================================
