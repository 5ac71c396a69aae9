---------------------------- MODULE JobPostProofs ----------------------------
(***************************************************************************)
(* Proofs about JobPostLifecycle, for any number of overlapping requests   *)
(* and any facet values; the second half shows that overlapping requests   *)
(* are the only way in which the process of a job post is ever broken.     *)
(***************************************************************************)
EXTENDS JobPostLifecycle, FiniteSetTheorems, TLAPS

-----------------------------------------------------------------------------
(***************************************************************************)
(* What keeps VisibleOnlyAfterReview true: no row, and no entity on its    *)
(* way to the row, is in a state that the committed reviews, and the       *)
(* request itself, do not justify.                                         *)
(***************************************************************************)
Justified(state, reviewed) ==
    /\ state = "REQUESTED" => "requestPublishDraft" \in reviewed
    /\ state \in {"OPEN", "CLOSED"} => reviewed = Review

\* done, as it will be once r has committed.
DoneBy(r) == done \cup ({op[r]} \cap Review)

ReviewInv ==
    /\ Justified(post.state, done)
    /\ \A r \in Requests : at[r] # "idle" => Justified(copy[r].state, DoneBy(r))
    /\ holder # Nobody => Justified(dirty.state, DoneBy(holder))

-----------------------------------------------------------------------------
(***************************************************************************)
(* Operators on posts.                                                     *)
(***************************************************************************)
LEMMA RowOfPost ==
    ASSUME NEW p \in Post
    PROVE  /\ RowOf(p) \in Post
           /\ RowOf(p).state = p.state /\ RowOf(p).dates = p.dates
           /\ RowOf(p).described = p.described /\ RowOf(p).facetValues = {}
BY DEF RowOf, Post

LEMMA OverwritePost ==
    ASSUME NEW now \in Post, NEW then \in Post, NEW entity \in Post
    PROVE  Overwrite(now, then, entity) \in Post
BY DEF Overwrite, Post

\* Nothing is lost when the row is still as the SELECT saw it.
LEMMA OverwriteUnchanged ==
    ASSUME NEW then \in Post, NEW entity \in Post
    PROVE  Overwrite(then, then, entity) = entity
<1>1. /\ (then.dates \ (then.dates \ entity.dates)) \cup (entity.dates \ then.dates)
            = entity.dates
      /\ (then.facetValues \ (then.facetValues \ entity.facetValues))
            \cup (entity.facetValues \ then.facetValues) = entity.facetValues
    OBVIOUS
<1>2. entity = [state |-> entity.state, dates |-> entity.dates,
                described |-> entity.described, facetValues |-> entity.facetValues]
    BY DEF Post
<1> QED
    BY <1>1, <1>2 DEF Overwrite

LEMMA InputsAreFacetValues ==
    ASSUME NEW categories \in CategoryInputs, NEW skills \in SkillInputs
    PROVE  /\ UNION categories \subseteq Categories /\ UNION skills \subseteq Skills
           /\ categories # {} =>
                 UNION categories \in {{}} \cup {{c} : c \in Categories}
           /\ skills # {} =>
                 UNION skills \in {S \in SUBSET Skills : Cardinality(S) \in MinSkills .. MaxSkills}
<1>1. categories = {} \/ \E ids \in {{}} \cup {{c} : c \in Categories} : categories = {ids}
    BY DEF CategoryInputs
<1>2. skills = {} \/ \E ids \in {S \in SUBSET Skills : Cardinality(S) \in MinSkills .. MaxSkills} :
                         skills = {ids}
    BY DEF SkillInputs
<1>3. /\ UNION {} = {}
      /\ \A ids : UNION {ids} = ids
    OBVIOUS
<1>4. /\ UNION categories \subseteq Categories
      /\ categories # {} => UNION categories \in {{}} \cup {{c} : c \in Categories}
    BY <1>1, <1>3
<1>5. /\ UNION skills \subseteq Skills
      /\ skills # {} =>
            UNION skills \in {S \in SUBSET Skills : Cardinality(S) \in MinSkills .. MaxSkills}
    BY <1>2, <1>3
<1> QED
    BY <1>4, <1>5

LEMMA PatchedPost ==
    ASSUME NEW p \in Post, NEW o \in Operation, NEW describe \in BOOLEAN,
           NEW categories \in CategoryInputs, NEW skills \in SkillInputs
    PROVE  LET q == Patched(p, o, describe, categories, skills) IN
           /\ q \in Post
           /\ q.state = p.state
           /\ q.dates = p.dates \cup (IF o = "edit" THEN {"editedAt"} ELSE {})
           /\ p.described => q.described
           /\ q.facetValues = WithFacetValues(
                 WithFacetValues(p.facetValues, Categories, categories), Skills, skills)
<1>1. UNION categories \subseteq Categories /\ UNION skills \subseteq Skills
    BY InputsAreFacetValues
<1>2. WithFacetValues(WithFacetValues(p.facetValues, Categories, categories), Skills, skills)
          \subseteq Categories \cup Skills
    BY <1>1 DEF WithFacetValues, Post
<1>3. Described(p, describe) \in Post /\ Described(p, describe).facetValues = p.facetValues
         /\ Described(p, describe).state = p.state /\ Described(p, describe).dates = p.dates
         /\ (p.described => Described(p, describe).described)
    BY DEF Described, Post
<1> QED
    BY <1>2, <1>3 DEF Patched, Post, Dates

LEMMA ViewPost ==
    ASSUME TypeOK, NEW r \in Requests, at[r] # "idle"
    PROVE  View(r) \in Post /\ post \in Post
BY DEF TypeOK, View

-----------------------------------------------------------------------------
LEMMA EndRequestType ==
    ASSUME TypeOK, NEW r \in Requests, EndRequest(r)
    PROVE  /\ at' \in [Requests -> Place] /\ op' \in [Requests -> Operation]
           /\ copy' \in [Requests -> Post] /\ base' \in [Requests -> Post]
           /\ at' = [at EXCEPT ![r] = "idle"]
<1>1. Blank \in Post /\ "edit" \in Operation /\ "idle" \in Place
    BY DEF Blank, Post, JobPostState, Operation, Edits, Place
<1> QED
    BY <1>1 DEF EndRequest, Goto, TypeOK

LEMMA ReleaseRowType ==
    ASSUME TypeOK, NEW r \in Requests, ReleaseRow(r)
    PROVE  /\ dirty' \in Post /\ holder' \in Requests \cup {Nobody}
           /\ holder' # Nobody => holder' = holder /\ holder # r
<1>1. Blank \in Post
    BY DEF Blank, Post, JobPostState
<1> QED
    BY <1>1 DEF ReleaseRow, TypeOK

LEMMA LoadType ==
    ASSUME TypeOK, NEW r \in Requests, NEW o \in Operation, NEW entity \in Post,
           NEW place \in {"check", "save"}, Load(r, o, entity, place)
    PROVE  TypeOK'
<1>1. place \in Place /\ place # "idle"
    BY DEF Place
<1>2. at' = [at EXCEPT ![r] = place]
    BY DEF Load, Goto
<1>3. holder # r
    BY RequestsAssumption DEF Load, TypeOK, Nobody
<1>4. post' = post /\ holder' = holder /\ dirty' = dirty
    BY DEF Load
<1>5. /\ at' \in [Requests -> Place] /\ op' \in [Requests -> Operation]
      /\ copy' \in [Requests -> Post] /\ base' \in [Requests -> Post]
    BY <1>1, <1>2 DEF Load, TypeOK
<1>6. post' # NoPost
    BY DEF Load
<1>7. holder' # Nobody => at'[holder'] \notin {"idle", "check", "save", "write"}
    BY <1>2, <1>3, <1>4, RequestsAssumption DEF TypeOK, Nobody
<1> QED
    BY <1>4, <1>5, <1>6, <1>7 DEF Load, TypeOK

LEMMA InitTypeOK == Init => TypeOK
<1>1. Blank \in Post /\ "edit" \in Operation
    BY DEF Blank, Post, JobPostState, Operation, Edits
<1> QED
    BY <1>1 DEF Init, TypeOK, Place

\* Every step of Next, for the proofs by cases.
LEMMA NextCases ==
    ASSUME Next
    PROVE  \/ \E describe \in BOOLEAN, categories \in CategoryInputs, skills \in SkillInputs :
                 Create(describe, categories, skills)
           \/ \E r \in Requests, o \in Edits, describe \in BOOLEAN,
                 categories \in CategoryInputs, skills \in SkillInputs :
                 Edit(r, o, describe, categories, skills)
           \/ \E r \in Requests, o \in DOMAIN Transitions : Transition(r, o)
           \/ \E r \in Requests :
                 \/ OnTransitionStart(r) \/ SaveSelect(r) \/ SaveWrite(r)
                 \/ Finalize(r) \/ Commit(r) \/ Fails(r)
BY DEF Next

\* The entity with which a transition starts.
LEMMA TransitionEntity ==
    ASSUME NEW p \in Post, NEW o \in DOMAIN Transitions
    PROVE  /\ o \in Operation /\ o \notin Edits
           /\ Transitions[o] \in JobPostState
           /\ [RowOf(p) EXCEPT !.state = Transitions[o]] \in Post
<1>1. o \in {"deleteDraft", "requestPublishDraft", "publish", "close"}
    BY DEF Transitions
<1>2. Transitions[o] \in JobPostState /\ o \notin Edits
    BY <1>1 DEF Transitions, JobPostState, Edits
<1> QED
    BY <1>2, RowOfPost DEF Operation, Post

LEMMA NextTypeOK == TypeOK /\ [Next]_vars => TypeOK'
<1> SUFFICES ASSUME TypeOK, [Next]_vars PROVE TypeOK'
    OBVIOUS
<1> USE DEF requestVars, history
<1>1. ASSUME NEW describe \in BOOLEAN, NEW categories \in CategoryInputs,
             NEW skills \in SkillInputs, Create(describe, categories, skills)
      PROVE  TypeOK'
  <2>1. Blank \in Post /\ "createDraft" \notin Edits
      BY DEF Blank, Post, JobPostState, Edits
  <2>2. post' \in Post
      <3>1. Patched(Blank, "edit", describe, categories, skills) \in Post
          BY <2>1, PatchedPost DEF Operation, Edits
      <3> QED
          BY <1>1, <2>1, <3>1 DEF Create, Patched, Described, Post
  <2>3. post' # NoPost
      BY <2>2 DEF NoPost, Blank, Post, JobPostState
  <2> QED
      BY <1>1, <2>2, <2>3 DEF Create, TypeOK
<1>2. ASSUME NEW r \in Requests, NEW o \in Edits, NEW describe \in BOOLEAN,
             NEW categories \in CategoryInputs, NEW skills \in SkillInputs,
             Edit(r, o, describe, categories, skills)
      PROVE  TypeOK'
  <2>1. post \in Post /\ o \in Operation
      BY <1>2 DEF Edit, TypeOK, Operation
  <2>2. Patched(post, o, describe, categories, skills) \in Post
      BY <2>1, PatchedPost
  <2> QED
      BY <1>2, <2>1, <2>2, LoadType DEF Edit
<1>3. ASSUME NEW r \in Requests, NEW o \in DOMAIN Transitions, Transition(r, o)
      PROVE  TypeOK'
  <2>1. post \in Post
      BY <1>3 DEF Transition, TypeOK
  <2> QED
      BY <1>3, <2>1, TransitionEntity, LoadType DEF Transition
<1>4. ASSUME NEW r \in Requests, OnTransitionStart(r) PROVE TypeOK'
  <2>1. at' = [at EXCEPT ![r] = "save"] /\ holder # r
      BY <1>4, RequestsAssumption DEF OnTransitionStart, Goto, TypeOK, Nobody
  <2> QED
      BY <1>4, <2>1 DEF OnTransitionStart, TypeOK, Place
<1>5. ASSUME NEW r \in Requests, SaveSelect(r) PROVE TypeOK'
  <2>1. base' \in [Requests -> Post]
      BY <1>5, ViewPost, RowOfPost DEF SaveSelect, TypeOK
  <2>2. at' = [at EXCEPT ![r] = IF at[r] = "save" THEN "write" ELSE "writeAgain"]
      BY <1>5 DEF SaveSelect, Goto
  <2>3. holder = r => at[r] # "save"
      BY RequestsAssumption DEF TypeOK, Nobody
  <2> QED
      BY <1>5, <2>1, <2>2, <2>3 DEF SaveSelect, TypeOK, Place
<1>6. ASSUME NEW r \in Requests, SaveWrite(r) PROVE TypeOK'
  <2>1. /\ at' \in [Requests -> Place]
        /\ at'[r] \in {"finalize", "commit"}
        /\ \A q \in Requests \ {r} : at'[q] = at[q]
      BY <1>6 DEF SaveWrite, Goto, TypeOK, Place
  <2>2. holder' \in {holder, r} /\ dirty' \in Post
      BY <1>6, ViewPost, OverwritePost, RowOfPost DEF SaveWrite, TypeOK
  <2>3. post' = post /\ at[r] # "idle"
      BY <1>6 DEF SaveWrite
  <2> QED
      BY <1>6, <2>1, <2>2, <2>3, RequestsAssumption DEF SaveWrite, TypeOK, Nobody
<1>7. ASSUME NEW r \in Requests, Finalize(r) PROVE TypeOK'
  <2>1. [copy[r] EXCEPT !.dates = @ \cup Stamp(copy[r].state)] \in Post
      BY DEF TypeOK, Post, Stamp, Dates
  <2>2. at' = [at EXCEPT ![r] = "saveAgain"]
      BY <1>7 DEF Finalize, Goto
  <2> QED
      BY <1>7, <2>1, <2>2 DEF Finalize, TypeOK, Place
<1>8. ASSUME NEW r \in Requests, Commit(r) PROVE TypeOK'
  <2>1. View(r) \in Post /\ post \in Post /\ copy[r] \in Post /\ base[r] \in Post
      BY <1>8, ViewPost DEF Commit, TypeOK
  <2>2. post' \in Post
      BY <1>8, <2>1, OverwritePost DEF Commit, Post
  <2>3. post' # NoPost
      BY <2>2 DEF NoPost, Blank, Post, JobPostState
  <2>4. done' \subseteq Review /\ fresh' \subseteq Requests /\ stale' \in Nat
      BY <1>8 DEF Commit, TypeOK
  <2> QED
      BY <1>8, <2>2, <2>3, <2>4, EndRequestType, ReleaseRowType DEF Commit, TypeOK
<1>9. ASSUME NEW r \in Requests, Fails(r) PROVE TypeOK'
  <2>1. post' = post /\ post # NoPost
      BY <1>9 DEF Fails, TypeOK
  <2> QED
      BY <1>9, <2>1, EndRequestType, ReleaseRowType DEF Fails, TypeOK
<1>10. ASSUME UNCHANGED vars PROVE TypeOK'
    BY <1>10 DEF vars, TypeOK
<1> QED
    BY <1>1, <1>2, <1>3, <1>4, <1>5, <1>6, <1>7, <1>8, <1>9, <1>10, NextCases

\* Every variable keeps its type; a request works only on a post that exists,
\* and a row is held only by a request that has written it.
THEOREM TypeCorrect == Spec => []TypeOK
    BY InitTypeOK, NextTypeOK, PTL DEF Spec

-----------------------------------------------------------------------------
(***************************************************************************)
(* ReviewInv.                                                              *)
(***************************************************************************)
LEMMA JustifiedGrows ==
    ASSUME NEW state, NEW S, NEW T, S \subseteq T, T \subseteq Review, Justified(state, S)
    PROVE  Justified(state, T)
BY DEF Justified

\* What a transition makes of a justified post, once it has committed.
LEMMA TransitionJustified ==
    ASSUME NEW p \in Post, NEW o \in DOMAIN Transitions, NEW reviewed \in SUBSET Review,
           Justified(p.state, reviewed), Transitions[o] \in Process[p.state]
    PROVE  Justified(Transitions[o], reviewed \cup ({o} \cap Review))
<1>1. o \in {"deleteDraft", "requestPublishDraft", "publish", "close"}
    BY DEF Transitions
<1>2. CASE o = "deleteDraft"
    BY <1>2 DEF Transitions, Justified
<1>3. CASE o = "requestPublishDraft"
    BY <1>3 DEF Transitions, Justified, Review
<1>4. CASE o = "publish"
  <2>1. "OPEN" \in Process[p.state]
      BY <1>4 DEF Transitions
  <2>2. p.state = "REQUESTED"
      BY <2>1 DEF Process, Post, JobPostState
  <2> QED
      BY <1>4, <2>2 DEF Transitions, Justified, Review
<1>5. CASE o = "close"
  <2>1. "CLOSED" \in Process[p.state]
      BY <1>5 DEF Transitions
  <2>2. p.state = "OPEN"
      BY <2>1 DEF Process, Post, JobPostState
  <2> QED
      BY <1>5, <2>2 DEF Transitions, Justified, Review
<1> QED
    BY <1>1, <1>2, <1>3, <1>4, <1>5

\* save() writes the state of the entity or leaves the one that is there.
LEMMA OverwriteState ==
    ASSUME NEW now, NEW then, NEW entity
    PROVE  RowOf(Overwrite(now, then, entity)).state \in {now.state, entity.state}
BY DEF RowOf, Overwrite

LEMMA ViewJustified ==
    ASSUME TypeOK, ReviewInv, NEW r \in Requests
    PROVE  Justified(View(r).state, DoneBy(r))
<1>1. done \subseteq DoneBy(r) /\ DoneBy(r) \subseteq Review
    BY DEF DoneBy, TypeOK
<1>2. CASE holder = r
    BY <1>2, RequestsAssumption DEF View, ReviewInv, Nobody
<1>3. CASE holder # r
    BY <1>1, <1>3, JustifiedGrows DEF View, ReviewInv
<1> QED
    BY <1>2, <1>3

\* Steps at whose end each entity and the held row are as justified as before.
LEMMA ReviewStep ==
    ASSUME TypeOK, ReviewInv, Justified(post'.state, done'),
           done \subseteq done', done' \subseteq Review,
           \A r \in Requests : at'[r] # "idle" =>
              \/ Justified(copy'[r].state, DoneBy(r)')
              \/ at[r] # "idle" /\ copy'[r].state = copy[r].state /\ op'[r] = op[r],
           holder' # Nobody =>
              \/ Justified(dirty'.state, DoneBy(holder)')
              \/ holder' = holder /\ dirty' = dirty /\ op'[holder] = op[holder]
    PROVE  ReviewInv'
<1>1. ASSUME NEW r \in Requests, op'[r] = op[r]
      PROVE  DoneBy(r) \subseteq DoneBy(r)' /\ DoneBy(r)' \subseteq Review
    BY <1>1 DEF DoneBy
<1>2. \A r \in Requests : at'[r] # "idle" => Justified(copy'[r].state, DoneBy(r)')
  <2> SUFFICES ASSUME NEW r \in Requests, at'[r] # "idle", at[r] # "idle",
                      copy'[r].state = copy[r].state, op'[r] = op[r]
               PROVE  Justified(copy'[r].state, DoneBy(r)')
      OBVIOUS
  <2>1. Justified(copy[r].state, DoneBy(r))
      BY DEF ReviewInv
  <2> QED
      BY <1>1, <2>1, JustifiedGrows
<1>3. holder' # Nobody => Justified(dirty'.state, DoneBy(holder)')
  <2> SUFFICES ASSUME holder' # Nobody, holder' = holder, dirty' = dirty,
                      op'[holder] = op[holder]
               PROVE  Justified(dirty'.state, DoneBy(holder)')
      OBVIOUS
  <2>1. holder \in Requests /\ Justified(dirty.state, DoneBy(holder))
      BY DEF ReviewInv, TypeOK
  <2>2. DoneBy(holder)' = done' \cup ({op[holder]} \cap Review)
      BY DEF DoneBy
  <2>3. DoneBy(holder) \subseteq DoneBy(holder)' /\ DoneBy(holder)' \subseteq Review
      BY <2>2 DEF DoneBy
  <2> QED
      BY <2>1, <2>3, JustifiedGrows
<1> QED
    BY <1>2, <1>3 DEF ReviewInv

LEMMA EndRequestReview ==
    ASSUME TypeOK, ReviewInv, NEW r \in Requests, EndRequest(r), ReleaseRow(r),
           Justified(post'.state, done'), done \subseteq done', done' \subseteq Review
    PROVE  ReviewInv'
<1>1. \A q \in Requests : at'[q] # "idle" =>
          at[q] # "idle" /\ copy'[q] = copy[q] /\ op'[q] = op[q]
    BY DEF EndRequest, Goto, TypeOK
<1>2. holder' # Nobody =>
          holder' = holder /\ dirty' = dirty /\ op'[holder] = op[holder]
    BY DEF EndRequest, ReleaseRow, TypeOK
<1> QED
    BY <1>1, <1>2, ReviewStep

LEMMA LoadReview ==
    ASSUME TypeOK, ReviewInv, NEW r \in Requests, NEW o \in Operation,
           NEW entity \in Post, NEW place \in {"check", "save"}, Load(r, o, entity, place),
           Justified(entity.state, done \cup ({o} \cap Review))
    PROVE  ReviewInv'
<1>1. /\ copy' = [copy EXCEPT ![r] = entity] /\ op' = [op EXCEPT ![r] = o]
      /\ at' = [at EXCEPT ![r] = place]
      /\ post' = post /\ dirty' = dirty /\ holder' = holder /\ done' = done
    BY DEF Load, Goto
<1>2. Justified(copy'[r].state, DoneBy(r)')
    BY <1>1 DEF DoneBy, TypeOK
<1>3. \A q \in Requests : q # r => copy'[q] = copy[q] /\ op'[q] = op[q] /\ at'[q] = at[q]
    BY <1>1 DEF TypeOK
<1>4. holder # r
    BY RequestsAssumption DEF Load, TypeOK, Nobody
<1>5. holder' # Nobody => op'[holder] = op[holder]
    BY <1>1, <1>3, <1>4 DEF TypeOK
<1>6. Justified(post'.state, done') /\ done' \subseteq Review
    BY <1>1 DEF ReviewInv, TypeOK
<1> QED
    BY <1>1, <1>2, <1>3, <1>5, <1>6, ReviewStep

LEMMA NextReviewInv == TypeOK /\ ReviewInv /\ [Next]_vars => ReviewInv'
<1> SUFFICES ASSUME TypeOK, ReviewInv, [Next]_vars PROVE ReviewInv'
    OBVIOUS
<1> USE DEF requestVars, history
<1>0. done \subseteq Review /\ Justified(post.state, done)
    BY DEF TypeOK, ReviewInv
<1>1. ASSUME NEW describe \in BOOLEAN, NEW categories \in CategoryInputs,
             NEW skills \in SkillInputs, Create(describe, categories, skills)
      PROVE  ReviewInv'
  <2>1. post'.state = "DRAFT"
      BY <1>1 DEF Create, Patched, Described, Blank
  <2>2. Justified(post'.state, done')
      BY <2>1 DEF Justified
  <2> QED
      BY <1>0, <1>1, <2>2, ReviewStep DEF Create
<1>2. ASSUME NEW r \in Requests, NEW o \in Edits, NEW describe \in BOOLEAN,
             NEW categories \in CategoryInputs, NEW skills \in SkillInputs,
             Edit(r, o, describe, categories, skills)
      PROVE  ReviewInv'
  <2>1. post \in Post /\ o \in Operation
      BY <1>2 DEF Edit, TypeOK, Operation
  <2>2. /\ Patched(post, o, describe, categories, skills) \in Post
        /\ Patched(post, o, describe, categories, skills).state = post.state
      BY <2>1, PatchedPost
  <2>3. {o} \cap Review = {}
      BY DEF Edits, Review
  <2> QED
      BY <1>0, <1>2, <2>1, <2>2, <2>3, LoadReview DEF Edit
<1>3. ASSUME NEW r \in Requests, NEW o \in DOMAIN Transitions, Transition(r, o)
      PROVE  ReviewInv'
  <2>1. post \in Post
      BY <1>3 DEF Transition, TypeOK
  <2> DEFINE entity == [RowOf(post) EXCEPT !.state = Transitions[o]]
  <2>2. entity \in Post /\ o \in Operation /\ entity.state = Transitions[o]
      BY <2>1, TransitionEntity, RowOfPost DEF Post
  <2>3. Justified(Transitions[o], done \cup ({o} \cap Review))
      BY <1>0, <1>3, <2>1, TransitionJustified DEF Transition
  <2> QED
      BY <1>3, <2>2, <2>3, LoadReview DEF Transition
<1>4. ASSUME NEW r \in Requests, OnTransitionStart(r) \/ SaveSelect(r) \/ Finalize(r)
      PROVE  ReviewInv'
  <2>1. /\ post' = post /\ dirty' = dirty /\ holder' = holder /\ done' = done /\ op' = op
        /\ at[r] # "idle"
      BY <1>4 DEF OnTransitionStart, SaveSelect, Finalize
  <2>2. /\ \A q \in Requests : copy'[q].state = copy[q].state
        /\ \A q \in Requests : at'[q] # "idle" => at[q] # "idle"
      BY <1>4 DEF OnTransitionStart, SaveSelect, Finalize, Goto, TypeOK, Post
  <2> QED
      BY <1>0, <2>1, <2>2, ReviewStep
<1>5. ASSUME NEW r \in Requests, SaveWrite(r) PROVE ReviewInv'
  <2>1. /\ post' = post /\ done' = done /\ op' = op /\ copy' = copy /\ at[r] # "idle"
        /\ \A q \in Requests : at'[q] # "idle" => at[q] # "idle"
      BY <1>5 DEF SaveWrite, Goto, TypeOK
  <2>2. Justified(copy[r].state, DoneBy(r)) /\ Justified(View(r).state, DoneBy(r))
      BY <2>1, ViewJustified DEF ReviewInv
  <2>3. CASE RowChanges(r)
    <3>1. holder' = r /\ dirty' = RowOf(Overwrite(View(r), base[r], copy[r]))
        BY <1>5, <2>3 DEF SaveWrite
    <3>2. Justified(dirty'.state, DoneBy(r))
        BY <2>2, <3>1, OverwriteState
    <3>3. DoneBy(holder)' = DoneBy(r)
        BY <2>1, <3>1 DEF DoneBy
    <3> QED
        BY <1>0, <2>1, <3>1, <3>2, <3>3, ReviewStep
  <2>4. CASE ~RowChanges(r)
    <3>1. holder' = holder /\ dirty' = dirty
        BY <1>5, <2>4 DEF SaveWrite
    <3> QED
        BY <1>0, <2>1, <3>1, ReviewStep
  <2> QED
      BY <2>3, <2>4
<1>6. ASSUME NEW r \in Requests, Commit(r) PROVE ReviewInv'
  <2>1. View(r) \in Post
      BY <1>6, ViewPost DEF Commit
  <2>2. post'.state = View(r).state /\ done' = DoneBy(r) /\ EndRequest(r) /\ ReleaseRow(r)
      BY <1>6, <2>1 DEF Commit, DoneBy, Post
  <2>3. Justified(post'.state, done') /\ done \subseteq done' /\ done' \subseteq Review
      BY <1>0, <2>2, ViewJustified DEF DoneBy
  <2> QED
      BY <2>2, <2>3, EndRequestReview
<1>7. ASSUME NEW r \in Requests, Fails(r) PROVE ReviewInv'
  <2>1. EndRequest(r) /\ ReleaseRow(r) /\ post' = post /\ done' = done
      BY <1>7 DEF Fails
  <2> QED
      BY <1>0, <2>1, EndRequestReview
<1>8. ASSUME UNCHANGED vars PROVE ReviewInv'
    BY <1>8 DEF vars, ReviewInv, DoneBy
<1> QED
    BY <1>1, <1>2, <1>3, <1>4, <1>5, <1>6, <1>7, <1>8, NextCases

LEMMA InitReviewInv == Init => ReviewInv
BY DEF Init, ReviewInv, Justified, NoPost, Blank, Nobody

\* A post is visible only after its client has submitted it and an
\* administrator has published it, whatever requests overlap, fail or overtake
\* each other.
THEOREM ReviewedBeforeVisible == Spec => []VisibleOnlyAfterReview
<1>1. Init => TypeOK /\ ReviewInv
    BY InitTypeOK, InitReviewInv
<1>2. (TypeOK /\ ReviewInv) /\ [Next]_vars => (TypeOK /\ ReviewInv)'
    BY NextTypeOK, NextReviewInv
<1>3. TypeOK /\ ReviewInv => VisibleOnlyAfterReview
    BY DEF ReviewInv, Justified, VisibleOnlyAfterReview
<1> QED
    BY <1>1, <1>2, <1>3, PTL DEF Spec

-----------------------------------------------------------------------------
(***************************************************************************)
(* What a fresh request has done so far: as nobody has committed since it  *)
(* loaded the post, everything it holds is a function of what is committed *)
(* now, and its commit is its operation on the post in one step.           *)
(***************************************************************************)
FacetsWithin(values) ==
    /\ Cardinality(values \cap Categories) <= 1
    /\ Cardinality(values \cap Skills) <= MaxSkills

\* What an edit cannot take away, and the category is not among it.
KeepsFields(p, q) ==
    /\ p.described => q.described
    /\ p.facetValues \cap Skills # {} => q.facetValues \cap Skills # {}

\* The entity is the post as an edit of kind o has changed it in memory.
IsEditOf(entity, p, o) ==
    \E describe \in BOOLEAN, categories \in CategoryInputs, skills \in SkillInputs :
       entity = Patched(p, o, describe, categories, skills)

FreshEdit(r) ==
    /\ post.state \in Editable(op[r])
    /\ IsEditOf(copy[r], post, op[r])
    /\ copy[r].state = post.state
    /\ copy[r].dates = post.dates \cup (IF op[r] = "edit" THEN {"editedAt"} ELSE {})
    /\ KeepsFields(post, copy[r])
    /\ FacetsWithin(copy[r].facetValues)
    /\ at[r] \in {"save", "write", "commit"}
    /\ at[r] \in {"write", "commit"} => base[r] = post
    /\ at[r] = "commit" => IF holder = r THEN dirty = RowOf(copy[r])
                                         ELSE RowOf(post) = RowOf(copy[r])

FreshTransition(r) ==
    /\ Transitions[op[r]] \in Process[post.state]
    /\ copy[r].state = Transitions[op[r]]
    /\ copy[r].described = post.described
    /\ copy[r].facetValues = {}
    /\ copy[r].dates = IF at[r] \in {"check", "save", "write", "finalize"}
                       THEN post.dates ELSE post.dates \cup Stamp(copy[r].state)
    /\ op[r] = "requestPublishDraft" /\ at[r] # "check" => Complete(post)
    /\ at[r] = "write" => base[r] = RowOf(post)
    /\ at[r] \in {"finalize", "saveAgain", "writeAgain"} =>
          holder = r /\ dirty = [RowOf(post) EXCEPT !.state = copy[r].state]
    /\ at[r] = "writeAgain" => base[r] = dirty
    /\ at[r] = "commit" => holder = r /\ dirty = copy[r] /\ base[r].facetValues = {}

FreshRequest(r) ==
    /\ post # NoPost /\ at[r] # "idle"
    /\ op[r] \in Edits => FreshEdit(r)
    /\ op[r] \notin Edits => FreshTransition(r)

FreshInv ==
    stale = 0 =>
        /\ \A r \in fresh : FreshRequest(r)
        /\ DatesAgreeWithState /\ SubmittedIsComplete /\ FacetValuesWithinLimits

-----------------------------------------------------------------------------
(***************************************************************************)
(* Operators on posts.                                                     *)
(***************************************************************************)
LEMMA FacetsApart ==
    ASSUME NEW values, NEW categories, NEW skills,
           UNION categories \subseteq Categories, UNION skills \subseteq Skills
    PROVE  LET q == WithFacetValues(WithFacetValues(values, Categories, categories),
                                    Skills, skills) IN
           /\ q \cap Categories = IF categories = {} THEN values \cap Categories
                                                   ELSE UNION categories
           /\ q \cap Skills = IF skills = {} THEN values \cap Skills ELSE UNION skills
<1> DEFINE C == UNION categories
           S == UNION skills
<1>1. C \subseteq Categories /\ S \subseteq Skills
    OBVIOUS
<1>2. WithFacetValues(WithFacetValues(values, Categories, categories), Skills, skills) =
          LET v == IF categories = {} THEN values ELSE (values \ Categories) \cup C
          IN  IF skills = {} THEN v ELSE (v \ Skills) \cup S
    BY DEF WithFacetValues
<1> HIDE DEF C, S
<1>3. LET v == IF categories = {} THEN values ELSE (values \ Categories) \cup C
          q == IF skills = {} THEN v ELSE (v \ Skills) \cup S
      IN  /\ q \cap Categories = IF categories = {} THEN values \cap Categories ELSE C
          /\ q \cap Skills = IF skills = {} THEN values \cap Skills ELSE S
    BY <1>1, FacetsAssumption
<1> QED
    BY <1>2, <1>3 DEF C, S

LEMMA InputsWithin ==
    ASSUME NEW categories \in CategoryInputs, NEW skills \in SkillInputs
    PROVE  /\ categories # {} => Cardinality(UNION categories) <= 1
           /\ skills # {} => Cardinality(UNION skills) <= MaxSkills
<1>1. categories # {} => Cardinality(UNION categories) <= 1
  <2>1. Cardinality({}) = 0 /\ \A c : Cardinality({c}) = 1
      BY FS_EmptySet, FS_Singleton
  <2>2. categories # {} => UNION categories = {} \/ \E c \in Categories : UNION categories = {c}
    <3>1. categories # {} => UNION categories \in {{}} \cup {{c} : c \in Categories}
        BY InputsAreFacetValues, Zenon
    <3> QED
        BY <3>1
  <2>3. ASSUME NEW S, S = {} \/ \E c : S = {c} PROVE Cardinality(S) <= 1
    <3>1. CASE S = {}
        BY <3>1, <2>1
    <3>2. ASSUME NEW c, S = {c} PROVE Cardinality(S) = 1
        BY <3>2, FS_Singleton, Zenon
    <3> QED
        BY <2>3, <3>1, <3>2
  <2> QED
      BY <2>2, <2>3
<1>2. skills # {} => Cardinality(UNION skills) <= MaxSkills
    BY InputsAreFacetValues, SkillsAssumption
<1> QED
    BY <1>1, <1>2

\* What patchEntity and updateJobPostFacetValues keep of a post.
LEMMA PatchedKeeps ==
    ASSUME NEW p \in Post, NEW o \in Operation, NEW describe \in BOOLEAN,
           NEW categories \in CategoryInputs, NEW skills \in SkillInputs,
           FacetsWithin(p.facetValues)
    PROVE  /\ FacetsWithin(Patched(p, o, describe, categories, skills).facetValues)
           /\ KeepsFields(p, Patched(p, o, describe, categories, skills))
<1> DEFINE q == Patched(p, o, describe, categories, skills)
<1>1. UNION categories \subseteq Categories /\ UNION skills \subseteq Skills
    BY InputsAreFacetValues
<1>2. /\ p.described => q.described
      /\ q.facetValues = WithFacetValues(
            WithFacetValues(p.facetValues, Categories, categories), Skills, skills)
    BY PatchedPost
<1>3. /\ q.facetValues \cap Categories = IF categories = {} THEN p.facetValues \cap Categories
                                                        ELSE UNION categories
      /\ q.facetValues \cap Skills = IF skills = {} THEN p.facetValues \cap Skills
                                                ELSE UNION skills
    BY <1>1, <1>2, FacetsApart
<1>4. FacetsWithin(q.facetValues)
    BY <1>3, InputsWithin DEF FacetsWithin
<1>5. KeepsFields(p, q)
  <2>1. skills # {} => UNION skills # {}
    <3>1. Cardinality({}) = 0 /\ MinSkills > 0
        BY FS_EmptySet, SkillsAssumption
    <3> QED
        BY <3>1, InputsAreFacetValues, SkillsAssumption
  <2> QED
      BY <1>2, <1>3, <2>1 DEF KeepsFields
<1> QED
    BY <1>4, <1>5

\* A transition leaves the state it starts from.
LEMMA ProcessSteps ==
    ASSUME NEW p \in Post, NEW o \in DOMAIN Transitions, Transitions[o] \in Process[p.state]
    PROVE  \/ o = "deleteDraft" /\ p.state = "DRAFT" /\ Transitions[o] = "DRAFT_DELETED"
           \/ o = "requestPublishDraft" /\ p.state = "DRAFT" /\ Transitions[o] = "REQUESTED"
           \/ o = "publish" /\ p.state = "REQUESTED" /\ Transitions[o] = "OPEN"
           \/ o = "close" /\ p.state = "OPEN" /\ Transitions[o] = "CLOSED"
<1>1. o \in {"deleteDraft", "requestPublishDraft", "publish", "close"}
    BY DEF Transitions
<1>2. p.state \in JobPostState
    BY DEF Post
<1>3. CASE o = "deleteDraft"
    BY <1>2, <1>3 DEF Transitions, Process, JobPostState
<1>4. CASE o = "requestPublishDraft"
    BY <1>2, <1>4 DEF Transitions, Process, JobPostState
<1>5. CASE o = "publish"
    BY <1>2, <1>5 DEF Transitions, Process, JobPostState
<1>6. CASE o = "close"
    BY <1>2, <1>6 DEF Transitions, Process, JobPostState
<1> QED
    BY <1>1, <1>3, <1>4, <1>5, <1>6

\* The first save of a transition, which has loaded the row only.
LEMMA OverwriteRow ==
    ASSUME NEW p \in Post, NEW entity \in Post
    PROVE  RowOf(Overwrite(p, RowOf(p), entity)) = RowOf(entity)
<1>1. (p.dates \ (p.dates \ entity.dates)) \cup (entity.dates \ p.dates) = entity.dates
    OBVIOUS
<1>2. RowOf(p).state = p.state /\ RowOf(p).dates = p.dates /\ RowOf(p).described = p.described
    BY RowOfPost
<1>3. RowOf(entity) = [state |-> entity.state, dates |-> entity.dates,
                       described |-> entity.described, facetValues |-> {}]
    BY DEF Post, RowOf
<1> DEFINE q == Overwrite(p, RowOf(p), entity)
<1>4. q.state = entity.state /\ q.dates = entity.dates /\ q.described = entity.described
    BY <1>1, <1>2 DEF Overwrite
<1>5. RowOf(q) = [state |-> q.state, dates |-> q.dates,
                  described |-> q.described, facetValues |-> {}]
  <2>1. q \in Post
      BY RowOfPost, OverwritePost
  <2> HIDE DEF q
  <2> QED
      BY <2>1 DEF Post, RowOf
<1> QED
    BY <1>3, <1>4, <1>5

-----------------------------------------------------------------------------
(***************************************************************************)
(* FreshRequest, step by step.                                             *)
(***************************************************************************)

\* What other requests do before they commit does not concern a request.
LEMMA OthersStep ==
    ASSUME NEW q \in Requests, FreshRequest(q), post' = post,
           at'[q] = at[q], op'[q] = op[q], copy'[q] = copy[q], base'[q] = base[q],
           holder = q => holder' = q /\ dirty' = dirty,
           holder # q => holder' # q
    PROVE  FreshRequest(q)'
<1>1. op[q] \in Edits => FreshEdit(q)'
    BY DEF FreshRequest, FreshEdit
<1>2. op[q] \notin Edits => FreshTransition(q)'
    BY DEF FreshRequest, FreshTransition
<1> QED
    BY <1>1, <1>2 DEF FreshRequest

LEMMA EditFresh ==
    ASSUME TypeOK, NEW r \in Requests, NEW o \in Edits, NEW describe \in BOOLEAN,
           NEW categories \in CategoryInputs, NEW skills \in SkillInputs,
           Edit(r, o, describe, categories, skills), FacetsWithin(post.facetValues)
    PROVE  FreshRequest(r)'
<1> DEFINE entity == Patched(post, o, describe, categories, skills)
<1>1. post \in Post /\ o \in Operation
    BY DEF Edit, TypeOK, Operation
<1>2. /\ post' = post /\ post # NoPost /\ post.state \in Editable(o)
      /\ at'[r] = "save" /\ op'[r] = o /\ copy'[r] = entity
    BY DEF Edit, Load, Goto, TypeOK
<1>3. /\ entity.state = post.state
      /\ entity.dates = post.dates \cup (IF o = "edit" THEN {"editedAt"} ELSE {})
    BY <1>1, PatchedPost
<1>4. FacetsWithin(entity.facetValues) /\ KeepsFields(post, entity)
    BY <1>1, PatchedKeeps
<1>5. IsEditOf(entity, post, o)
    BY DEF IsEditOf
<1>6. FreshEdit(r)'
  <2> HIDE DEF entity
  <2> QED
      BY <1>2, <1>3, <1>4, <1>5 DEF FreshEdit, KeepsFields, FacetsWithin
<1> QED
    BY <1>2, <1>6 DEF FreshRequest

LEMMA TransitionFresh ==
    ASSUME TypeOK, NEW r \in Requests, NEW o \in DOMAIN Transitions, Transition(r, o)
    PROVE  FreshRequest(r)'
<1> DEFINE entity == [RowOf(post) EXCEPT !.state = Transitions[o]]
<1>1. post \in Post /\ o \notin Edits
    BY TransitionEntity DEF Transition, TypeOK
<1>2. /\ post' = post /\ post # NoPost /\ Transitions[o] \in Process[post.state]
      /\ at'[r] = IF o = "requestPublishDraft" THEN "check" ELSE "save"
      /\ op'[r] = o /\ copy'[r] = entity
    BY DEF Transition, Load, Goto, TypeOK
<1>3. /\ entity.state = Transitions[o] /\ entity.dates = post.dates
      /\ entity.described = post.described /\ entity.facetValues = {}
    BY <1>1, RowOfPost DEF Post
<1>4. FreshTransition(r)'
    BY <1>2, <1>3 DEF FreshTransition
<1> QED
    BY <1>1, <1>2, <1>4 DEF FreshRequest

LEMMA OnTransitionStartFresh ==
    ASSUME TypeOK, NEW r \in Requests, FreshRequest(r), OnTransitionStart(r)
    PROVE  FreshRequest(r)'
<1>1. /\ post' = post /\ holder' = holder /\ dirty' = dirty /\ op' = op
      /\ copy' = copy /\ base' = base /\ at[r] = "check" /\ at'[r] = "save"
    BY DEF OnTransitionStart, Goto, TypeOK, history
<1>2. View(r) = post
    BY <1>1, RequestsAssumption DEF View, TypeOK, Nobody
<1>3. Complete(post)
    BY <1>2 DEF OnTransitionStart, CheckRequiredFieldsDefined
<1>4. op[r] \notin Edits
    BY <1>1 DEF FreshRequest, FreshEdit
<1>5. FreshTransition(r)'
    BY <1>1, <1>3, <1>4 DEF FreshRequest, FreshTransition, Complete
<1> QED
    BY <1>1, <1>4, <1>5 DEF FreshRequest

LEMMA SaveSelectFresh ==
    ASSUME TypeOK, NEW r \in Requests, FreshRequest(r), SaveSelect(r)
    PROVE  FreshRequest(r)'
<1>1. /\ post' = post /\ holder' = holder /\ dirty' = dirty /\ op' = op /\ copy' = copy
      /\ at[r] \in {"save", "saveAgain"}
      /\ at'[r] = IF at[r] = "save" THEN "write" ELSE "writeAgain"
      /\ base'[r] = IF op[r] \in Edits THEN View(r) ELSE RowOf(View(r))
    BY DEF SaveSelect, Goto, TypeOK, history
<1>2. at[r] = "save" => View(r) = post
    BY RequestsAssumption DEF View, TypeOK, Nobody
<1>3. CASE op[r] \in Edits
  <2>1. at[r] = "save"
      BY <1>1, <1>3 DEF FreshRequest, FreshEdit
  <2>2. FreshEdit(r)'
      BY <1>1, <1>2, <1>3, <2>1 DEF FreshRequest, FreshEdit, KeepsFields, FacetsWithin
  <2> QED
      BY <1>1, <1>3, <2>1, <2>2 DEF FreshRequest
<1>4. CASE op[r] \notin Edits
  <2>1. FreshTransition(r)
      BY <1>4 DEF FreshRequest
  <2>2. ASSUME at[r] = "save" PROVE FreshTransition(r)'
      BY <1>1, <1>2, <1>4, <2>1, <2>2 DEF FreshTransition, Complete
  <2>3. ASSUME at[r] = "saveAgain" PROVE FreshTransition(r)'
    <3>1. View(r) = dirty /\ RowOf(dirty) = dirty
        BY <2>1, <2>3, RowOfPost DEF FreshTransition, View, TypeOK, RowOf, Post
    <3> QED
        BY <1>1, <1>4, <2>1, <2>3, <3>1 DEF FreshTransition, Complete
  <2>4. FreshTransition(r)'
      BY <1>1, <2>2, <2>3
  <2> QED
      BY <1>1, <1>4, <2>4 DEF FreshRequest
<1> QED
    BY <1>3, <1>4

LEMMA SaveWriteFresh ==
    ASSUME TypeOK, NEW r \in Requests, FreshRequest(r), SaveWrite(r)
    PROVE  FreshRequest(r)'
<1>1. /\ post' = post /\ op' = op /\ copy' = copy /\ base' = base
      /\ at[r] \in {"write", "writeAgain"}
      /\ at'[r] = IF at[r] = "write" /\ op[r] \notin Edits THEN "finalize" ELSE "commit"
    BY DEF SaveWrite, Goto, TypeOK, history
<1>2. IF RowChanges(r)
      THEN holder' = r /\ dirty' = RowOf(Overwrite(View(r), base[r], copy[r]))
      ELSE holder' = holder /\ dirty' = dirty
    BY DEF SaveWrite
<1>3. post \in Post /\ copy[r] \in Post /\ base[r] \in Post /\ dirty \in Post
    BY DEF FreshRequest, TypeOK
<1>4. at[r] = "write" => View(r) = post /\ holder # r
    BY RequestsAssumption DEF View, TypeOK, Nobody
<1>5. CASE op[r] \in Edits
  <2>1. FreshEdit(r) /\ at[r] = "write" /\ base[r] = post
      BY <1>1, <1>5 DEF FreshRequest, FreshEdit
  <2>2. RowChanges(r) => dirty' = RowOf(copy[r])
      BY <1>2, <1>3, <1>4, <2>1, OverwriteUnchanged
  <2>3. ~RowChanges(r) => RowOf(post) = RowOf(copy[r])
      BY <2>1 DEF RowChanges
  <2>4. IF holder' = r THEN dirty' = RowOf(copy[r]) ELSE RowOf(post) = RowOf(copy[r])
      BY <1>2, <1>4, <2>1, <2>2, <2>3
  <2>5. FreshEdit(r)'
      BY <1>1, <1>5, <2>1, <2>4 DEF FreshEdit, KeepsFields, FacetsWithin, RowOf
  <2> QED
      BY <1>1, <1>5, <2>5 DEF FreshRequest
<1>6. CASE op[r] \notin Edits
  <2>1. FreshTransition(r)
      BY <1>6 DEF FreshRequest
  <2>2. op[r] \in DOMAIN Transitions
      BY <1>6 DEF TypeOK, Operation
  <2>3. ASSUME at[r] = "write" PROVE FreshTransition(r)'
    <3>1. base[r] = RowOf(post) /\ copy[r].state # post.state
        BY <1>3, <2>1, <2>2, <2>3, ProcessSteps DEF FreshTransition
    <3>2. RowChanges(r)
        BY <1>3, <3>1, RowOfPost DEF RowChanges
    <3>3. holder' = r /\ dirty' = RowOf(copy[r])
        BY <1>2, <1>3, <1>4, <2>3, <3>1, <3>2, OverwriteRow
    <3>4. RowOf(copy[r]) = [RowOf(post) EXCEPT !.state = copy[r].state]
        BY <1>3, <2>1, <2>3 DEF FreshTransition, RowOf, Post
    <3> QED
        BY <1>1, <1>6, <2>1, <2>3, <3>3, <3>4 DEF FreshTransition, Complete
  <2>4. ASSUME at[r] = "writeAgain" PROVE FreshTransition(r)'
    <3>1. /\ holder = r /\ base[r] = dirty /\ View(r) = dirty
          /\ copy[r].facetValues = {} /\ dirty.facetValues = {}
        BY <1>3, <2>1, <2>4 DEF FreshTransition, View, RowOf, Post
    <3>2. RowOf(copy[r]) = copy[r] /\ RowOf(dirty) = dirty
        BY <1>3, <3>1 DEF RowOf, Post
    <3>3. RowChanges(r) => dirty' = copy[r]
        BY <1>2, <1>3, <3>1, <3>2, OverwriteUnchanged
    <3>4. ~RowChanges(r) => dirty' = copy[r]
        BY <1>2, <3>1, <3>2 DEF RowChanges
    <3>5. holder' = r /\ dirty' = copy[r]
        BY <1>2, <3>1, <3>3, <3>4
    <3> QED
        BY <1>1, <1>6, <2>1, <2>4, <3>1, <3>5 DEF FreshTransition, Complete
  <2>5. FreshTransition(r)'
      BY <1>1, <2>3, <2>4
  <2> QED
      BY <1>1, <1>6, <2>5 DEF FreshRequest
<1> QED
    BY <1>5, <1>6

\* The holder of the row keeps it while another request saves.
LEMMA SaveWriteOthers ==
    ASSUME TypeOK, NEW r \in Requests, SaveWrite(r),
           NEW q \in Requests, q # r, FreshRequest(q)
    PROVE  FreshRequest(q)'
<1>1. /\ post' = post /\ op' = op /\ copy' = copy /\ base' = base /\ at'[q] = at[q]
    BY DEF SaveWrite, Goto, TypeOK, history
<1>2. RowChanges(r) => holder # q /\ holder' = r
    BY DEF SaveWrite
<1>3. ~RowChanges(r) => holder' = holder /\ dirty' = dirty
    BY DEF SaveWrite
<1> QED
    BY <1>1, <1>2, <1>3, OthersStep

LEMMA FinalizeFresh ==
    ASSUME TypeOK, NEW r \in Requests, FreshRequest(r), Finalize(r)
    PROVE  FreshRequest(r)'
<1>1. /\ post' = post /\ holder' = holder /\ dirty' = dirty /\ op' = op /\ base' = base
      /\ at[r] = "finalize" /\ at'[r] = "saveAgain"
    BY DEF Finalize, Goto, TypeOK, history
<1>2. copy[r] \in Post
    BY DEF TypeOK
<1>3. /\ copy'[r].state = copy[r].state /\ copy'[r].described = copy[r].described
      /\ copy'[r].facetValues = copy[r].facetValues
      /\ copy'[r].dates = copy[r].dates \cup Stamp(copy[r].state)
    BY <1>2 DEF Finalize, TypeOK, Post
<1>4. op[r] \notin Edits
    BY <1>1 DEF FreshRequest, FreshEdit
<1>5. FreshTransition(r)'
    BY <1>1, <1>3, <1>4 DEF FreshRequest, FreshTransition, Complete
<1> QED
    BY <1>1, <1>4, <1>5 DEF FreshRequest

-----------------------------------------------------------------------------
(***************************************************************************)
(* The commit of a fresh request is its operation.                         *)
(***************************************************************************)
GoodPost(p) ==
    /\ "deletedAt" \in p.dates <=> p.state = "DRAFT_DELETED"
    /\ "rejectedAt" \in p.dates <=> p.state = "REJECTED"
    /\ "publishedAt" \in p.dates <=> p.state \in {"OPEN", "CLOSED"}
    /\ "closedAt" \in p.dates <=> p.state = "CLOSED"
    /\ "editedAt" \in p.dates => "publishedAt" \in p.dates
    /\ p.state = "REQUESTED" => Complete(p)
    /\ p.state \in {"OPEN", "CLOSED"} =>
          /\ p.described /\ p.facetValues \cap Skills # {}
          /\ "editedAt" \in p.dates \/ Complete(p)
    /\ FacetsWithin(p.facetValues)

LEMMA GoodPosts ==
    stale = 0 /\ post # NoPost =>
        (GoodPost(post) <=> DatesAgreeWithState /\ SubmittedIsComplete
                               /\ FacetValuesWithinLimits)
BY DEF GoodPost, DatesAgreeWithState, SubmittedIsComplete, FacetValuesWithinLimits,
       FacetsWithin

LEMMA CommitEdit ==
    ASSUME TypeOK, NEW r \in Requests, FreshRequest(r), Commit(r), op[r] \in Edits
    PROVE  post' = copy[r]
<1>1. FreshEdit(r) /\ at[r] = "commit" /\ base[r] = post
    BY DEF FreshRequest, FreshEdit, Commit
<1>2. post \in Post /\ copy[r] \in Post /\ dirty \in Post
    BY DEF FreshRequest, TypeOK
<1>3. post' = [View(r) EXCEPT !.facetValues = copy[r].facetValues]
    BY <1>1, <1>2, OverwriteUnchanged DEF Commit
<1>4. View(r) \in Post /\ RowOf(View(r)) = RowOf(copy[r])
    BY <1>1, <1>2, RowOfPost DEF View, FreshEdit, RowOf, Post
<1>5. [RowOf(View(r)) EXCEPT !.facetValues = copy[r].facetValues] = post'
    BY <1>3, <1>4 DEF RowOf, Post
<1>6. [RowOf(copy[r]) EXCEPT !.facetValues = copy[r].facetValues] = copy[r]
    BY <1>2 DEF RowOf, Post
<1> QED
    BY <1>4, <1>5, <1>6

LEMMA CommitTransition ==
    ASSUME TypeOK, NEW r \in Requests, FreshRequest(r), Commit(r), op[r] \notin Edits
    PROVE  /\ post'.state = Transitions[op[r]]
           /\ post'.dates = post.dates \cup Stamp(post'.state)
           /\ post'.described = post.described
           /\ post'.facetValues = post.facetValues
<1>1. FreshTransition(r) /\ at[r] = "commit"
    BY DEF FreshRequest, Commit
<1>2. post \in Post /\ copy[r] \in Post
    BY DEF FreshRequest, TypeOK
<1>3. View(r) = copy[r] /\ base[r].facetValues = {} /\ copy[r].facetValues = {}
    BY <1>1 DEF FreshTransition, View
<1>4. Overwrite(post, base[r], copy[r]).facetValues = post.facetValues
    BY <1>3 DEF Overwrite
<1>5. post' = [copy[r] EXCEPT !.facetValues = post.facetValues]
    BY <1>3, <1>4 DEF Commit
<1>6. /\ post'.state = copy[r].state /\ post'.dates = copy[r].dates
      /\ post'.described = copy[r].described /\ post'.facetValues = post.facetValues
    BY <1>2, <1>5 DEF Post
<1> QED
    BY <1>1, <1>6 DEF FreshTransition

LEMMA CommitGood ==
    ASSUME TypeOK, NEW r \in Requests, FreshRequest(r), Commit(r), GoodPost(post)
    PROVE  GoodPost(post') /\ (post'.state # post.state =>
                                   <<post.state, post'.state>> \in Documented)
<1>1. CASE op[r] \in Edits
  <2>1. FreshEdit(r) /\ post' = copy[r]
      BY <1>1, CommitEdit DEF FreshRequest
  <2>2. post'.state = post.state /\ (op[r] = "edit" => post.state = "OPEN")
      BY <2>1 DEF FreshEdit, Editable
  <2>3. KeepsFields(post, post') /\ FacetsWithin(post'.facetValues)
      BY <2>1 DEF FreshEdit
  <2>4. post'.dates = post.dates \cup (IF op[r] = "edit" THEN {"editedAt"} ELSE {})
      BY <2>1 DEF FreshEdit
  <2>5. op[r] # "edit" => post'.state = "DRAFT"
      BY <1>1, <2>1, <2>2 DEF FreshEdit, Editable
  <2> QED
      BY <2>2, <2>3, <2>4, <2>5 DEF GoodPost, KeepsFields
<1>2. CASE op[r] \notin Edits
  <2>1. /\ post'.state = Transitions[op[r]]
        /\ post'.dates = post.dates \cup Stamp(post'.state)
        /\ post'.described = post.described /\ post'.facetValues = post.facetValues
      BY <1>2, CommitTransition
  <2>2. /\ FreshTransition(r) /\ at[r] = "commit" /\ post \in Post
        /\ op[r] \in DOMAIN Transitions /\ Transitions[op[r]] \in Process[post.state]
      BY <1>2 DEF FreshRequest, FreshTransition, Commit, TypeOK, Operation
  <2>3. /\ Complete(post') <=> Complete(post)
        /\ Complete(post) => post.described /\ post.facetValues \cap Skills # {}
        /\ FacetsWithin(post'.facetValues)
      BY <2>1 DEF Complete, GoodPost
  <2>4. CASE op[r] = "deleteDraft"
    <3>1. post.state = "DRAFT" /\ post'.state = "DRAFT_DELETED"
        BY <2>1, <2>2, <2>4, ProcessSteps
    <3> QED
        BY <2>1, <2>3, <3>1 DEF GoodPost, Stamp, Documented
  <2>5. CASE op[r] = "requestPublishDraft"
    <3>1. post.state = "DRAFT" /\ post'.state = "REQUESTED"
        BY <2>1, <2>2, <2>5, ProcessSteps
    <3>2. Complete(post')
        BY <2>2, <2>3, <2>5 DEF FreshTransition
    <3> QED
        BY <2>1, <2>3, <3>1, <3>2 DEF GoodPost, Stamp, Documented
  <2>6. CASE op[r] = "publish"
    <3>1. post.state = "REQUESTED" /\ post'.state = "OPEN"
        BY <2>1, <2>2, <2>6, ProcessSteps
    <3> QED
        BY <2>1, <2>3, <3>1 DEF GoodPost, Stamp, Documented
  <2>7. CASE op[r] = "close"
    <3>1. post.state = "OPEN" /\ post'.state = "CLOSED"
        BY <2>1, <2>2, <2>7, ProcessSteps
    <3> QED
        BY <2>1, <2>3, <3>1 DEF GoodPost, Stamp, Documented
  <2> QED
      BY <2>2, <2>4, <2>5, <2>6, <2>7, ProcessSteps
<1> QED
    BY <1>1, <1>2

\* What createDraft makes.
LEMMA CreateGood ==
    ASSUME NEW describe \in BOOLEAN, NEW categories \in CategoryInputs,
           NEW skills \in SkillInputs, Create(describe, categories, skills)
    PROVE  GoodPost(post')
<1>1. Blank \in Post /\ "editDraft" \in Operation /\ "editDraft" \in Edits
    BY DEF Blank, Post, JobPostState, Operation, Edits
<1>2. post' = Patched(Blank, "editDraft", describe, categories, skills)
    BY DEF Create, Patched
<1>3. FacetsWithin(Blank.facetValues)
    BY FS_EmptySet, SkillsAssumption DEF FacetsWithin, Blank
<1>4. post'.state = "DRAFT" /\ post'.dates = {}
    BY <1>1, <1>2, PatchedPost DEF Blank
<1>5. FacetsWithin(post'.facetValues)
    BY <1>1, <1>2, <1>3, PatchedKeeps
<1> QED
    BY <1>4, <1>5 DEF GoodPost

-----------------------------------------------------------------------------
LEMMA NextFreshInv == TypeOK /\ FreshInv /\ [Next]_vars => FreshInv'
<1> SUFFICES ASSUME TypeOK, FreshInv, [Next]_vars, stale' = 0
             PROVE  /\ \A q \in fresh' : FreshRequest(q)'
                    /\ post' # NoPost => GoodPost(post')
  <2>1. stale' = 0 /\ (post' = NoPost \/ GoodPost(post')) =>
            DatesAgreeWithState' /\ SubmittedIsComplete' /\ FacetValuesWithinLimits'
      BY DEF GoodPost, DatesAgreeWithState, SubmittedIsComplete, FacetValuesWithinLimits,
             FacetsWithin, NoPost, Complete
  <2> QED
      BY <2>1 DEF FreshInv
<1> USE DEF requestVars, history
<1>0. /\ stale = 0 => \A q \in fresh : FreshRequest(q)
      /\ stale = 0 /\ post # NoPost => GoodPost(post)
      /\ fresh \subseteq Requests
    BY GoodPosts DEF FreshInv, TypeOK
<1>1. ASSUME NEW describe \in BOOLEAN, NEW categories \in CategoryInputs,
             NEW skills \in SkillInputs, Create(describe, categories, skills)
      PROVE  (\A q \in fresh' : FreshRequest(q)') /\ GoodPost(post')
  <2>1. fresh = {} /\ fresh' = fresh
      BY <1>0, <1>1 DEF Create, FreshRequest
  <2> QED
      BY <1>1, <2>1, CreateGood
<1>2. ASSUME NEW r \in Requests, NEW o \in Operation, NEW entity, NEW place,
             Load(r, o, entity, place), FreshRequest(r)'
      PROVE  (\A q \in fresh' : FreshRequest(q)') /\ GoodPost(post')
  <2>1. /\ stale = 0 /\ post' = post /\ post # NoPost /\ holder' = holder /\ dirty' = dirty
        /\ base' = base /\ fresh' = fresh \cup {r}
        /\ \A q \in Requests : q # r => at'[q] = at[q] /\ op'[q] = op[q] /\ copy'[q] = copy[q]
      BY <1>2 DEF Load, Goto, TypeOK
  <2>2. \A q \in fresh : q # r => FreshRequest(q)'
      BY <1>0, <2>1, OthersStep
  <2> QED
      BY <1>0, <1>2, <2>1, <2>2
<1>3. ASSUME NEW r \in Requests, NEW o \in Edits, NEW describe \in BOOLEAN,
             NEW categories \in CategoryInputs, NEW skills \in SkillInputs,
             Edit(r, o, describe, categories, skills)
      PROVE  (\A q \in fresh' : FreshRequest(q)') /\ GoodPost(post')
  <2>1. stale = 0 /\ post # NoPost /\ o \in Operation
      BY <1>3 DEF Edit, Load, Operation
  <2>2. FreshRequest(r)'
      BY <1>0, <1>3, <2>1, EditFresh DEF GoodPost
  <2> QED
      BY <1>2, <1>3, <2>1, <2>2 DEF Edit
<1>4. ASSUME NEW r \in Requests, NEW o \in DOMAIN Transitions, Transition(r, o)
      PROVE  (\A q \in fresh' : FreshRequest(q)') /\ GoodPost(post')
  <2>1. FreshRequest(r)' /\ o \in Operation
      BY <1>4, TransitionFresh DEF Operation
  <2> QED
      BY <1>2, <1>4, <2>1 DEF Transition
<1>5. ASSUME NEW r \in Requests,
             OnTransitionStart(r) \/ SaveSelect(r) \/ Finalize(r)
      PROVE  (\A q \in fresh' : FreshRequest(q)') /\ GoodPost(post')
  <2>1. /\ stale = 0 /\ post' = post /\ holder' = holder /\ dirty' = dirty
        /\ op' = op /\ fresh' = fresh /\ at[r] # "idle"
        /\ \A q \in Requests : q # r => at'[q] = at[q] /\ copy'[q] = copy[q] /\ base'[q] = base[q]
      BY <1>5 DEF OnTransitionStart, SaveSelect, Finalize, Goto, TypeOK
  <2>2. post # NoPost
      BY <2>1 DEF TypeOK
  <2>3. \A q \in fresh : q # r => FreshRequest(q)'
      BY <1>0, <2>1, OthersStep
  <2>4. r \in fresh => FreshRequest(r)'
      BY <1>0, <1>5, <2>1, OnTransitionStartFresh, SaveSelectFresh, FinalizeFresh
  <2> QED
      BY <1>0, <2>1, <2>2, <2>3, <2>4
<1>6. ASSUME NEW r \in Requests, SaveWrite(r)
      PROVE  (\A q \in fresh' : FreshRequest(q)') /\ GoodPost(post')
  <2>1. stale = 0 /\ post' = post /\ fresh' = fresh /\ at[r] # "idle"
      BY <1>6 DEF SaveWrite
  <2>2. post # NoPost
      BY <2>1 DEF TypeOK
  <2> QED
      BY <1>0, <1>6, <2>1, <2>2, SaveWriteFresh, SaveWriteOthers
<1>7. ASSUME NEW r \in Requests, Commit(r)
      PROVE  (\A q \in fresh' : FreshRequest(q)') /\ GoodPost(post')
  <2>1. stale = 0 /\ r \in fresh /\ fresh' = {} /\ post # NoPost
      BY <1>7 DEF Commit, TypeOK
  <2> QED
      BY <1>0, <1>7, <2>1, CommitGood
<1>8. ASSUME NEW r \in Requests, Fails(r)
      PROVE  (\A q \in fresh' : FreshRequest(q)') /\ GoodPost(post')
  <2>1. /\ stale = 0 /\ post' = post /\ post # NoPost /\ fresh' = fresh \ {r}
        /\ \A q \in Requests : q # r => at'[q] = at[q] /\ op'[q] = op[q]
                                    /\ copy'[q] = copy[q] /\ base'[q] = base[q]
      BY <1>8 DEF Fails, EndRequest, Goto, TypeOK
  <2>2. \A q \in Requests : q # r =>
            /\ holder = q => holder' = q /\ dirty' = dirty
            /\ holder # q => holder' # q
      BY <1>8, RequestsAssumption DEF Fails, ReleaseRow, Nobody
  <2> QED
      BY <1>0, <2>1, <2>2, OthersStep
<1>9. ASSUME UNCHANGED vars
      PROVE  (\A q \in fresh' : FreshRequest(q)') /\ (post' # NoPost => GoodPost(post'))
    BY <1>0, <1>9, OthersStep DEF vars
<1> QED
    BY <1>1, <1>3, <1>4, <1>5, <1>6, <1>7, <1>8, <1>9, NextCases

LEMMA InitFreshInv == Init => FreshInv
BY DEF Init, FreshInv, DatesAgreeWithState, SubmittedIsComplete, FacetValuesWithinLimits

LEMMA FreshInvariant == Spec => [](TypeOK /\ FreshInv)
<1>1. Init => TypeOK /\ FreshInv
    BY InitTypeOK, InitFreshInv
<1>2. (TypeOK /\ FreshInv) /\ [Next]_vars => (TypeOK /\ FreshInv)'
    BY NextTypeOK, NextFreshInv
<1> QED
    BY <1>1, <1>2, PTL DEF Spec

\* Unless a request overtakes another, the dates of a post tell which states
\* it has been through.
THEOREM DatesTellTheStates == Spec => []DatesAgreeWithState
<1>1. FreshInv => DatesAgreeWithState
    BY DEF FreshInv, DatesAgreeWithState
<1> QED
    BY <1>1, FreshInvariant, PTL

\* Unless a request overtakes another, a post under review has every required
\* field, and an open or closed one has them too, but for a category that an edit
\* of the open post has taken away.
THEOREM SubmittedStaysComplete == Spec => []SubmittedIsComplete
<1>1. FreshInv => SubmittedIsComplete
    BY DEF FreshInv, SubmittedIsComplete
<1> QED
    BY <1>1, FreshInvariant, PTL

\* Unless a request overtakes another, a post has at most one category and
\* no more skills than allowed.
THEOREM FacetValuesStayWithinLimits == Spec => []FacetValuesWithinLimits
<1>1. FreshInv => FacetValuesWithinLimits
    BY DEF FreshInv, FacetValuesWithinLimits
<1> QED
    BY <1>1, FreshInvariant, PTL

\* Unless a request overtakes another, the state of a post changes along the
\* transitions that are documented.
THEOREM StatesFollowProcess == Spec => FollowsProcess
<1> DEFINE Step == post # NoPost /\ post'.state # post.state /\ stale' = 0
                      => <<post.state, post'.state>> \in Documented
<1>1. TypeOK /\ FreshInv /\ [Next]_vars => [Step]_vars
  <2> SUFFICES ASSUME TypeOK, FreshInv, Next, post # NoPost, post'.state # post.state,
                      stale' = 0
               PROVE  <<post.state, post'.state>> \in Documented
      OBVIOUS
  <2>1. PICK r \in Requests : Commit(r)
      BY NextCases DEF Create, Edit, Transition, Load, OnTransitionStart, SaveSelect,
                       SaveWrite, Finalize, Fails
  <2>2. stale = 0 /\ r \in fresh
      BY <2>1 DEF Commit, TypeOK
  <2> QED
      BY <2>1, <2>2, CommitGood, GoodPosts DEF FreshInv
<1> QED
    BY <1>1, FreshInvariant, PTL DEF Spec, FollowsProcess

-----------------------------------------------------------------------------
(***************************************************************************)
(* The commit of a fresh request is its operation on the post, as          *)
(* JobPostProcess has it.                                                  *)
(***************************************************************************)
FillsIn(described, values, q, state, dates) ==
    \E new \in {described, TRUE},
       category \in {values \cap Categories, {}} \cup {{c} : c \in Categories},
       skills \in {values \cap Skills}
                     \cup {S \in SUBSET Skills : Cardinality(S) \in MinSkills .. MaxSkills} :
       q = [state |-> state, dates |-> dates, described |-> new,
            facetValues |-> category \cup skills]

LEMMA FillInIs ==
    ASSUME NEW state, NEW dates
    PROVE  Atomic!FillIn(state, dates)
              <=> FillsIn(post.described, post.facetValues, post', state, dates)
<1>1. \A S : Atomic!Cardinality(S) = Cardinality(S)
    BY Zenon DEF Atomic!Cardinality, Cardinality
<1> QED
    BY <1>1 DEF Atomic!FillIn, Atomic!Chosen, FillsIn

LEMMA EditFillsIn ==
    ASSUME NEW p \in Post, NEW o \in Operation, NEW describe \in BOOLEAN,
           NEW categories \in CategoryInputs, NEW skills \in SkillInputs, NEW q,
           q = Patched(p, o, describe, categories, skills)
    PROVE  FillsIn(p.described, p.facetValues, q, p.state,
                   p.dates \cup (IF o = "edit" THEN {"editedAt"} ELSE {}))
<1>1. /\ q \in Post /\ q.state = p.state
      /\ q.dates = p.dates \cup (IF o = "edit" THEN {"editedAt"} ELSE {})
      /\ q.facetValues = WithFacetValues(
            WithFacetValues(p.facetValues, Categories, categories), Skills, skills)
    BY PatchedPost
<1>2. q.described \in {p.described, TRUE}
  <2>1. p.described \in BOOLEAN
      BY DEF Post
  <2>2. q.described \in BOOLEAN /\ (p.described => q.described)
      BY PatchedPost DEF Post
  <2>3. q.described = (p.described \/ describe)
      BY DEF Patched, Described, Post
  <2>4. CASE p.described \/ describe
    <3>1. q.described = TRUE
        BY <2>2, <2>3, <2>4, Zenon
    <3> QED
        BY <3>1
  <2>5. CASE ~p.described /\ ~describe
    <3>1. q.described = FALSE /\ p.described = FALSE
        BY <2>1, <2>2, <2>3, <2>5, Zenon
    <3> QED
        BY <3>1
  <2> QED
      BY <2>4, <2>5
<1>3. UNION categories \subseteq Categories /\ UNION skills \subseteq Skills
    BY InputsAreFacetValues
<1>4. /\ q.facetValues \cap Categories
            \in {p.facetValues \cap Categories, {}} \cup {{c} : c \in Categories}
      /\ q.facetValues \cap Skills
            \in {p.facetValues \cap Skills}
                   \cup {S \in SUBSET Skills : Cardinality(S) \in MinSkills .. MaxSkills}
  <2>1. /\ q.facetValues \cap Categories
              = IF categories = {} THEN p.facetValues \cap Categories ELSE UNION categories
        /\ q.facetValues \cap Skills = IF skills = {} THEN p.facetValues \cap Skills
                                                  ELSE UNION skills
      BY <1>1, <1>3, FacetsApart
  <2> QED
      BY <2>1, InputsAreFacetValues
<1>5. q.facetValues = (q.facetValues \cap Categories) \cup (q.facetValues \cap Skills)
    BY <1>1 DEF Post
<1>6. q = [state |-> q.state, dates |-> q.dates, described |-> q.described,
           facetValues |-> (q.facetValues \cap Categories) \cup (q.facetValues \cap Skills)]
    BY <1>1, <1>5 DEF Post
<1>7. FillsIn(p.described, p.facetValues, q, q.state, q.dates)
  <2> SUFFICES \E new \in {p.described, TRUE},
                  category \in {p.facetValues \cap Categories, {}} \cup {{c} : c \in Categories},
                  chosen \in {p.facetValues \cap Skills}
                     \cup {S \in SUBSET Skills : Cardinality(S) \in MinSkills .. MaxSkills} :
                  q = [state |-> q.state, dates |-> q.dates, described |-> new,
                       facetValues |-> category \cup chosen]
      BY DEF FillsIn
  <2> USE <1>2, <1>4
  <2> WITNESS q.described \in {p.described, TRUE},
              q.facetValues \cap Categories
                 \in {p.facetValues \cap Categories, {}} \cup {{c} : c \in Categories},
              q.facetValues \cap Skills
                 \in {p.facetValues \cap Skills}
                     \cup {S \in SUBSET Skills : Cardinality(S) \in MinSkills .. MaxSkills}
  <2> QED
      BY <1>6
<1> QED
    BY <1>1, <1>7

LEMMA NoPostIs == NoPost = Atomic!NoPost /\ NoPost.state = "none"
<1>1. PICK blank : blank = Blank
    OBVIOUS
<1>2. /\ blank = [state |-> "DRAFT", dates |-> {}, described |-> FALSE, facetValues |-> {}]
      /\ NoPost = [blank EXCEPT !.state = "none"]
    BY <1>1 DEF Blank, NoPost
<1> QED
    BY <1>2 DEF Atomic!NoPost

LEMMA CreateIsAtomic ==
    ASSUME NEW describe \in BOOLEAN, NEW categories \in CategoryInputs,
           NEW skills \in SkillInputs, Create(describe, categories, skills)
    PROVE  Atomic!CreateDraft
<1>1. /\ Blank \in Post /\ Blank.state = "DRAFT" /\ Blank.dates = {}
      /\ Blank.described = FALSE /\ Blank.facetValues = {}
    BY DEF Blank, Post, JobPostState
<1>2. /\ post = NoPost /\ post.described = FALSE /\ post.facetValues = {}
      /\ post' = Patched(Blank, "editDraft", describe, categories, skills)
    BY DEF Create, Patched, NoPost, Blank
<1>3. "editDraft" \in Operation /\ "editDraft" # "edit"
    BY DEF Operation, Edits
<1>4. FillsIn(Blank.described, Blank.facetValues, post', Blank.state, Blank.dates \cup {})
    BY <1>1, <1>2, <1>3, EditFillsIn
<1>5. FillsIn(post.described, post.facetValues, post', "DRAFT", {})
    BY <1>1, <1>2, <1>4
<1> QED
    BY <1>2, <1>5, FillInIs, NoPostIs DEF Atomic!CreateDraft

LEMMA CommitEditIsAtomic ==
    ASSUME TypeOK, NEW r \in Requests, FreshRequest(r), Commit(r), op[r] \in Edits
    PROVE  Atomic!EditDraft \/ Atomic!Edit
<1>1. /\ post' = copy[r] /\ post.state \in Editable(op[r]) /\ IsEditOf(copy[r], post, op[r])
      /\ post \in Post /\ op[r] \in Operation
    BY CommitEdit DEF FreshRequest, FreshEdit, TypeOK
<1>2. PICK describe \in BOOLEAN, categories \in CategoryInputs, skills \in SkillInputs :
           post' = Patched(post, op[r], describe, categories, skills)
    BY <1>1 DEF IsEditOf
<1>3. FillsIn(post.described, post.facetValues, post', post.state,
              post.dates \cup (IF op[r] = "edit" THEN {"editedAt"} ELSE {}))
    BY <1>1, <1>2, EditFillsIn
<1>4. CASE op[r] = "edit"
  <2>1. post.state = "OPEN"
      BY <1>1, <1>4 DEF Editable
  <2>2. FillsIn(post.described, post.facetValues, post', "OPEN", post.dates \cup {"editedAt"})
      BY <1>3, <1>4, <2>1
  <2> QED
      BY <2>1, <2>2, FillInIs DEF Atomic!Edit
<1>5. CASE op[r] # "edit"
  <2>1. post.state = "DRAFT" /\ post.dates \cup {} = post.dates
      BY <1>1, <1>5 DEF Editable
  <2>2. FillsIn(post.described, post.facetValues, post', "DRAFT", post.dates)
      BY <1>3, <1>5, <2>1
  <2> QED
      BY <2>1, <2>2, FillInIs DEF Atomic!EditDraft
<1> QED
    BY <1>4, <1>5

LEMMA CommitTransitionIsAtomic ==
    ASSUME TypeOK, TypeOK', NEW r \in Requests, FreshRequest(r), Commit(r), op[r] \notin Edits
    PROVE  \/ Atomic!DeleteDraft \/ Atomic!RequestPublishDraft \/ Atomic!Publish \/ Atomic!Close
<1>1. /\ post'.state = Transitions[op[r]]
      /\ post'.dates = post.dates \cup Stamp(post'.state)
      /\ post'.described = post.described /\ post'.facetValues = post.facetValues
    BY CommitTransition
<1>2. /\ FreshTransition(r) /\ at[r] = "commit" /\ post \in Post
      /\ op[r] \in DOMAIN Transitions /\ Transitions[op[r]] \in Process[post.state]
    BY DEF FreshRequest, FreshTransition, Commit, TypeOK, Operation
<1>3. post' \in Post
  <2>1. post'.state \in JobPostState
      BY <1>1, <1>2, ProcessSteps DEF JobPostState
  <2> QED
      BY <2>1, NoPostIs DEF TypeOK, JobPostState
<1>4. post' = [post EXCEPT !.state = post'.state, !.dates = @ \cup Stamp(post'.state)]
    BY <1>1, <1>2, <1>3 DEF Post
<1>5. ASSUME NEW from, NEW to, post.state = from, Transitions[op[r]] = to
      PROVE  Atomic!Move(from, to, Stamp(to))
    BY <1>1, <1>4, <1>5 DEF Atomic!Move
<1>6. CASE op[r] = "deleteDraft"
  <2>1. Atomic!Move("DRAFT", "DRAFT_DELETED", Stamp("DRAFT_DELETED"))
      BY <1>2, <1>5, <1>6, ProcessSteps
  <2> QED
      BY <2>1 DEF Stamp, Atomic!DeleteDraft
<1>7. CASE op[r] = "requestPublishDraft"
  <2>1. Atomic!Move("DRAFT", "REQUESTED", Stamp("REQUESTED"))
      BY <1>2, <1>5, <1>7, ProcessSteps
  <2>2. Complete(post)
      BY <1>2, <1>7 DEF FreshTransition
  <2> QED
      BY <2>1, <2>2 DEF Stamp, Complete, Atomic!RequestPublishDraft, Atomic!Chosen
<1>8. CASE op[r] = "publish"
  <2>1. Atomic!Move("REQUESTED", "OPEN", Stamp("OPEN"))
      BY <1>2, <1>5, <1>8, ProcessSteps
  <2> QED
      BY <2>1 DEF Stamp, Atomic!Publish
<1>9. CASE op[r] = "close"
  <2>1. Atomic!Move("OPEN", "CLOSED", Stamp("CLOSED"))
      BY <1>2, <1>5, <1>9, ProcessSteps
  <2> QED
      BY <2>1 DEF Stamp, Atomic!Close
<1> QED
    BY <1>2, <1>6, <1>7, <1>8, <1>9, ProcessSteps

LEMMA AtomicStep ==
    TypeOK /\ TypeOK' /\ FreshInv /\ [Next]_vars => [Atomic!Next]_(Atomic!vars)
<1> SUFFICES ASSUME TypeOK, TypeOK', FreshInv, [Next]_vars, stale' = 0,
                    <<post, stale # 0>>' # <<post, stale # 0>>
             PROVE  Atomic!Request /\ UNCHANGED (stale # 0)
    BY DEF Atomic!Next, Atomic!vars
<1>1. CASE post' = post
  <2>1. stale' = stale \/ \E r \in Requests : Commit(r)
      BY NextCases DEF Create, Edit, Transition, Load, OnTransitionStart, SaveSelect,
                       SaveWrite, Finalize, Fails, history, vars
  <2>2. stale = 0
      BY <2>1 DEF Commit, TypeOK
  <2> QED
      BY <1>1, <2>2
<1>2. CASE post' # post
  <2>1. \/ \E describe \in BOOLEAN, categories \in CategoryInputs, skills \in SkillInputs :
              Create(describe, categories, skills)
        \/ \E r \in Requests : Commit(r)
      BY <1>2, NextCases DEF Edit, Transition, Load, OnTransitionStart, SaveSelect,
                             SaveWrite, Finalize, Fails, vars
  <2>2. ASSUME NEW r \in Requests, Commit(r)
        PROVE  Atomic!Request /\ UNCHANGED (stale # 0)
    <3>1. stale = 0 /\ r \in fresh
        BY <2>2 DEF Commit, TypeOK
    <3>2. FreshRequest(r)
        BY <3>1 DEF FreshInv
    <3> QED
        BY <2>2, <3>1, <3>2, CommitEditIsAtomic, CommitTransitionIsAtomic DEF Atomic!Request
  <2>3. ASSUME NEW describe \in BOOLEAN, NEW categories \in CategoryInputs,
               NEW skills \in SkillInputs, Create(describe, categories, skills)
        PROVE  Atomic!Request /\ UNCHANGED (stale # 0)
      BY <2>3, CreateIsAtomic DEF Atomic!Request, Create, history
  <2> QED
      BY <2>1, <2>2, <2>3
<1> QED
    BY <1>1, <1>2

\* JobPostService implements JobPostProcess: however many requests overlap, and
\* wherever their statements interleave or fail, each is served as if alone,
\* until one commits an entity it loaded before another commit.
THEOREM RequestsAreServedOneByOne == Spec => ServedOneByOne
<1>1. Init => Atomic!Init
    BY NoPostIs DEF Init, Atomic!Init
<1>2. Spec => []TypeOK /\ []FreshInv
    BY FreshInvariant, PTL
<1> QED
    BY <1>1, <1>2, AtomicStep, PTL DEF Spec, ServedOneByOne, Atomic!Spec
=============================================================================
