--------------------------- MODULE JobPostProcess ---------------------------
(***************************************************************************)
(* What JobPostService promises about one job post: a request does all it  *)
(* is for to the post that is there, in one step and while its state still *)
(* allows it, or does nothing.  Nothing is promised any more once a        *)
(* request has saved a post that another one had changed since.            *)
(***************************************************************************)
EXTENDS Naturals, FiniteSets

CONSTANTS Categories, Skills, MinSkills, MaxSkills

VARIABLES
    post,      \* the post that everybody sees
    overtaken  \* a post was saved that had been changed since it was loaded

vars == <<post, overtaken>>

NoPost == [state |-> "none", dates |-> {}, described |-> FALSE, facetValues |-> {}]

Init == post = NoPost /\ overtaken = FALSE

Chosen(facet) == post.facetValues \cap facet

\* Whoever fills in a post takes no description away, replaces the skills or
\* leaves them, and replaces, removes or leaves the category.
FillIn(state, dates) ==
    \E described \in {post.described, TRUE},
       category \in {Chosen(Categories), {}} \cup {{c} : c \in Categories},
       skills \in {Chosen(Skills)}
                     \cup {S \in SUBSET Skills : Cardinality(S) \in MinSkills .. MaxSkills} :
       post' = [state |-> state, dates |-> dates, described |-> described,
                facetValues |-> category \cup skills]

CreateDraft == post = NoPost /\ FillIn("DRAFT", {})
EditDraft == post.state = "DRAFT" /\ FillIn("DRAFT", post.dates)
Edit == post.state = "OPEN" /\ FillIn("OPEN", post.dates \cup {"editedAt"})

Move(from, to, dates) ==
    /\ post.state = from
    /\ post' = [post EXCEPT !.state = to, !.dates = @ \cup dates]

DeleteDraft == Move("DRAFT", "DRAFT_DELETED", {"deletedAt"})
RequestPublishDraft ==
    /\ post.described /\ Chosen(Categories) # {} /\ Chosen(Skills) # {}
    /\ Move("DRAFT", "REQUESTED", {})
Publish == Move("REQUESTED", "OPEN", {"publishedAt"})
Close == Move("OPEN", "CLOSED", {"closedAt"})

Request == \/ CreateDraft \/ EditDraft \/ Edit
           \/ DeleteDraft \/ RequestPublishDraft \/ Publish \/ Close

Next == (Request /\ UNCHANGED overtaken) \/ overtaken'

Spec == Init /\ [][Next]_vars
=============================================================================
