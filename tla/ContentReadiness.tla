--------------------------- MODULE ContentReadiness ---------------------------
(***************************************************************************)
(* buildContentReadinessOracle: whether the draft of an article group may  *)
(* go to an editor.  Fourteen gates pass, ask for a review or block; two   *)
(* of them look at the ledgers of human decisions.                         *)
(*                                                                         *)
(* The rows the other gates look at are computed when the database is      *)
(* built and go with its evidence, so they are constants.  The details of  *)
(* the gates, the identifiers and the digests beside them are left out.    *)
(***************************************************************************)
EXTENDS ReviewLedgers

CONSTANTS
  DraftOf            \* of each evidence and group what the other gates look at

ASSUME DraftAssumption ==
  \A e \in Evidences : DOMAIN DraftOf[e] = Groups

-----------------------------------------------------------------------------
Draft(g) == DraftOf[evidence][g]

\* The eligible reviews of a group, and its claims that were approved.
PublicSourceReviews(g) == {c \in Eligible[evidence] : GroupOf[c] = g}
PublicSourceApproved(g) == {c \in PublicSourceReviews(g) : ClaimUseApproved(c)}

PendingStates == {"unreviewed", "unresolved_deferred", "reviewer_disagreement"}

\* The semantic tasks are functions from a task to its progress state, the safe
\* revisions likewise.
SemanticPending(g) == {t \in DOMAIN Draft(g).semantic : Draft(g).semantic[t] \in PendingStates}
SafeRevisionApproved(g) ==
  {r \in DOMAIN Draft(g).revisions : Draft(g).revisions[r] = "approved_for_manual_revision"}

Gate(passes, blocks) ==
  IF passes THEN "pass" ELSE IF blocks THEN "blocked" ELSE "review_required"

\* Faulty variant: one approved claim is enough.
SomeReviewApproved(g) == Gate(PublicSourceReviews(g) = {}, PublicSourceApproved(g) = {})

ReviewDecisionGate(g) ==
  Gate(PublicSourceReviews(g) = {}, PublicSourceApproved(g) # PublicSourceReviews(g))

CitationApplicationGate(g) ==
  Gate(PublicSourceReviews(g) = {}, ~ManualApplicationApproved(g))

DraftGates(g) ==
  LET draft == Draft(g) IN
  [composition                    |-> Gate(draft.composition = "ready", TRUE),
   title_editor_review            |-> Gate(FALSE, draft.title # "ready_for_editor_review"),
   heading_semantic_review        |-> Gate(draft.repairs = {}, FALSE),
   semantic_sense_resolution      |-> Gate(SemanticPending(g) = {}, FALSE),
   evidence_safe_revision_decision |-> Gate(SafeRevisionApproved(g) = DOMAIN draft.revisions, TRUE),
   evidence_safe_manual_revision  |-> Gate(DOMAIN draft.revisions = {}, ~draft.manualPacket),
   demand_stability               |-> Gate(draft.demand \subseteq {"stable_observed"}, FALSE),
   competitive_stability          |-> Gate(draft.competitive \subseteq {"stable_page_observed"}, FALSE),
   evidence_ensemble_selection    |-> Gate(~draft.selectionReview, FALSE),
   topology                       |-> Gate(~draft.topologyReview, FALSE),
   claim_verification             |-> Gate(draft.claims > 0 /\ draft.verified = draft.claims, TRUE),
   citation_approval              |-> Gate(draft.approvedCitations > 0, TRUE)]

GateStates(g) ==
  {ReviewDecisionGate(g), CitationApplicationGate(g)}
    \cup {DraftGates(g)[gate] : gate \in DOMAIN DraftGates(g)}

PublicationState(g) ==
  IF "blocked" \in GateStates(g) THEN "blocked"
  ELSE IF "review_required" \in GateStates(g) THEN "editor_review_required"
  ELSE "ready_for_publication_review"

-----------------------------------------------------------------------------
\* A group whose draft may go to an editor rests on whole reviews: every claim
\* of it with a public source was approved, and whoever approved the application
\* packet saw each of these approvals.  An application approved while some
\* claims were open does not count for the rest, whichever file came first.
UnblockedOnlyIfReviewed ==
  evidence # None =>
    \A g \in Groups :
      PublicationState(g) # "blocked" /\ PublicSourceReviews(g) # {} =>
        \E f \in tables.sets :
          /\ file[f].kind = "application"
          /\ g \in DOMAIN file[f].decisions /\ file[f].decisions[g] = Approval
          /\ \A c \in PublicSourceReviews(g) :
               /\ file[f].seen[c] # {}
               /\ \A review \in file[f].seen[c] :
                    review \in tables.sets /\ file[review].decisions[c] = Approval
=============================================================================
