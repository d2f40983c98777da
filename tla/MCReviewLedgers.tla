-------------------------- MODULE MCReviewLedgers --------------------------
\* Small instances of ReviewLedgers and ContentReadiness for TLC.
EXTENDS ContentReadiness, TLC

CONSTANTS c1, c2, g1, e1, e2

OneGroup == (c1 :> g1) @@ (c2 :> g1)

\* The second evidence supports one claim less.
ByEvidence == (e1 :> {c1, c2}) @@ (e2 :> {c1})

\* A draft that only reviews can hold back.
ReadyDraft ==
  [composition |-> "ready", title |-> "ready_for_editor_review", repairs |-> {"heading"},
   semantic |-> [task \in {"sense"} |-> "unreviewed"],
   revisions |-> [proposal \in {"revision"} |-> "approved_for_manual_revision"],
   manualPacket |-> TRUE, demand |-> {"stable_observed"}, competitive |-> {},
   selectionReview |-> FALSE, topologyReview |-> TRUE,
   claims |-> 1, verified |-> 1, approvedCitations |-> 1]

Drafts == [e \in Evidences |-> [g \in Groups |-> ReadyDraft]]

Symmetry == Permutations(Files) \cup Permutations(Reviewers)
=============================================================================
