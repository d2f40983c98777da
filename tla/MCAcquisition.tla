--------------------------- MODULE MCAcquisition ---------------------------
\* Small instances of AcquisitionEvidence for TLC.
EXTENDS AcquisitionEvidence, TLC

CONSTANTS s1, s2, s3, setA

\* All portfolios ask for every source task, as after a price change.
SameTasks == [s \in CandidateSets |-> Sources]
\* The portfolios share one source task, as after a new keyword import.
OverlappingTasks == [s \in CandidateSets |-> IF s = setA THEN {s1, s2} ELSE {s2, s3}]
PlanMaximum == [s \in CandidateSets |-> 2]

\* Every portfolio says the same of a task, or each something else.
SameFields == [s \in CandidateSets |-> [t \in Sources |-> 0]]
OwnFields == [s \in CandidateSets |-> [t \in Sources |-> IF s = setA THEN 0 ELSE 1]]

OneAtATime == {"crash", "reuse", "pending", "http", "lostReply"}
FreshDirectories == AllDisturbances \ {"reuse", "pending"}

\* SameTasks, SameFields and PlanMaximum tell neither source tasks nor sets apart.
SpendSymmetry == Permutations(Executors) \cup Permutations(Runs)
                   \cup Permutations(Sources) \cup Permutations(CandidateSets)
\* OverlappingTasks and OwnFields do.
PortfolioSymmetry == Permutations(Executors) \cup Permutations(Bodies)
DirectorySymmetry == Permutations(Executors) \cup Permutations(Runs)
=============================================================================
