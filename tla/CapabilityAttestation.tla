------------------------ MODULE CapabilityAttestation ------------------------
(***************************************************************************)
(* The completion audit of the capabilities and the attestation of their   *)
(* proofs.  The audit hashes the artifacts of a capability and the scripts *)
(* of its commands, and believes a receipt that names the same hashes; the *)
(* attestation reads the last audit, runs the commands one by one and      *)
(* writes the receipt with the hashes it read there.  Meanwhile files are  *)
(* edited.                                                                 *)
(*                                                                         *)
(* A digest says no more than the content, and a file may be changed and   *)
(* changed back.  The number of the last edit of a file, and the files     *)
(* that an audit or a command saw, are kept for the properties: no code    *)
(* reads them.                                                             *)
(***************************************************************************)
EXTENDS Naturals, FiniteSets

CONSTANTS
  Capabilities, Implemented,
  Paths,             \* the artifacts, and the scripts that commands name
  ArtifactsOf,       \* of each capability its artifacts
  CommandsOf,        \* of each capability its verification commands
  TargetOf,          \* of each command the path it names, or NoTarget
  Versions, Absent,  \* the contents a file may have, and that of no file
  Original,          \* the content of every file at the start
  NoTarget, NoAudit, NoReceipt, NoRun,
  MaxEdits           \* bound of the model on the edits

ASSUME AttestationAssumption ==
  /\ Implemented \subseteq Capabilities
  /\ \A c \in Capabilities : ArtifactsOf[c] \subseteq Paths
  /\ NoTarget \notin Paths /\ Absent \notin Versions /\ Original \in Versions
  /\ \A c \in Capabilities : \A command \in CommandsOf[c] : TargetOf[command] \in Paths \cup {NoTarget}
  /\ MaxEdits \in Nat

VARIABLES
  tree,              \* of each path its content, and its last edit
  inventory,         \* the content of the capability inventory
  edits,
  audit,             \* the audit file
  run,               \* the attestation that runs, or NoRun
  receipt            \* the attestation file

attestationVars == <<tree, inventory, edits, audit, run, receipt>>

-----------------------------------------------------------------------------
Present(path) == path # NoTarget /\ tree[path].content # Absent

\* The digests of a capability: what there is under each of its names.
ArtifactSet(c) == [path \in ArtifactsOf[c] |-> tree[path].content]
CommandSet(c) ==
  [command \in CommandsOf[c] |->
     IF Present(TargetOf[command]) THEN tree[TargetOf[command]].content ELSE Absent]

EvidenceIntegrity(c) ==
  IF /\ \A path \in ArtifactsOf[c] : Present(path)
     /\ \A command \in CommandsOf[c] : Present(TargetOf[command])
  THEN "integrity_verified_execution_not_attested" ELSE "integrity_failed"

\* Faulty variant: only the artifacts are compared.
MatchesArtifacts(c) ==
  /\ receipt # NoReceipt
  /\ receipt.inventory = inventory
  /\ receipt.allPassed
  /\ c \in DOMAIN receipt.rows
  /\ receipt.rows[c].artifacts = ArtifactSet(c)

MatchesCapabilityAttestation(c) ==
  /\ receipt # NoReceipt
  /\ receipt.inventory = inventory
  /\ receipt.allPassed
  /\ c \in DOMAIN receipt.rows
  /\ receipt.rows[c].artifacts = ArtifactSet(c)
  /\ receipt.rows[c].commands = CommandSet(c)
  /\ receipt.rows[c].executed = Cardinality(CommandsOf[c])
  /\ receipt.rows[c].passed = Cardinality(CommandsOf[c])

ProvenComplete(c) ==
  c \in Implemented /\ EvidenceIntegrity(c) # "integrity_failed" /\ MatchesCapabilityAttestation(c)

CompletionEvidenceState(c) ==
  IF c \notin Implemented THEN "contradicted_by_retained_gap"
  ELSE IF EvidenceIntegrity(c) = "integrity_failed" THEN "evidence_integrity_failed"
  ELSE IF MatchesCapabilityAttestation(c) THEN "artifact_integrity_and_execution_attested"
  ELSE "execution_attestation_missing_or_stale"

-----------------------------------------------------------------------------
AttestationInit ==
  /\ tree = [path \in Paths |-> [content |-> Original, edit |-> 0]]
  /\ inventory = Original
  /\ edits = 0
  /\ audit = NoAudit /\ run = NoRun /\ receipt = NoReceipt

\* A file is changed, removed or put there again, with any content.
Edit(path, content) ==
  /\ edits < MaxEdits
  /\ content # tree[path].content
  /\ edits' = edits + 1
  /\ tree' = [tree EXCEPT ![path] = [content |-> content, edit |-> edits']]
  /\ UNCHANGED <<inventory, audit, run, receipt>>

EditInventory ==
  /\ edits < MaxEdits
  /\ edits' = edits + 1
  /\ inventory' \in Versions \ {inventory}
  /\ UNCHANGED <<tree, audit, run, receipt>>

BuildAudit ==
  /\ audit' = [inventory |-> inventory,
               artifacts |-> [c \in Capabilities |-> ArtifactSet(c)],
               commands  |-> [c \in Capabilities |-> CommandSet(c)],
               targets   |-> {c \in Implemented :
                                EvidenceIntegrity(c) = "integrity_verified_execution_not_attested"},
               proven    |-> {c \in Capabilities : ProvenComplete(c)},
               state     |-> [c \in Capabilities |-> CompletionEvidenceState(c)],
               on        |-> tree]
  /\ UNCHANGED <<tree, inventory, edits, run, receipt>>

\* The attestation reads the audit once.
StartAttestation ==
  /\ run = NoRun
  /\ audit # NoAudit
  /\ run' = [of |-> audit, results |-> {}]
  /\ UNCHANGED <<tree, inventory, edits, audit, receipt>>

UniqueCommands == UNION {CommandsOf[c] : c \in run.of.targets}
Ran == {result.command : result \in run.results}
Stopped == \E result \in run.results : ~result.passed

\* A command is run on the files of that moment, and the first failure ends the
\* loop.  A command whose script is gone fails.
RunCommand(command, passed) ==
  /\ run # NoRun
  /\ ~Stopped
  /\ command \in UniqueCommands \ Ran
  /\ passed => Present(TargetOf[command])
  /\ run' = [run EXCEPT !.results =
               @ \cup {[command |-> command, passed |-> passed, on |-> tree]}]
  /\ UNCHANGED <<tree, inventory, edits, audit, receipt>>

\* Faulty variant: the receipt hashes the artifacts when it is written.
ArtifactsNow(seen, c) == ArtifactSet(c)

RecordedArtifacts(seen, c) == seen.artifacts[c]

WriteReceipt ==
  /\ run # NoRun
  /\ Stopped \/ Ran = UniqueCommands
  /\ LET of(c) == {result \in run.results : result.command \in CommandsOf[c]}
     IN receipt' =
          [inventory |-> run.of.inventory,
           allPassed |-> Ran = UniqueCommands /\ ~Stopped,
           rows      |-> [c \in run.of.targets |->
                            [artifacts |-> RecordedArtifacts(run.of, c),
                             commands  |-> run.of.commands[c],
                             executed  |-> Cardinality(of(c)),
                             passed    |-> Cardinality({result \in of(c) : result.passed})]],
           results   |-> run.results,
           auditedOn |-> run.of.on]
  /\ run' = NoRun
  /\ UNCHANGED <<tree, inventory, edits, audit>>

\* The attestation is killed: the receipt there was stays.
AbortAttestation ==
  /\ run # NoRun
  /\ run' = NoRun
  /\ UNCHANGED <<tree, inventory, edits, audit, receipt>>

AttestationNext ==
  \/ \E path \in Paths, content \in Versions \cup {Absent} : Edit(path, content)
  \/ EditInventory
  \/ BuildAudit
  \/ StartAttestation
  \/ \E command \in DOMAIN TargetOf, passed \in BOOLEAN : RunCommand(command, passed)
  \/ WriteReceipt
  \/ AbortAttestation

AttestationSpec == AttestationInit /\ [][AttestationNext]_attestationVars

-----------------------------------------------------------------------------
\* The file was changed after the audit and changed back after the command.
ChangedAndBack(audited, ranOn, now) == audited.edit < ranOn.edit /\ ranOn.edit < now.edit

\* A capability is proven complete only when every one of its commands passed on
\* the very artifacts there are now: an edit before, between or after the runs,
\* or between the audit and the attestation, takes the proof away, unless the
\* file was changed after the audit and changed back after the command.
ProvenMeansPassedOnTheseFiles ==
  \A c \in Capabilities :
    ProvenComplete(c) =>
      \A command \in CommandsOf[c] :
        \E result \in receipt.results :
          /\ result.command = command
          /\ result.passed
          /\ \A path \in ArtifactsOf[c] \cup {TargetOf[command]} :
               \/ result.on[path].content = tree[path].content
               \/ ChangedAndBack(receipt.auditedOn[path], result.on[path], tree[path])
=============================================================================
