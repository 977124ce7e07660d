------------------------ MODULE GovernanceDecisions ------------------------
(***************************************************************************)
(* Governance implements Decisions: the proposal records, the running      *)
(* totals, the join sequence and the member records keep the promise made  *)
(* there about proposals.                                                  *)
(***************************************************************************)
EXTENDS Governance

PhaseOf(state) ==
    CASE state = "none"      -> "none"
      [] state = "active"    -> "open"
      [] state = "passed"    -> "passed"
      [] state = "closed"    -> "advised"
      [] state = "failed"    -> "rejected"
      [] state = "cancelled" -> "withdrawn"
      [] state = "executed"  -> "done"

\* What stands for the variables of the abstract specification: the rolls are
\* those who voted and those who still can, the box is the receipts.
Phases   == [p \in ProposalIds |-> PhaseOf(proposals[p].state)]
Bindings == [p \in ProposalIds |-> ~proposals[p].isPoll]
Rolls    == [p \in ProposalIds |-> Voters(p) \cup Electorate(p)]

Promise == INSTANCE Decisions WITH
    Ids <- ProposalIds, Options <- OptionIds, Approval <- ApproveOptionIndex,
    phase <- Phases, binding <- Bindings, roll <- Rolls, box <- ballots

\* Every history of calls is a history of the abstract specification: nobody
\* enters a roll after the proposal opened, no receipt changes after the
\* decision, the totals decide as the receipts would, and nothing is carried
\* out twice.
ImplementsDecisions == Promise!DecisionSpec
=============================================================================
