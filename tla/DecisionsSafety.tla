-------------------------- MODULE DecisionsSafety ---------------------------
(***************************************************************************)
(* Governance implements Decisions, for every value of the constants: the  *)
(* initial states map to initial states, and every step of a project and   *)
(* its proposals maps to a step of the abstract specification or to a      *)
(* stutter.                                                                *)
(***************************************************************************)
EXTENDS GovernanceDecisions, BallotSafety

-----------------------------------------------------------------------------
(* What a step does to the mapped variables                                *)

\* One proposal goes from one state to another.
LEMMA PhaseMoves ==
    ASSUME NEW p \in ProposalIds,
           \A k \in ProposalIds \ {p} : proposals'[k].state = proposals[k].state
    PROVE  Promise!Moves(p, PhaseOf(proposals[p].state), PhaseOf(proposals'[p].state))
  <1>1. Phases' = [Phases EXCEPT ![p] = PhaseOf(proposals'[p].state)]
    BY DEF Phases
  <1> QED BY <1>1 DEF Promise!Moves, Phases

LEMMA PhasesStay ==
    ASSUME \A k \in ProposalIds : proposals'[k].state = proposals[k].state
    PROVE  Phases' = Phases
  BY DEF Phases

LEMMA BindingsStay ==
    ASSUME \A k \in ProposalIds : proposals'[k].isPoll = proposals[k].isPoll
    PROVE  Bindings' = Bindings
  BY DEF Bindings

\* Votes stay cast.
LEMMA VotersGrow ==
    ASSUME TypeOK, [Next]_vars, NEW p \in ProposalIds
    PROVE  Voters(p) \subseteq Voters(p)'
  <1> SUFFICES ASSUME NEW a \in Voters(p) PROVE ballots'[p][a].choices # {}
    BY DEF Voters
  <1>1. a \in Accounts /\ ballots[p][a].choices # {}
    BY DEF Voters
  <1>2. ASSUME NEW choices \in ChoiceSets, VoteProposal(a, p, choices),
               ballots'[p][a] = [choices |-> choices, weight |-> VoteWeight(a, proposals[p])]
        PROVE  ballots'[p][a].choices # {}
    BY <1>2 DEF VoteProposal
  <1> QED BY <1>1, <1>2, ReceiptStep

\* The roll of a proposal that exists only loses those who have not voted.
LEMMA RollShrinks ==
    ASSUME Inv, [Next]_vars, NEW p \in ProposalIds, proposals[p].state # "none"
    PROVE  Voters(p) \subseteq Roll(p)' /\ Roll(p)' \subseteq Roll(p)
  <1>1. TypeOK
    BY DEF Inv
  <1>2. Voters(p) \subseteq Roll(p)'
    BY <1>1, VotersGrow DEF Roll
  <1>3. ASSUME NEW a \in Roll(p)'
        PROVE  a \in Roll(p)
    <2>1. CASE a \in Electorate(p)'
      BY <2>1, ElectorateStays DEF Roll
    <2>2. CASE a \notin Electorate(p)'
      <3>1. a \in Voters(p)' /\ a \in Accounts
        BY <2>2 DEF Roll, Voters
      <3>2. ballots'[p][a] = ballots[p][a]
        BY <1>1, <2>2, <3>1, ReceiptStep, VoterStaysElector
      <3> QED BY <3>1, <3>2 DEF Roll, Voters
    <2> QED BY <2>1, <2>2
  <1> QED BY <1>2, <1>3

\* Nobody is on the roll of a proposal that does not exist yet.
LEMMA RollsShrunk ==
    ASSUME Inv, [Next]_vars,
           \A p \in ProposalIds : proposals[p].state = "none" => proposals'[p].state = "none"
    PROVE  Promise!Shrunk(Rolls')
  <1>1. /\ TypeOK /\ TypeOK' /\ ElectorateInv /\ ElectorateInv' /\ ClaimsTyped'
        /\ NoneOnRoll /\ NoneOnRoll'
    BY InvStep, ClaimTypedNext, UnusedRolls, UnusedRollsNext DEF Inv
  <1>2. ASSUME NEW p \in ProposalIds
        PROVE  /\ Voters(p) \subseteq Roll(p)' /\ Roll(p)' \subseteq Roll(p)
               /\ Roll(p)' \subseteq Accounts
    <2>1. Roll(p)' \subseteq Accounts
      BY <1>1 DEF ClaimsTyped
    <2>2. CASE proposals[p].state = "none"
      BY <1>1, <2>1, <2>2 DEF NoneOnRoll, Roll
    <2>3. CASE proposals[p].state # "none"
      BY <2>1, <2>3, RollShrinks
    <2> QED BY <2>2, <2>3
  <1>3. \A p \in ProposalIds : Promise!Voted(p) = Voters(p)
    BY DEF Promise!Voted, Voters
  <1>4. /\ Rolls = [p \in ProposalIds |-> Roll(p)]
        /\ Rolls' = [p \in ProposalIds |-> Roll(p)']
    BY DEF Rolls, Roll
  <1>5. Rolls' \in [ProposalIds -> SUBSET Accounts]
    BY <1>2, <1>4
  <1>6. \A p \in ProposalIds : Promise!Voted(p) \subseteq Rolls'[p] /\ Rolls'[p] \subseteq Rolls[p]
    BY <1>2, <1>3, <1>4
  <1> QED BY <1>5, <1>6 DEF Promise!Shrunk

\* Rolls change only with the members, the receipts and the join snapshots.
LEMMA SameRoll ==
    ASSUME NEW p \in ProposalIds, members' = members, ballots'[p] = ballots[p],
           \A a \in members : member'[a].joinSeq = member[a].joinSeq,
           proposals'[p].joinSnap = proposals[p].joinSnap
    PROVE  Roll(p)' = Roll(p)
  BY DEF Roll, Voters, Electorate

-----------------------------------------------------------------------------
(* One lemma for each operation                                            *)

LEMMA CreateSubmits ==
    ASSUME TypeOK, NEW a \in Proposers, NEW o \in Outcomes, NEW form \in Forms,
           NEW d \in Durations, CreateProposal(a, o, form, d)
    PROVE  \E p \in ProposalIds, poll \in BOOLEAN : Promise!Submit(p, poll, Rolls'[p])
  <1>1. PICK p \in ProposalIds :
          /\ proposals[p].state = "none"
          /\ proposals'[p] = NewProposal(a, o, form, d)
          /\ \A k \in ProposalIds \ {p} : proposals'[k] = proposals[k]
    BY CreateTerms
  <1>2. proposals'[p].state = "active" /\ proposals'[p].isPoll = form.poll
    BY <1>1 DEF NewProposal
  <1>3. form.poll \in BOOLEAN
    BY GovernanceConstants DEF GovernanceConstants
  <1>4. Promise!Moves(p, "none", "open")
    BY <1>1, <1>2, PhaseMoves DEF PhaseOf
  <1>5. Bindings' = [Bindings EXCEPT ![p] = ~form.poll]
    BY <1>1, <1>2 DEF Bindings
  <1>6. members' = members /\ member' = member /\ ballots' = ballots
    BY DEF CreateProposal, memberVars, ballotVars
  <1>7. Rolls' = [Rolls EXCEPT ![p] = Rolls'[p]]
    <2>1. \A k \in ProposalIds \ {p} : Roll(k)' = Roll(k)
      BY <1>1, <1>6, SameRoll
    <2>2. /\ Rolls = [k \in ProposalIds |-> Roll(k)]
          /\ Rolls' = [k \in ProposalIds |-> Roll(k)']
      BY DEF Rolls, Roll
    <2> QED BY <2>1, <2>2
  <1> QED BY <1>3, <1>4, <1>5, <1>6, <1>7 DEF Promise!Submit

LEMMA VoteCasts ==
    ASSUME TypeOK, NEW a \in Accounts, NEW p \in ProposalIds, NEW choices \in ChoiceSets,
           VoteProposal(a, p, choices)
    PROVE  Promise!Cast(p, a, ballots'[p][a])
  <1>1. /\ proposals[p].state = "active" /\ choices # {}
        /\ a \in Electorate(p) /\ members' = members
    BY DEF VoteProposal, TakesVotes, Eligible, Electorate
  <1> DEFINE r == [choices |-> choices, weight |-> VoteWeight(a, proposals[p])]
  <1>2. ballots' = [ballots EXCEPT ![p][a] = r]
    BY DEF VoteProposal
  <1>3. ballots'[p][a] = r /\ ballots'[p][a].choices = choices
    BY <1>2 DEF TypeOK
  <1>4. Phases' = Phases
    BY VoteTerms, PhasesStay
  <1>5. \A k \in ProposalIds : /\ proposals'[k].isPoll = proposals[k].isPoll
                               /\ proposals'[k].joinSnap = proposals[k].joinSnap
    BY VoteTerms DEF Continues, SameTerms
  <1>6. Bindings' = Bindings
    BY <1>5, BindingsStay
  <1>7. \A b \in members : member'[b].joinSeq = member[b].joinSeq
    <2>1. /\ \A b \in Accounts \ {a} : member'[b] = member[b]
          /\ member'[a].joinSeq = member[a].joinSeq
      BY VoteRecord, CommittedRecord
    <2> QED BY <2>1 DEF TypeOK, ProjectTypeOK
  <1>8. Roll(p)' = Roll(p)
    <2>1. Electorate(p)' = Electorate(p)
      BY <1>1, <1>5, <1>7 DEF Electorate
    <2>2. \A b \in Accounts \ {a} : ballots'[p][b] = ballots[p][b]
      BY VoteReceipt
    <2> QED BY <1>1, <2>1, <2>2 DEF Roll, Voters
  <1>9. ASSUME NEW k \in ProposalIds \ {p}
        PROVE  Roll(k)' = Roll(k)
    <2>1. ballots'[k] = ballots[k]
      BY <1>2 DEF TypeOK
    <2> QED BY <1>1, <1>5, <1>7, <2>1, SameRoll
  <1>10. Rolls' = Rolls
    BY <1>8, <1>9 DEF Rolls, Roll
  <1>11. Phases[p] = "open" /\ a \in Rolls[p]
    BY <1>1 DEF Phases, PhaseOf, Rolls
  <1>12. ballots' = [ballots EXCEPT ![p][a] = ballots'[p][a]]
    <2> HIDE DEF r
    <2> QED BY <1>2, <1>3
  <1> QED BY <1>1, <1>3, <1>4, <1>6, <1>10, <1>11, <1>12 DEF Promise!Cast

\* The abstract specification adds up weights as the detailed one does.
LEMMA SumMapped == \A f, S : Promise!SumFunctionOnSet(f, S) = SumFunctionOnSet(f, S)
  BY DEF SumFunctionOnSet, FoldFunctionOnSet, MapThenFoldSet,
         Promise!SumFunctionOnSet, Promise!FoldFunctionOnSet, Promise!MapThenFoldSet

\* The vocabulary of the two specifications agrees on who approves what.
LEMMA MandateMapped ==
    ASSUME NEW p \in ProposalIds, Mandate(p)
    PROVE  Promise!HasMandate(p)
  <1>1. ASSUME NEW i
        PROVE  Promise!Weight(p, i) = BallotWeight(p, Choosing(p, i))
    BY SumMapped DEF Promise!Weight, BallotWeight, Choosing
  <1>2. Bindings[p]
    BY DEF Mandate, Bindings
  <1>3. \A i \in OptionIds \ {ApproveOptionIndex} :
          Promise!Weight(p, ApproveOptionIndex) > Promise!Weight(p, i)
    BY <1>1 DEF Mandate
  <1> QED BY <1>2, <1>3 DEF Promise!HasMandate

LEMMA TallyDecides ==
    ASSUME TypeOK, FormKept, TotalsMatchReceipts, NEW p \in ProposalIds, TallyProposal(p)
    PROVE  Promise!Decide(p)
  <1>1. /\ proposals[p].state = "active" /\ proposals'[p].state = Verdict(p)
        /\ \A k \in ProposalIds \ {p} : proposals'[k] = proposals[k]
        /\ \A k \in ProposalIds : /\ proposals'[k].isPoll = proposals[k].isPoll
                                  /\ proposals'[k].joinSnap = proposals[k].joinSnap
    BY DecidedTerms DEF Continues, SameTerms
  <1>2. Promise!Moves(p, "open", PhaseOf(Verdict(p)))
    BY <1>1, PhaseMoves DEF PhaseOf
  <1>3. members' = members /\ member' = member /\ ballots' = ballots
    BY DEF TallyProposal, VotingOver, memberVars, ballotVars
  <1>4. Bindings' = Bindings
    BY <1>1, BindingsStay
  <1>5. Rolls' = Rolls
    BY <1>1, <1>3, SameRoll DEF Rolls, Roll
  <1>6. CASE Verdict(p) = "passed"
    <2>1. Promise!HasMandate(p)
      BY <1>6, PassingHasMandate, MandateMapped
    <2>2. PhaseOf(Verdict(p)) = "passed"
      BY <1>6 DEF PhaseOf
    <2> QED BY <1>2, <1>3, <1>4, <1>5, <2>1, <2>2 DEF Promise!Decide
  <1>7. CASE Verdict(p) = "closed"
    <2>1. proposals[p].isPoll
      BY <1>7 DEF Verdict
    <2>2. PhaseOf(Verdict(p)) = "advised" /\ ~Bindings[p]
      BY <1>7, <2>1 DEF PhaseOf, Bindings
    <2> QED BY <1>2, <1>3, <1>4, <1>5, <2>2 DEF Promise!Decide
  <1>8. CASE Verdict(p) = "failed"
    <2>1. PhaseOf(Verdict(p)) = "rejected"
      BY <1>8 DEF PhaseOf
    <2> QED BY <1>2, <1>3, <1>4, <1>5, <2>1 DEF Promise!Decide
  <1> QED BY <1>6, <1>7, <1>8 DEF Verdict

LEMMA CancelWithdraws ==
    ASSUME TypeOK, NEW a \in Accounts, NEW p \in ProposalIds, CancelProposal(a, p)
    PROVE  Promise!Withdraw(p)
  <1>1. /\ proposals[p].state = "active" /\ proposals'[p].state = "cancelled"
        /\ \A k \in ProposalIds \ {p} : proposals'[k] = proposals[k]
        /\ \A k \in ProposalIds : /\ proposals'[k].isPoll = proposals[k].isPoll
                                  /\ proposals'[k].joinSnap = proposals[k].joinSnap
    BY CancelledTerms DEF Continues, SameTerms
  <1>2. Promise!Moves(p, "open", "withdrawn")
    BY <1>1, PhaseMoves DEF PhaseOf
  <1>3. members' = members /\ member' = member /\ ballots' = ballots
    BY DEF CancelProposal, memberVars, ballotVars
  <1>4. Bindings' = Bindings
    BY <1>1, BindingsStay
  <1>5. Rolls' = Rolls
    BY <1>1, <1>3, SameRoll DEF Rolls, Roll
  <1> QED BY <1>2, <1>3, <1>4, <1>5 DEF Promise!Withdraw

LEMMA ExecuteCarriesOut ==
    ASSUME Inv, [Next]_vars, NEW a \in Accounts, NEW p \in ProposalIds,
           NEW drawn \in Draws(proposals[p].outcome), ExecuteProposal(a, p, drawn)
    PROVE  Promise!CarryOut(p)
  <1>1. TypeOK
    BY DEF Inv
  <1>2. /\ proposals[p].state = "passed" /\ proposals'[p].state = "executed"
        /\ \A k \in ProposalIds \ {p} : proposals'[k] = proposals[k]
        /\ \A k \in ProposalIds : proposals'[k].isPoll = proposals[k].isPoll
    BY <1>1, ExecutedTerms DEF Continues, SameTerms
  <1>3. Promise!Moves(p, "passed", "done")
    BY <1>2, PhaseMoves DEF PhaseOf
  <1>4. ballots' = ballots
    BY DEF ExecuteProposal, ballotVars
  <1>5. Bindings' = Bindings
    BY <1>2, BindingsStay
  <1>6. Promise!Shrunk(Rolls')
    BY <1>2, RollsShrunk
  <1> QED BY <1>3, <1>4, <1>5, <1>6 DEF Promise!CarryOut

LEMMA ProjectDeparts ==
    ASSUME Inv, [Next]_vars, UNCHANGED governanceVars
    PROVE  Promise!Depart
  <1>1. proposals' = proposals /\ ballots' = ballots
    BY DEF governanceVars, ballotVars
  <1>2. Phases' = Phases /\ Bindings' = Bindings
    BY <1>1 DEF Phases, Bindings
  <1>3. Promise!Shrunk(Rolls')
    BY <1>1, RollsShrunk
  <1> QED BY <1>1, <1>2, <1>3 DEF Promise!Depart

-----------------------------------------------------------------------------
(* The refinement                                                          *)

LEMMA InitMapped == GovernanceInit => Promise!DecisionInit
  <1> SUFFICES ASSUME GovernanceInit PROVE Promise!DecisionInit
    OBVIOUS
  <1>1. \A p \in ProposalIds : proposals[p] = NoProposal
    BY DEF GovernanceInit
  <1>2. Phases = [p \in ProposalIds |-> "none"] /\ Bindings = [p \in ProposalIds |-> TRUE]
    <2>1. \A p \in ProposalIds : proposals[p].state = "none" /\ ~proposals[p].isPoll
      BY <1>1 DEF NoProposal
    <2>2. PhaseOf("none") = "none"
      BY DEF PhaseOf
    <2>3. Phases = [p \in ProposalIds |-> "none"]
      BY <2>1, <2>2 DEF Phases
    <2>4. Bindings = [p \in ProposalIds |-> TRUE]
      BY <2>1 DEF Bindings
    <2> QED BY <2>3, <2>4
  <1>3. \A p \in ProposalIds : Roll(p) = {}
    <2>1. TypeOK /\ ElectorateInv
      BY InvInit DEF Inv
    <2> QED BY <1>1, <2>1, UnusedRolls DEF NoneOnRoll, NoProposal
  <1>4. Rolls = [p \in ProposalIds |-> {}]
    BY <1>3 DEF Rolls, Roll
  <1>5. ballots = [p \in ProposalIds |-> Promise!EmptyBox]
    BY DEF GovernanceInit, NoBallot, Promise!EmptyBox, Promise!NoReceipt
  <1> QED BY <1>2, <1>4, <1>5 DEF Promise!DecisionInit

LEMMA StepMapped ==
    ASSUME Inv, FormKept, TotalsMatchReceipts, [Next]_vars
    PROVE  [Promise!DecisionNext]_Promise!decisionVars
  <1>1. TypeOK
    BY DEF Inv
  <1>2. ASSUME NEW a \in Proposers, NEW o \in Outcomes, NEW form \in Forms,
               NEW d \in Durations, CreateProposal(a, o, form, d)
        PROVE  Promise!DecisionNext
    BY <1>1, <1>2, CreateSubmits DEF Promise!DecisionNext
  <1>3. ASSUME NEW a \in Accounts, NEW p \in ProposalIds, NEW choices \in ChoiceSets,
               VoteProposal(a, p, choices)
        PROVE  Promise!DecisionNext
    BY <1>1, <1>3, VoteCasts DEF Promise!DecisionNext
  <1>4. ASSUME NEW p \in ProposalIds, TallyProposal(p)
        PROVE  Promise!DecisionNext
    BY <1>1, <1>4, TallyDecides DEF Promise!DecisionNext
  <1>5. ASSUME NEW a \in Accounts, NEW p \in ProposalIds, CancelProposal(a, p)
        PROVE  Promise!DecisionNext
    BY <1>1, <1>5, CancelWithdraws DEF Promise!DecisionNext
  <1>6. ASSUME NEW a \in Accounts, NEW p \in ProposalIds,
               NEW drawn \in Draws(proposals[p].outcome), ExecuteProposal(a, p, drawn)
        PROVE  Promise!DecisionNext
    BY <1>6, ExecuteCarriesOut DEF Promise!DecisionNext
  <1>7. CASE UNCHANGED governanceVars
    BY <1>7, ProjectDeparts DEF Promise!DecisionNext
  <1>8. CASE GovernanceNext
    BY <1>2, <1>3, <1>4, <1>5, <1>6, <1>8 DEF GovernanceNext
  <1> QED BY <1>7, <1>8 DEF Next, vars

\* Governance implements Decisions: every history of calls, of any length and
\* among any number of members, keeps the promise made about proposals.
THEOREM Refinement == Spec => ImplementsDecisions
  <1>1. Inv /\ TotalsMatchReceipts /\ FormKept /\ [Next]_vars => FormKept'
    BY FormStep DEF Inv
  <1>2. Inv /\ TotalsMatchReceipts /\ FormKept /\ [Next]_vars
          => [Promise!DecisionNext]_Promise!decisionVars
    BY StepMapped
  <1> QED
    BY <1>1, <1>2, InitMapped, FormInit, Invariance, TotalsSafe, PTL
    DEF Spec, ImplementsDecisions, Promise!DecisionSpec
=============================================================================
