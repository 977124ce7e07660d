---------------------------- MODULE BallotSafety ----------------------------
(***************************************************************************)
(* Safety of the ballots, for every value of the constants: the running    *)
(* totals are those of the receipts, a passed proposal was approved by     *)
(* them, the ballots stay within the snapshot they are measured by, and a  *)
(* ballot is backed by stake until the deadline.                           *)
(***************************************************************************)
EXTENDS GovernanceSafety

-----------------------------------------------------------------------------
(* What a step does to one proposal                                        *)

\* The terms of a proposal, fixed when it is created.
SameTerms(p) ==
    /\ proposals'[p].createdAt = proposals[p].createdAt
    /\ proposals'[p].duration = proposals[p].duration
    /\ proposals'[p].isPoll = proposals[p].isPoll
    /\ proposals'[p].optionCount = proposals[p].optionCount
    /\ proposals'[p].memberSnap = proposals[p].memberSnap
    /\ proposals'[p].stakeSnap = proposals[p].stakeSnap
    /\ proposals'[p].joinSnap = proposals[p].joinSnap

\* A proposal that exists stays one, on the same terms.
Continues(p) ==
    /\ proposals[p].state # "none" /\ proposals'[p].state # "none"
    /\ SameTerms(p)

LEMMA SameProposal ==
    ASSUME NEW p \in ProposalIds, proposals'[p] = proposals[p]
    PROVE  SameTerms(p) /\ proposals'[p].voterCount = proposals[p].voterCount
  BY DEF SameTerms

LEMMA DecidedTerms ==
    ASSUME TypeOK, NEW p \in ProposalIds, TallyProposal(p), NEW k \in ProposalIds
    PROVE  /\ proposals'[k] = proposals[k] \/ Continues(k)
           /\ proposals'[k].voterCount = proposals[k].voterCount
           /\ k # p => proposals'[k] = proposals[k]
           /\ proposals[p].state = "active" /\ proposals'[p].state = Verdict(p)
  <1> DEFINE q == proposals[p]
             v == Verdict(p)
             n == IF Carried(p) THEN Winner(p) ELSE q.result
             t == IF v = "passed" THEN ReadyNow(q) ELSE 0
  <1>1. q.state = "active" /\ q \in Proposal
    BY DEF TallyProposal, VotingOver, TypeOK
  <1>2. proposals' = [proposals EXCEPT ![p] = Decided(q, p)]
    BY DEF TallyProposal, VotingOver
  <1>3. Decided(q, p) = [q EXCEPT !.state = v, !.result = n, !.executableAt = t]
    BY DEF Decided
  <1>4. v # "none"
    BY DecidedTyped
  <1> HIDE DEF q, v, n, t
  <1>5. /\ proposals'[p] = [q EXCEPT !.state = v, !.result = n, !.executableAt = t]
        /\ \A j \in ProposalIds \ {p} : proposals'[j] = proposals[j]
    BY <1>2, <1>3 DEF TypeOK
  <1>6. /\ proposals'[p].state = v
        /\ proposals'[p].voterCount = q.voterCount
        /\ proposals'[p].createdAt = q.createdAt
        /\ proposals'[p].duration = q.duration
        /\ proposals'[p].isPoll = q.isPoll
        /\ proposals'[p].optionCount = q.optionCount
        /\ proposals'[p].memberSnap = q.memberSnap
        /\ proposals'[p].stakeSnap = q.stakeSnap
        /\ proposals'[p].joinSnap = q.joinSnap
    BY <1>1, <1>5 DEF Proposal
  <1> QED
    BY <1>1, <1>4, <1>5, <1>6 DEF Continues, SameTerms, q, v

LEMMA CancelledTerms ==
    ASSUME TypeOK, NEW a \in Accounts, NEW p \in ProposalIds, CancelProposal(a, p),
           NEW k \in ProposalIds
    PROVE  /\ proposals'[k] = proposals[k] \/ Continues(k)
           /\ proposals'[k].voterCount = proposals[k].voterCount
           /\ k # p => proposals'[k] = proposals[k]
           /\ proposals[p].state = "active" /\ proposals'[p].state = "cancelled"
  <1> DEFINE q == proposals[p]
  <1>1. q.state = "active" /\ q \in Proposal
    BY DEF CancelProposal, TypeOK
  <1>2. proposals' = [proposals EXCEPT ![p] = Cancelled(q)]
    BY DEF CancelProposal
  <1> HIDE DEF q
  <1>3. proposals'[p] = Cancelled(q) /\ \A j \in ProposalIds \ {p} : proposals'[j] = proposals[j]
    BY <1>2 DEF TypeOK
  <1>4. /\ proposals'[p].state = "cancelled"
        /\ proposals'[p].voterCount = q.voterCount
        /\ proposals'[p].createdAt = q.createdAt
        /\ proposals'[p].duration = q.duration
        /\ proposals'[p].isPoll = q.isPoll
        /\ proposals'[p].optionCount = q.optionCount
        /\ proposals'[p].memberSnap = q.memberSnap
        /\ proposals'[p].stakeSnap = q.stakeSnap
        /\ proposals'[p].joinSnap = q.joinSnap
    BY <1>1, <1>3 DEF Proposal, Cancelled
  <1> QED
    BY <1>1, <1>3, <1>4 DEF Continues, SameTerms, q

LEMMA ExecutedTerms ==
    ASSUME TypeOK, NEW a \in Accounts, NEW p \in ProposalIds,
           NEW drawn \in Draws(proposals[p].outcome), ExecuteProposal(a, p, drawn),
           NEW k \in ProposalIds
    PROVE  /\ proposals'[k] = proposals[k] \/ Continues(k)
           /\ proposals'[k].voterCount = proposals[k].voterCount
           /\ k # p => proposals'[k] = proposals[k]
           /\ proposals[p].state = "passed" /\ proposals'[p].state = "executed"
  <1> DEFINE q == proposals[p]
  <1>1. q.state = "passed" /\ q \in Proposal
    BY DEF ExecuteProposal, Executable, TypeOK
  <1>2. proposals' = [proposals EXCEPT ![p].state = "executed"]
    BY DEF ExecuteProposal
  <1>3. /\ proposals'[p] = [q EXCEPT !.state = "executed"]
        /\ \A j \in ProposalIds \ {p} : proposals'[j] = proposals[j]
    BY <1>2 DEF TypeOK
  <1>4. /\ proposals'[p].state = "executed"
        /\ proposals'[p].voterCount = q.voterCount
        /\ proposals'[p].createdAt = q.createdAt
        /\ proposals'[p].duration = q.duration
        /\ proposals'[p].isPoll = q.isPoll
        /\ proposals'[p].optionCount = q.optionCount
        /\ proposals'[p].memberSnap = q.memberSnap
        /\ proposals'[p].stakeSnap = q.stakeSnap
        /\ proposals'[p].joinSnap = q.joinSnap
    BY <1>1, <1>3 DEF Proposal
  <1> QED
    BY <1>1, <1>3, <1>4 DEF Continues, SameTerms

LEMMA VoteTerms ==
    ASSUME TypeOK, NEW a \in Accounts, NEW p \in ProposalIds, NEW choices \in ChoiceSets,
           VoteProposal(a, p, choices), NEW k \in ProposalIds
    PROVE  /\ proposals'[k] = proposals[k] \/ Continues(k)
           /\ k # p => proposals'[k] = proposals[k]
           /\ proposals'[k].state = proposals[k].state
           /\ proposals'[k].voterCount = proposals[k].voterCount
                + (IF k = p /\ ballots[p][a].choices = {} THEN 1 ELSE 0)
  <1> DEFINE q == proposals[p]
  <1>1. q.state = "active" /\ q \in Proposal
    BY DEF VoteProposal, TakesVotes, TypeOK
  <1>2. \A j \in ProposalIds : proposals[j].voterCount \in Nat
    BY DEF TypeOK, Proposal
  <1>3. CASE ballots[p][a].choices # {}
    <2>1. proposals' = proposals
      BY <1>3 DEF VoteProposal, TakesVotes
    <2> QED BY <1>2, <1>3, <2>1
  <1>4. CASE ballots[p][a].choices = {}
    <2>1. proposals' = [proposals EXCEPT ![p].voterCount = @ + 1]
      BY <1>4 DEF VoteProposal, TakesVotes
    <2>2. /\ proposals'[p] = [q EXCEPT !.voterCount = @ + 1]
          /\ \A j \in ProposalIds \ {p} : proposals'[j] = proposals[j]
      BY <2>1 DEF TypeOK
    <2>3. /\ proposals'[p].state = "active"
          /\ proposals'[p].voterCount = q.voterCount + 1
          /\ proposals'[p].createdAt = q.createdAt
          /\ proposals'[p].duration = q.duration
          /\ proposals'[p].isPoll = q.isPoll
          /\ proposals'[p].optionCount = q.optionCount
          /\ proposals'[p].memberSnap = q.memberSnap
          /\ proposals'[p].stakeSnap = q.stakeSnap
          /\ proposals'[p].joinSnap = q.joinSnap
      BY <1>1, <2>2 DEF Proposal
    <2>4. Continues(p)
      BY <1>1, <2>3 DEF Continues, SameTerms
    <2>5. CASE k = p
      BY <1>1, <1>4, <2>3, <2>4, <2>5
    <2>6. CASE k # p
      BY <1>2, <2>2, <2>6
    <2> QED BY <2>5, <2>6
  <1> QED BY <1>3, <1>4

LEMMA CreateTerms ==
    ASSUME TypeOK, NEW a \in Proposers, NEW o \in Outcomes, NEW form \in Forms,
           NEW d \in Durations, CreateProposal(a, o, form, d)
    PROVE  /\ proposalCount \in ProposalIds /\ proposals[proposalCount].state = "none"
           /\ proposals'[proposalCount] = NewProposal(a, o, form, d)
           /\ \A k \in ProposalIds \ {proposalCount} : proposals'[k] = proposals[k]
  <1>1. proposalCount \in ProposalIds
    BY GovernanceConstants DEF GovernanceConstants, CreateProposal, TypeOK, ProposalIds
  <1>2. proposals[proposalCount].state = "none"
    BY <1>1, GovernanceConstants DEF GovernanceConstants, TypeOK, ProposalIds
  <1> DEFINE q == NewProposal(a, o, form, d)
  <1>3. proposals' = [proposals EXCEPT ![proposalCount] = q]
    BY DEF CreateProposal
  <1> HIDE DEF q
  <1>4. /\ proposals'[proposalCount] = q
        /\ \A k \in ProposalIds \ {proposalCount} : proposals'[k] = proposals[k]
    BY <1>1, <1>3 DEF TypeOK
  <1> QED BY <1>1, <1>2, <1>4 DEF q

\* One ballot replaces one receipt, and the totals of one proposal.
LEMMA VoteReceipt ==
    ASSUME TypeOK, NEW a \in Accounts, NEW p \in ProposalIds, NEW choices \in ChoiceSets,
           VoteProposal(a, p, choices)
    PROVE  LET w == VoteWeight(a, proposals[p]) IN
           /\ w \in Nat /\ choices \in SUBSET OptionIds /\ choices # {}
           /\ ballots'[p][a] = [choices |-> choices, weight |-> w]
           /\ \A b \in Accounts \ {a} : ballots'[p][b] = ballots[p][b]
           /\ \A k \in ProposalIds \ {p} : ballots'[k] = ballots[k] /\ options'[k] = options[k]
           /\ \A i \in OptionIds :
                options'[p][i] = Recount(options[p][i], i, ballots[p][a], choices, w)
  <1> DEFINE w == VoteWeight(a, proposals[p])
             prev == ballots[p][a]
             row == [i \in OptionIds |-> Recount(options[p][i], i, prev, choices, w)]
  <1>1. w \in Nat
    BY VoteWeightTyped
  <1>2. choices \in SUBSET OptionIds /\ choices # {}
    BY GovernanceConstants DEF GovernanceConstants, VoteProposal
  <1>3. /\ ballots' = [ballots EXCEPT ![p][a] = [choices |-> choices, weight |-> w]]
        /\ options' = [options EXCEPT ![p] = row]
    BY DEF VoteProposal
  <1>4. /\ ballots'[p][a] = [choices |-> choices, weight |-> w]
        /\ \A b \in Accounts \ {a} : ballots'[p][b] = ballots[p][b]
        /\ \A k \in ProposalIds \ {p} : ballots'[k] = ballots[k]
    <2> HIDE DEF w
    <2> QED BY <1>3 DEF TypeOK
  <1>5. options'[p] = row /\ \A k \in ProposalIds \ {p} : options'[k] = options[k]
    <2> HIDE DEF row
    <2> QED BY <1>3 DEF TypeOK
  <1> QED BY <1>1, <1>2, <1>4, <1>5

\* Steps that are no ballot leave the receipts and the totals alone.
LEMMA BallotsSealed ==
    ASSUME [Next]_vars,
           ~ \E a \in Accounts, p \in ProposalIds, choices \in ChoiceSets :
                VoteProposal(a, p, choices)
    PROVE  options' = options /\ ballots' = ballots
  BY DEF Next, GovernanceNext, CreateProposal, TallyProposal, VotingOver, ExecuteProposal,
         CancelProposal, vars, governanceVars, ballotVars

\* Every step continues a proposal, leaves it as it is, or creates it.
LEMMA ProposalStep ==
    ASSUME TypeOK, [Next]_vars, NEW p \in ProposalIds
    PROVE  \/ proposals'[p] = proposals[p]
           \/ Continues(p)
           \/ /\ p = proposalCount /\ proposals[p].state = "none"
              /\ \E a \in Proposers, o \in Outcomes, form \in Forms, d \in Durations :
                    /\ CreateProposal(a, o, form, d)
                    /\ proposals'[p] = NewProposal(a, o, form, d)
  <1>1. ASSUME proposals' = proposals
        PROVE  proposals'[p] = proposals[p]
    BY <1>1
  <1>2. ASSUME NEW a \in Proposers, NEW o \in Outcomes, NEW form \in Forms,
               NEW d \in Durations, CreateProposal(a, o, form, d), p # proposalCount
        PROVE  proposals'[p] = proposals[p]
    BY <1>2, CreateTerms
  <1>3. ASSUME NEW a \in Proposers, NEW o \in Outcomes, NEW form \in Forms,
               NEW d \in Durations, CreateProposal(a, o, form, d), p = proposalCount
        PROVE  proposals[p].state = "none" /\ proposals'[p] = NewProposal(a, o, form, d)
    BY <1>3, CreateTerms
  <1>4. CASE GovernanceNext
    BY <1>2, <1>3, <1>4, VoteTerms, DecidedTerms, CancelledTerms, ExecutedTerms
    DEF GovernanceNext
  <1> QED BY <1>1, <1>4 DEF Next, vars, governanceVars

-----------------------------------------------------------------------------
(* Totals and receipts                                                     *)

Weighed(p) == [b \in Accounts |-> ballots[p][b].weight]

\* The totals of one option are those of the receipts that chose it.
OptionMatches(p, i) ==
    /\ options[p][i].weight = SumFunctionOnSet(Weighed(p), Choosing(p, i))
    /\ options[p][i].voters = Cardinality(Choosing(p, i))

LEMMA TotalsByOption ==
    TotalsMatchReceipts <=>
        \A p \in ProposalIds : /\ proposals[p].voterCount = Cardinality(Voters(p))
                               /\ \A i \in OptionIds : OptionMatches(p, i)
  BY DEF TotalsMatchReceipts, OptionMatches, Weighed, BallotWeight

LEMMA BallotsFinite ==
    ASSUME TypeOK, NEW p \in ProposalIds
    PROVE  /\ \A b \in Accounts : Weighed(p)[b] \in Nat
           /\ \A S \in SUBSET Accounts : IsFiniteSet(S) /\ Cardinality(S) \in Nat
           /\ \A i : Choosing(p, i) \in SUBSET Accounts
           /\ Voters(p) \in SUBSET Accounts
  BY SetOfMembersFinite DEF Weighed, TypeOK, Choosing, Voters

\* The totals without one account's receipt, if it chose option i.
LEMMA OptionWithout ==
    ASSUME TypeOK, NEW p \in ProposalIds, NEW i \in OptionIds, OptionMatches(p, i),
           NEW a \in Accounts, NEW choices \in SUBSET OptionIds, NEW w \in Nat
    PROVE  LET rest == Choosing(p, i) \ {a}
               W == SumFunctionOnSet(Weighed(p), rest)
               n == Cardinality(rest)
           IN  Recount(options[p][i], i, ballots[p][a], choices, w) =
                 IF i \in choices THEN [weight |-> W + w, voters |-> n + 1]
                                  ELSE [weight |-> W, voters |-> n]
  <1> DEFINE f == Weighed(p)
             C == Choosing(p, i)
             rest == C \ {a}
             W == SumFunctionOnSet(f, rest)
             n == Cardinality(rest)
             t == options[p][i]
             v == ballots[p][a].weight
             less == IF i \notin ballots[p][a].choices THEN t
                     ELSE [weight |-> IF t.weight > v THEN t.weight - v ELSE 0,
                           voters |-> IF t.voters > 0 THEN t.voters - 1 ELSE 0]
  <1>1. t \in Totals /\ t.weight = SumFunctionOnSet(f, C) /\ t.voters = Cardinality(C)
    BY DEF OptionMatches, TypeOK, Totals
  <1>2. /\ IsFiniteSet(C) /\ IsFiniteSet(rest) /\ rest \subseteq C /\ C \subseteq Accounts
        /\ \A b \in Accounts : f[b] \in Nat
    BY BallotsFinite, FS_RemoveElement
  <1>3. W \in Nat /\ n \in Nat
    <2> HIDE DEF f, C
    <2> QED BY <1>2, SumIsNat, FS_CardinalityType
  <1>4. f[a] = v /\ (a \in C <=> i \in ballots[p][a].choices)
    BY DEF Weighed, Choosing
  <1>5. v \in Nat
    BY <1>2, <1>4
  <1>6. less = [weight |-> W, voters |-> n]
    <2>1. CASE a \in C
      <3>1. t.weight = f[a] + W
        <4> HIDE DEF f, C, t
        <4> QED BY <1>1, <1>2, <2>1, SumWithout
      <3>2. t.voters = n + 1
        <4>1. Cardinality(C \ {a}) = Cardinality(C) - 1 /\ Cardinality(C) \in Nat
          <5> HIDE DEF C
          <5> QED BY <1>2, <2>1, FS_RemoveElement, FS_CardinalityType
        <4> HIDE DEF C, t
        <4> QED BY <1>1, <4>1
      <3> HIDE DEF W, n, t, v, C, f
      <3>3. /\ (IF t.weight > v THEN t.weight - v ELSE 0) = W
            /\ (IF t.voters > 0 THEN t.voters - 1 ELSE 0) = n
        BY <1>3, <1>4, <1>5, <3>1, <3>2
      <3> QED BY <1>4, <2>1, <3>3
    <2>2. CASE a \notin C
      <3>1. rest = C
        <4> HIDE DEF C
        <4> QED BY <2>2
      <3>2. t.weight = W /\ t.voters = n
        <4> HIDE DEF C, f, t
        <4> QED BY <1>1, <3>1
      <3> HIDE DEF W, n, t, C, f
      <3>3. t = [weight |-> W, voters |-> n]
        BY <1>1, <3>2 DEF Totals
      <3> QED BY <1>4, <2>2, <3>3
    <2> QED BY <2>1, <2>2
  <1>7. Recount(options[p][i], i, ballots[p][a], choices, w) =
          IF i \notin choices THEN less
          ELSE [weight |-> less.weight + w, voters |-> less.voters + 1]
    BY DEF Recount
  <1> HIDE DEF less, W, n
  <1>8. Recount(options[p][i], i, ballots[p][a], choices, w) =
          IF i \in choices THEN [weight |-> W + w, voters |-> n + 1]
                           ELSE [weight |-> W, voters |-> n]
    BY <1>6, <1>7
  <1> QED BY <1>8 DEF W, n

\* A first ballot, a changed ballot and a ballot for several options all leave
\* the totals those of the receipts.
LEMMA VoteTotals ==
    ASSUME TypeOK, TypeOK', TotalsMatchReceipts, NEW a \in Accounts, NEW p \in ProposalIds,
           NEW choices \in ChoiceSets, VoteProposal(a, p, choices)
    PROVE  TotalsMatchReceipts'
  <1> DEFINE w == VoteWeight(a, proposals[p])
  <1>1. /\ w \in Nat /\ choices \in SUBSET OptionIds /\ choices # {}
        /\ ballots'[p][a] = [choices |-> choices, weight |-> w]
        /\ \A b \in Accounts \ {a} : ballots'[p][b] = ballots[p][b]
        /\ \A k \in ProposalIds \ {p} : ballots'[k] = ballots[k] /\ options'[k] = options[k]
        /\ \A i \in OptionIds :
             options'[p][i] = Recount(options[p][i], i, ballots[p][a], choices, w)
    BY VoteReceipt
  <1> HIDE DEF w
  <1>2. ASSUME NEW i \in OptionIds
        PROVE  OptionMatches(p, i)'
    <2> DEFINE rest == Choosing(p, i) \ {a}
               W == SumFunctionOnSet(Weighed(p), rest)
               n == Cardinality(rest)
    <2>1. OptionMatches(p, i)
      BY TotalsByOption
    <2>2. options'[p][i] = IF i \in choices THEN [weight |-> W + w, voters |-> n + 1]
                                            ELSE [weight |-> W, voters |-> n]
      <3>1. Recount(options[p][i], i, ballots[p][a], choices, w) =
              IF i \in choices THEN [weight |-> W + w, voters |-> n + 1]
                               ELSE [weight |-> W, voters |-> n]
        BY <1>1, <2>1, OptionWithout
      <3> HIDE DEF W, n
      <3> QED BY <1>1, <3>1
    <2>3. /\ Choosing(p, i)' = IF i \in choices THEN rest \cup {a} ELSE rest
          /\ a \notin rest
      BY <1>1 DEF Choosing
    <2>4. /\ IsFiniteSet(rest) /\ rest \subseteq Accounts
          /\ \A b \in Accounts : Weighed(p)[b] \in Nat /\ (Weighed(p)')[b] \in Nat
          /\ \A b \in rest : Weighed(p)[b] = (Weighed(p)')[b]
          /\ (Weighed(p)')[a] = w
      <3>1. rest \in SUBSET Accounts
        BY BallotsFinite
      <3>2. \A b \in Accounts : Weighed(p)[b] \in Nat /\ (Weighed(p)')[b] \in Nat
        <4>1. \A b \in Accounts : ballots'[p][b].weight \in Nat
          BY DEF TypeOK
        <4> QED BY <4>1, BallotsFinite DEF Weighed
      <3> QED BY <1>1, <3>1, <3>2, BallotsFinite DEF Weighed
    <2> DEFINE g == Weighed(p)'
    <2>5. SumFunctionOnSet(g, rest) = W
      <3> HIDE DEF rest, g
      <3> QED BY <2>4, SumOfEqual DEF g
    <2>6. SumFunctionOnSet(g, rest \cup {a}) = W + w
      <3> HIDE DEF rest, g, W
      <3>1. \A b \in rest \cup {a} : g[b] \in Nat
        BY <2>4 DEF g
      <3>2. SumFunctionOnSet(g, rest \cup {a}) = SumFunctionOnSet(g, rest) + g[a]
        BY <2>3, <2>4, <3>1, SumWith
      <3> QED BY <2>4, <2>5, <3>2 DEF g
    <2>7. Cardinality(rest \cup {a}) = n + 1
      <3> HIDE DEF rest
      <3> QED BY <2>3, <2>4, FS_AddElement
    <2> HIDE DEF rest, W, n
    <2>8. CASE i \in choices
      <3>1. Choosing(p, i)' = rest \cup {a}
        BY <2>3, <2>8
      <3>2. options'[p][i].weight = W + w /\ options'[p][i].voters = n + 1
        BY <2>2, <2>8
      <3> QED BY <2>6, <2>7, <3>1, <3>2 DEF OptionMatches
    <2>9. CASE i \notin choices
      <3>1. Choosing(p, i)' = rest
        BY <2>3, <2>9
      <3>2. options'[p][i].weight = W /\ options'[p][i].voters = n
        BY <2>2, <2>9
      <3> QED BY <2>5, <3>1, <3>2 DEF OptionMatches, n
    <2> QED BY <2>8, <2>9
  <1>3. proposals'[p].voterCount = Cardinality(Voters(p)')
    <2>1. Voters(p)' = Voters(p) \cup {a}
      BY <1>1 DEF Voters
    <2>2. proposals[p].voterCount = Cardinality(Voters(p)) /\ IsFiniteSet(Voters(p))
      BY BallotsFinite DEF TotalsMatchReceipts
    <2>3. /\ proposals'[p].voterCount = proposals[p].voterCount
                + (IF ballots[p][a].choices = {} THEN 1 ELSE 0)
          /\ proposals[p].voterCount \in Nat
      BY VoteTerms DEF TypeOK, Proposal
    <2>4. a \in Voters(p) <=> ballots[p][a].choices # {}
      BY DEF Voters
    <2>5. CASE a \in Voters(p)
      <3>1. Voters(p)' = Voters(p)
        BY <2>1, <2>5
      <3> QED BY <2>2, <2>3, <2>4, <2>5, <3>1
    <2>6. CASE a \notin Voters(p)
      <3>1. Cardinality(Voters(p) \cup {a}) = Cardinality(Voters(p)) + 1
        BY <2>2, <2>6, FS_AddElement
      <3> QED BY <2>1, <2>2, <2>3, <2>4, <2>6, <3>1
    <2> QED BY <2>5, <2>6
  <1>4. ASSUME NEW k \in ProposalIds, k # p
        PROVE  /\ proposals'[k].voterCount = Cardinality(Voters(k)')
               /\ \A i \in OptionIds : OptionMatches(k, i)'
    <2>1. /\ ballots'[k] = ballots[k] /\ options'[k] = options[k]
          /\ proposals'[k] = proposals[k]
      BY <1>1, <1>4, VoteTerms
    <2>2. /\ proposals[k].voterCount = Cardinality(Voters(k))
          /\ \A i \in OptionIds : OptionMatches(k, i)
      BY TotalsByOption
    <2>3. Voters(k)' = Voters(k) /\ Weighed(k)' = Weighed(k)
            /\ \A i \in OptionIds : Choosing(k, i)' = Choosing(k, i)
      BY <2>1 DEF Voters, Weighed, Choosing
    <2> QED BY <2>1, <2>2, <2>3 DEF OptionMatches
  <1>5. \A k \in ProposalIds : /\ proposals'[k].voterCount = Cardinality(Voters(k)')
                               /\ \A i \in OptionIds : OptionMatches(k, i)'
    BY <1>2, <1>3, <1>4
  <1> QED
    BY <1>5 DEF TotalsMatchReceipts, OptionMatches, Weighed, BallotWeight

LEMMA TotalsInit == GovernanceInit => TotalsMatchReceipts
  <1> SUFFICES ASSUME GovernanceInit, NEW p \in ProposalIds
               PROVE  /\ proposals[p].voterCount = Cardinality(Voters(p))
                      /\ \A i \in OptionIds : OptionMatches(p, i)
    BY TotalsByOption
  <1>1. Voters(p) = {} /\ \A i \in OptionIds : Choosing(p, i) = {}
    BY DEF GovernanceInit, NoBallot, Voters, Choosing
  <1>2. proposals[p].voterCount = 0
    BY DEF GovernanceInit, NoProposal
  <1>3. \A i \in OptionIds : options[p][i].weight = 0 /\ options[p][i].voters = 0
    BY DEF GovernanceInit, NoTotals
  <1> QED
    BY <1>1, <1>2, <1>3, SumOfNone, FS_EmptySet DEF OptionMatches

LEMMA TotalsStep ==
    ASSUME Inv, TotalsMatchReceipts, [Next]_vars
    PROVE  TotalsMatchReceipts'
  <1>1. TypeOK /\ TypeOK' /\ ElectorateInv
    BY StepTyped DEF Inv
  <1>2. ASSUME NEW a \in Accounts, NEW p \in ProposalIds, NEW choices \in ChoiceSets,
               VoteProposal(a, p, choices)
        PROVE  TotalsMatchReceipts'
    BY <1>1, <1>2, VoteTotals
  <1>3. ASSUME ballots' = ballots, options' = options,
               \A p \in ProposalIds : proposals'[p].voterCount = proposals[p].voterCount
        PROVE  TotalsMatchReceipts'
    <2>1. \A p \in ProposalIds : Voters(p)' = Voters(p)
      BY <1>3 DEF Voters
    <2>2. \A p \in ProposalIds, i \in OptionIds : Choosing(p, i)' = Choosing(p, i)
      BY <1>3 DEF Choosing
    <2>3. \A p \in ProposalIds : Weighed(p)' = Weighed(p)
      BY <1>3 DEF Weighed
    <2>4. ASSUME NEW p \in ProposalIds
          PROVE  /\ proposals'[p].voterCount = Cardinality(Voters(p)')
                 /\ \A i \in OptionIds : OptionMatches(p, i)'
      <3>1. /\ proposals[p].voterCount = Cardinality(Voters(p))
            /\ \A i \in OptionIds : OptionMatches(p, i)
        BY TotalsByOption
      <3> QED BY <1>3, <2>1, <2>2, <2>3, <3>1 DEF OptionMatches
    <2> QED BY <2>4 DEF TotalsMatchReceipts, OptionMatches, Weighed, BallotWeight
  <1>4. ASSUME NEW a \in Proposers, NEW o \in Outcomes, NEW form \in Forms,
               NEW d \in Durations, CreateProposal(a, o, form, d)
        PROVE  TotalsMatchReceipts'
    <2> DEFINE p == proposalCount
    <2>1. /\ p \in ProposalIds
          /\ proposals'[p] = NewProposal(a, o, form, d)
          /\ \A k \in ProposalIds \ {p} : proposals'[k] = proposals[k]
      BY <1>1, <1>4, CreateTerms
    <2>2. NewProposal(a, o, form, d).voterCount = 0
      BY DEF NewProposal
    <2>3. proposals[p].voterCount = 0
      <3>1. Voters(p) = {}
        BY <1>1, <2>1 DEF ElectorateInv, ProposalIds
      <3> QED BY <2>1, <3>1, FS_EmptySet DEF TotalsMatchReceipts
    <2>4. ballots' = ballots /\ options' = options
      BY <1>4 DEF CreateProposal, ballotVars
    <2>5. \A k \in ProposalIds : proposals'[k].voterCount = proposals[k].voterCount
      BY <2>1, <2>2, <2>3
    <2> QED BY <1>3, <2>4, <2>5
  <1>5. ASSUME NEW a \in Accounts, NEW p \in ProposalIds,
               \/ \E drawn \in Draws(proposals[p].outcome) : ExecuteProposal(a, p, drawn)
               \/ CancelProposal(a, p)
               \/ TallyProposal(p)
        PROVE  TotalsMatchReceipts'
    <2>1. ballots' = ballots /\ options' = options
      BY <1>5 DEF ExecuteProposal, CancelProposal, TallyProposal, VotingOver, ballotVars
    <2>2. \A k \in ProposalIds : proposals'[k].voterCount = proposals[k].voterCount
      BY <1>1, <1>5, ExecutedTerms, CancelledTerms, DecidedTerms
    <2> QED BY <1>3, <2>1, <2>2
  <1>6. CASE UNCHANGED governanceVars
    BY <1>3, <1>6 DEF governanceVars, ballotVars
  <1>7. Accounts # {}
    BY ProjectConstants DEF ProjectConstants
  <1> QED
    BY <1>2, <1>4, <1>5, <1>6, <1>7 DEF Next, GovernanceNext, vars

\* The totals every tally reads are the totals of the stored receipts, for any
\* number of voters, options and changed ballots.
THEOREM TotalsSafe == Spec => []TotalsMatchReceipts
  <1>1. Inv /\ TotalsMatchReceipts /\ [Next]_vars => TotalsMatchReceipts'
    BY TotalsStep
  <1> QED BY <1>1, TotalsInit, Invariance, PTL DEF Spec

-----------------------------------------------------------------------------
(* A passed proposal was approved                                          *)

\* What passes is a [no, yes] ballot, and a receipt chooses options there are.
FormKept ==
    \A p \in ProposalIds :
        /\ proposals[p].isPoll \/ proposals[p].optionCount \in {0, 2}
        /\ \A a \in Accounts : ballots[p][a].choices \subseteq 0 .. proposals[p].optionCount - 1

\* The receipts approve p more than anything else, and p is no poll.
Mandate(p) ==
    /\ ~proposals[p].isPoll
    /\ \A i \in OptionIds \ {ApproveOptionIndex} :
         BallotWeight(p, Choosing(p, ApproveOptionIndex)) > BallotWeight(p, Choosing(p, i))

LEMMA FormInit == GovernanceInit => FormKept
  BY DEF GovernanceInit, NoProposal, NoBallot, FormKept

LEMMA FormStep ==
    ASSUME TypeOK, ElectorateInv, FormKept, [Next]_vars
    PROVE  FormKept'
  <1> SUFFICES ASSUME NEW p \in ProposalIds
               PROVE  /\ proposals'[p].isPoll \/ proposals'[p].optionCount \in {0, 2}
                      /\ \A b \in Accounts :
                           ballots'[p][b].choices \subseteq 0 .. proposals'[p].optionCount - 1
    BY DEF FormKept
  <1>1. /\ proposals[p].isPoll \/ proposals[p].optionCount \in {0, 2}
        /\ \A b \in Accounts : ballots[p][b].choices \subseteq 0 .. proposals[p].optionCount - 1
    BY DEF FormKept
  <1>2. ASSUME NEW a \in Accounts, NEW k \in ProposalIds, NEW choices \in ChoiceSets,
               VoteProposal(a, k, choices)
        PROVE  /\ proposals'[p].isPoll \/ proposals'[p].optionCount \in {0, 2}
               /\ \A b \in Accounts :
                    ballots'[p][b].choices \subseteq 0 .. proposals'[p].optionCount - 1
    <2>1. /\ proposals'[p].isPoll = proposals[p].isPoll
          /\ proposals'[p].optionCount = proposals[p].optionCount
      BY <1>2, VoteTerms DEF Continues, SameTerms
    <2> DEFINE w == VoteWeight(a, proposals[k])
    <2>4. /\ ballots'[k][a] = [choices |-> choices, weight |-> w]
          /\ \A b \in Accounts \ {a} : ballots'[k][b] = ballots[k][b]
          /\ \A j \in ProposalIds \ {k} : ballots'[j] = ballots[j]
      BY <1>2, VoteReceipt
    <2> HIDE DEF w
    <2>2. CASE p # k
      BY <1>1, <2>1, <2>2, <2>4
    <2>3. CASE p = k
      <3>1. choices \subseteq 0 .. proposals[p].optionCount - 1
        BY <1>2, <2>3 DEF VoteProposal
      <3>2. ballots'[p][a].choices = choices
        BY <2>3, <2>4
      <3> QED BY <1>1, <2>1, <2>3, <2>4, <3>1, <3>2
    <2> QED BY <2>2, <2>3
  <1>3. ASSUME ballots' = ballots
        PROVE  /\ proposals'[p].isPoll \/ proposals'[p].optionCount \in {0, 2}
               /\ \A b \in Accounts :
                    ballots'[p][b].choices \subseteq 0 .. proposals'[p].optionCount - 1
    <2>1. CASE proposals'[p] = proposals[p] \/ Continues(p)
      BY <1>1, <1>3, <2>1 DEF Continues, SameTerms
    <2>2. ASSUME p = proposalCount, NEW a \in Proposers, NEW o \in Outcomes,
                 NEW form \in Forms, NEW d \in Durations, CreateProposal(a, o, form, d),
                 proposals'[p] = NewProposal(a, o, form, d)
          PROVE  /\ proposals'[p].isPoll \/ proposals'[p].optionCount \in {0, 2}
                 /\ \A b \in Accounts :
                      ballots'[p][b].choices \subseteq 0 .. proposals'[p].optionCount - 1
      <3>1. /\ proposals'[p].isPoll = form.poll
            /\ proposals'[p].optionCount = form.options
        BY <2>2 DEF NewProposal
      <3>2. form.options = 2 \/ form.poll
        BY <2>2 DEF CreateProposal, PossibleForm
      <3>3. Voters(p) = {}
        BY <2>2 DEF ElectorateInv, ProposalIds
      <3>4. \A b \in Accounts : ballots[p][b].choices = {}
        BY <3>3 DEF Voters
      <3> QED BY <1>3, <3>1, <3>2, <3>4
    <2> QED BY <2>1, <2>2, ProposalStep
  <1> QED BY <1>2, <1>3, BallotsSealed

\* The totals decide as the receipts do: what a tally passes has a mandate.
LEMMA PassingHasMandate ==
    ASSUME TypeOK, FormKept, TotalsMatchReceipts, NEW p \in ProposalIds,
           Verdict(p) = "passed"
    PROVE  Mandate(p)
  <1> DEFINE n == proposals[p].optionCount
             w == Weights(p)
  <1>1. Carried(p) /\ ~proposals[p].isPoll /\ Winner(p) = 1
    BY DEF Verdict, ApproveOptionIndex
  <1>2. n \in {0, 2} /\ n \in 0 .. MaxOptions /\ MaxOptions \in Nat
    BY <1>1, GovernanceConstants DEF GovernanceConstants, FormKept, TypeOK, Proposal
  <1>3. DOMAIN w = 0 .. n - 1 /\ \A i \in DOMAIN w : w[i] = options[p][i].weight
    BY DEF Weights
  <1>4. 1 \in DOMAIN w /\ IsLeading(w, 1)
    <2> HIDE DEF w
    <2>1. LeadingOption(w) = 1
      BY <1>1 DEF Winner, w
    <2>2. \E i \in DOMAIN w : IsLeading(w, i)
      BY <2>1 DEF LeadingOption
    <2> QED BY <2>1, <2>2 DEF LeadingOption
  <1>5. n = 2 /\ DOMAIN w = {0, 1}
    <2>1. n # 0
      BY <1>3, <1>4
    <2> QED BY <1>2, <1>3, <2>1
  <1>6. 0 \in OptionIds /\ 1 \in OptionIds
    BY <1>2, <1>5 DEF OptionIds
  <1>7. options[p][0].weight \in Nat /\ options[p][1].weight \in Nat
    BY <1>6 DEF TypeOK
  <1>8. w[0] = options[p][0].weight /\ w[1] = options[p][1].weight
    BY <1>3, <1>5
  <1> HIDE DEF w, n
  <1>9. options[p][1].weight > 0 /\ options[p][0].weight < options[p][1].weight
    <2>1. w[1] > 0 /\ (w[0] < w[1] \/ (w[0] = w[1] /\ 1 <= 0))
      BY <1>4, <1>5 DEF IsLeading
    <2> QED BY <1>7, <1>8, <2>1
  <1>10. \A i \in OptionIds : options[p][i].weight = BallotWeight(p, Choosing(p, i))
    BY DEF TotalsMatchReceipts
  <1>11. ASSUME NEW i \in OptionIds \ {1}
         PROVE  BallotWeight(p, Choosing(p, 1)) > BallotWeight(p, Choosing(p, i))
    <2>1. CASE i = 0
      <3>1. options[p][1].weight > options[p][0].weight
        BY <1>7, <1>9
      <3> QED BY <1>6, <1>10, <2>1, <3>1
    <2>2. CASE i # 0
      <3>1. i \notin 0 .. 1
        BY <2>2 DEF OptionIds
      <3>2. \A a \in Accounts : ballots[p][a].choices \subseteq 0 .. 1
        BY <1>5 DEF FormKept, n
      <3>3. Choosing(p, i) = {}
        BY <3>1, <3>2 DEF Choosing
      <3>4. BallotWeight(p, Choosing(p, i)) = 0
        BY <3>3, SumOfNone DEF BallotWeight
      <3> QED BY <1>6, <1>9, <1>10, <3>4
    <2> QED BY <2>1, <2>2
  <1> QED BY <1>1, <1>11 DEF Mandate, ApproveOptionIndex

\* Receipts of a decided proposal are final.
LEMMA DecidedBallots ==
    ASSUME TypeOK, [Next]_vars, NEW p \in ProposalIds, proposals[p].state # "active"
    PROVE  ballots'[p] = ballots[p]
  <1>1. ASSUME NEW a \in Accounts, NEW k \in ProposalIds, NEW choices \in ChoiceSets,
               VoteProposal(a, k, choices)
        PROVE  ballots'[p] = ballots[p]
    <2>1. k # p
      BY <1>1 DEF VoteProposal, TakesVotes
    <2> QED BY <1>1, <2>1, VoteReceipt
  <1> QED BY <1>1, BallotsSealed

\* A proposal becomes passed by a tally, and executed when it was passed.
LEMMA PassesByTally ==
    ASSUME TypeOK, [Next]_vars, NEW p \in ProposalIds,
           proposals'[p].state \in {"passed", "executed"}
    PROVE  \/ proposals[p].state \in {"passed", "executed"}
           \/ proposals[p].state = "active" /\ TallyProposal(p) /\ Verdict(p) = "passed"
  <1>1. ASSUME NEW a \in Accounts, NEW k \in ProposalIds, NEW choices \in ChoiceSets,
               VoteProposal(a, k, choices)
        PROVE  proposals'[p].state = proposals[p].state
    BY <1>1, VoteTerms
  <1>2. ASSUME NEW a \in Proposers, NEW o \in Outcomes, NEW form \in Forms,
               NEW d \in Durations, CreateProposal(a, o, form, d)
        PROVE  proposals'[p].state = proposals[p].state
    <2>1. NewProposal(a, o, form, d).state = "active"
      BY DEF NewProposal
    <2>2. p # proposalCount
      BY <1>2, <2>1, CreateTerms
    <2> QED BY <1>2, <2>2, CreateTerms
  <1>3. ASSUME NEW k \in ProposalIds, TallyProposal(k)
        PROVE  \/ proposals'[p].state = proposals[p].state
               \/ proposals[p].state = "active" /\ TallyProposal(p) /\ Verdict(p) = "passed"
    <2>1. CASE p # k
      BY <1>3, <2>1, DecidedTerms
    <2>2. CASE p = k
      <3>1. Verdict(p) # "executed"
        BY DecidedTyped
      <3> QED BY <1>3, <2>2, <3>1, DecidedTerms
    <2> QED BY <2>1, <2>2
  <1>4. ASSUME NEW a \in Accounts, NEW k \in ProposalIds, CancelProposal(a, k)
        PROVE  proposals'[p].state = proposals[p].state
    BY <1>4, CancelledTerms
  <1>5. ASSUME NEW a \in Accounts, NEW k \in ProposalIds,
               NEW drawn \in Draws(proposals[k].outcome), ExecuteProposal(a, k, drawn)
        PROVE  proposals'[p].state = proposals[p].state \/ proposals[p].state = "passed"
    BY <1>5, ExecutedTerms
  <1>6. CASE UNCHANGED governanceVars
    BY <1>6 DEF governanceVars
  <1>7. CASE GovernanceNext
    BY <1>1, <1>2, <1>3, <1>4, <1>5, <1>7 DEF GovernanceNext
  <1> QED BY <1>6, <1>7 DEF Next, vars

LEMMA ApprovedByMandate ==
    PassedWasApproved <=>
        \A p \in ProposalIds : proposals[p].state \in {"passed", "executed"} => Mandate(p)
  BY DEF PassedWasApproved, Mandate

LEMMA ApprovalStep ==
    ASSUME TypeOK, FormKept, TotalsMatchReceipts, PassedWasApproved, [Next]_vars
    PROVE  PassedWasApproved'
  <1> SUFFICES ASSUME NEW p \in ProposalIds, proposals'[p].state \in {"passed", "executed"}
               PROVE  Mandate(p)'
    BY DEF PassedWasApproved, Mandate
  <1>1. /\ Mandate(p)
        /\ proposals[p].state # "none"
        /\ proposals[p].state # "active" \/ TallyProposal(p)
    BY PassesByTally, PassingHasMandate, ApprovedByMandate
  <1>2. ballots'[p] = ballots[p]
    BY <1>1, DecidedBallots DEF TallyProposal, VotingOver, ballotVars
  <1>3. proposals'[p].isPoll = proposals[p].isPoll
    BY <1>1, ProposalStep DEF Continues, SameTerms
  <1> QED BY <1>1, <1>2, <1>3 DEF Mandate, BallotWeight, Choosing

\* No proposal, poll or tie ever passes that the receipts do not approve, and
\* the receipts of what passed stay as they were when it did.
THEOREM PassedSafe == Spec => []PassedWasApproved
  <1>1. GovernanceInit => FormKept /\ PassedWasApproved
    <2>1. GovernanceInit => PassedWasApproved
      BY DEF GovernanceInit, NoProposal, PassedWasApproved
    <2> QED BY <2>1, FormInit
  <1>2. Inv /\ TotalsMatchReceipts /\ FormKept /\ PassedWasApproved /\ [Next]_vars
          => FormKept' /\ PassedWasApproved'
    BY FormStep, ApprovalStep DEF Inv
  <1> QED BY <1>1, <1>2, TotalsSafe, Invariance, PTL DEF Spec

-----------------------------------------------------------------------------
(* A ballot is backed by stake until the deadline                          *)

\* What a step may do to the record of a member that stays: the lock of its
\* votes only grows, and stake moves out only after that lock.
KeepsStake(a) ==
    /\ member'[a].voteLockUntil >= member[a].voteLockUntil
    /\ member'[a].stake >= member[a].stake \/ now >= member[a].voteLockUntil

LEMMA SameRecord ==
    ASSUME TypeOK, NEW a \in Accounts, member'[a] = member[a]
    PROVE  KeepsStake(a)
  <1>1. member[a].voteLockUntil \in Nat /\ member[a].stake \in Nat
    BY DEF TypeOK, ProjectTypeOK, Member
  <1> QED BY <1>1 DEF KeepsStake

LEMMA ProjectKeepsStake ==
    ASSUME TypeOK, [ProjectNext]_projectVars, NEW a \in members, a \in members'
    PROVE  KeepsStake(a)
  <1>1. /\ ProjectTypeOK /\ a \in Accounts /\ member \in [Accounts -> Member]
        /\ member[a].voteLockUntil \in Nat /\ member[a].stake \in Nat
    BY DEF TypeOK, ProjectTypeOK, Member
  <1>2. ASSUME NEW b \in Accounts, NEW d \in Deposits, JoinProject(b, d)
        PROVE  KeepsStake(a)
    <2>1. b \notin members /\ member' = [member EXCEPT ![b] = NewMember(d, joinSeq)]
      BY <1>2 DEF JoinProject, JoinAllowed, AdmitMember
    <2>2. member'[a] = member[a]
      BY <1>1, <2>1
    <2> QED BY <1>1, <2>2, SameRecord
  <1>3. ASSUME NEW b \in Accounts, NEW e,
               \/ member' = [member EXCEPT ![b].exitRequested = e]
               \/ \E u : member' = [member EXCEPT ![b].unstakeRequested = e,
                                                  ![b].unstakePending = u]
        PROVE  KeepsStake(a)
    <2>1. /\ member'[a].stake = member[a].stake
          /\ member'[a].voteLockUntil = member[a].voteLockUntil
      BY <1>1, <1>3 DEF Member
    <2> QED BY <1>1, <2>1 DEF KeepsStake
  <1>4. ASSUME NEW b \in Accounts, FinishLeave(b)
        PROVE  KeepsStake(a)
    <2>1. /\ members' = members \ {b}
          /\ member' = [c \in Accounts |-> IF c \in {b} THEN NoMember ELSE member[c]]
      BY <1>4 DEF FinishLeave, RemoveMembers
    <2>2. member'[a] = member[a]
      BY <1>1, <2>1
    <2> QED BY <1>1, <2>2, SameRecord
  <1>5. ASSUME NEW b \in Accounts, FinishUnstake(b)
        PROVE  KeepsStake(a)
    <2>1. CASE a = b
      <3>1. /\ member'[a].voteLockUntil = member[a].voteLockUntil
            /\ now >= member[a].voteLockUntil
        BY <1>1, <1>5, <2>1, FinishUnstakeEffect DEF FinishUnstake, VotesSettled
      <3> QED BY <1>1, <3>1 DEF KeepsStake
    <2>2. CASE a # b
      BY <1>1, <1>5, <2>2, FinishUnstakeEffect, SameRecord
    <2> QED BY <2>1, <2>2
  <1>6. ASSUME NEW b \in Accounts, NEW batch \in Batches, AddFundsToStake(b, batch)
        PROVE  KeepsStake(a)
    <2>1. CASE a = b
      <3>1. /\ member'[a].voteLockUntil = member[a].voteLockUntil
            /\ member'[a].stake = member[a].stake + batch[FundsAsset]
            /\ batch[FundsAsset] \in Nat
        BY <1>1, <1>6, <2>1, AddFundsToStakeEffect
      <3> QED BY <1>1, <3>1 DEF KeepsStake
    <2>2. CASE a # b
      BY <1>1, <1>6, <2>2, AddFundsToStakeEffect, SameRecord
    <2> QED BY <2>1, <2>2
  <1>7. ASSUME member' = member
        PROVE  KeepsStake(a)
    BY <1>1, <1>7, SameRecord
  <1>8. ASSUME NEW b \in Accounts, RequestLeave(b)
        PROVE  KeepsStake(a)
    BY <1>3, <1>8 DEF RequestLeave
  <1>9. ASSUME NEW b \in Accounts, NEW amount \in UnstakeAmounts, RequestUnstake(b, amount)
        PROVE  KeepsStake(a)
    BY <1>3, <1>9 DEF RequestUnstake
  <1>10. CASE UNCHANGED projectVars
    BY <1>7, <1>10 DEF projectVars, memberVars
  <1> QED
    BY <1>2, <1>4, <1>5, <1>6, <1>7, <1>8, <1>9, <1>10
    DEF ProjectNext, AddFundsToTreasury, WhitelistMembers, RemoveWhitelistedMembers,
        TransferProjectOwnership, EmergencyPauseImmediate, Tick, memberVars

LEMMA StepKeepsStake ==
    ASSUME TypeOK, [Next]_vars, NEW a \in members, a \in members'
    PROVE  KeepsStake(a) /\ now' >= now
  <1>1. a \in Accounts /\ now \in Nat
    BY DEF TypeOK, ProjectTypeOK
  <1>2. CASE ProjectNext
    <2>1. now' = now \/ now' = now + 1
      BY <1>2
      DEF ProjectNext, JoinProject, RequestLeave, FinishLeave, RequestUnstake, FinishUnstake,
          AddFundsToStake, AddFundsToTreasury, WhitelistMembers, RemoveWhitelistedMembers,
          TransferProjectOwnership, EmergencyPauseImmediate, Tick
    <2> QED BY <1>1, <1>2, <2>1, ProjectKeepsStake
  <1>3. ASSUME NEW b \in Accounts, NEW p \in ProposalIds, NEW choices \in ChoiceSets,
               VoteProposal(b, p, choices)
        PROVE  KeepsStake(a)
    <2>1. CASE a = b
      <3>1. /\ member'[a].stake = member[a].stake
            /\ member'[a].voteLockUntil >= member[a].voteLockUntil
        BY <1>3, <2>1, VoteRecord, CommittedRecord
      <3>2. member[a].stake \in Nat
        BY <1>1 DEF TypeOK, ProjectTypeOK, Member
      <3> QED BY <3>1, <3>2 DEF KeepsStake
    <2>2. CASE a # b
      BY <1>1, <1>3, <2>2, VoteRecord, SameRecord
    <2> QED BY <2>1, <2>2
  <1>4. ASSUME NEW b \in Accounts, NEW p \in ProposalIds,
               NEW drawn \in Draws(proposals[p].outcome), ExecuteProposal(b, p, drawn)
        PROVE  KeepsStake(a)
    <2> DEFINE K == Kicked(proposals[p].outcome)
    <2>1. RemoveMembers(K)
      BY <1>4 DEF ExecuteProposal, ApplyOutcome
    <2> HIDE DEF K
    <2>2. /\ members' = members \ K
          /\ member' = [c \in Accounts |-> IF c \in K THEN NoMember ELSE member[c]]
      BY <2>1 DEF RemoveMembers
    <2>3. member'[a] = member[a]
      BY <1>1, <2>2
    <2> QED BY <1>1, <2>3, SameRecord
  <1>5. ASSUME member' = member
        PROVE  KeepsStake(a)
    BY <1>1, <1>5, SameRecord
  <1>6. CASE GovernanceNext
    <2>1. now' = now
      BY <1>6 DEF GovernanceNext, CreateProposal, VoteProposal, TallyProposal, VotingOver,
                  ExecuteProposal, CancelProposal
    <2> QED
      BY <1>1, <1>3, <1>4, <1>5, <1>6, <2>1
      DEF GovernanceNext, CreateProposal, TallyProposal, VotingOver, CancelProposal, memberVars
  <1>7. CASE UNCHANGED vars
    BY <1>1, <1>5, <1>7 DEF vars, projectVars, memberVars
  <1> QED BY <1>2, <1>6, <1>7 DEF Next

\* The stake of a voter is locked until the deadline of p, and until then it is
\* at least the weight the ballot was counted with.
Backs(p, a) ==
    /\ member[a].voteLockUntil >= Deadline(proposals[p])
    /\ StakeVoting /\ now < Deadline(proposals[p]) =>
         member[a].stake >= ballots[p][a].weight

VotersBack == \A p \in ProposalIds : \A a \in Voters(p) \cap Electorate(p) : Backs(p, a)

LEMMA DeadlineTyped ==
    ASSUME TypeOK, NEW p \in ProposalIds
    PROVE  Deadline(proposals[p]) \in Nat
  <1>1. proposals[p].createdAt \in Nat /\ proposals[p].duration \in Nat /\ Hour \in Nat
    BY ProjectConstants DEF ProjectConstants, TypeOK, Proposal
  <1> QED BY <1>1 DEF Deadline

\* A stake-weighted ballot never weighs more than the stake held.
LEMMA WeightWithinStake ==
    ASSUME TypeOK, StakeVoting, NEW a \in Accounts, NEW p \in ProposalIds
    PROVE  VoteWeight(a, proposals[p]) <= member[a].stake
  <1>1. member[a].stake \in Nat /\ history[a] \in Seq([stake : Nat, time : Nat])
    BY DEF TypeOK, ProjectTypeOK, Member
  <1>2. StakeAtTime(history[a], proposals[p].createdAt) \in Nat
    BY <1>1, StakeAtTimeTyped
  <1> QED BY <1>1, <1>2 DEF VoteWeight

LEMMA JoinOrderOfStep ==
    ASSUME TypeOK, [Next]_vars
    PROVE  JoinOrder
  <1>1. ProjectTypeOK /\ members \subseteq Accounts /\ joinSeq \in Nat
    BY DEF TypeOK, ProjectTypeOK
  <1>2. CASE ProjectNext
    BY <1>1, <1>2, JoinOrderOfProject
  <1>3. ASSUME NEW a \in Accounts, NEW p \in ProposalIds, NEW choices \in ChoiceSets,
               VoteProposal(a, p, choices)
        PROVE  JoinOrder
    <2>1. /\ \A b \in Accounts \ {a} : member'[b] = member[b]
          /\ member'[a].joinSeq = member[a].joinSeq
      BY <1>3, VoteRecord, CommittedRecord
    <2>2. members' = members /\ joinSeq' = joinSeq
      BY <1>3 DEF VoteProposal
    <2> QED BY <1>1, <2>1, <2>2 DEF JoinOrder
  <1>4. ASSUME NEW a \in Accounts, NEW p \in ProposalIds,
               NEW drawn \in Draws(proposals[p].outcome), ExecuteProposal(a, p, drawn)
        PROVE  JoinOrder
    BY <1>1, <1>4 DEF ExecuteProposal, ApplyOutcome, RemoveMembers, JoinOrder
  <1>5. ASSUME UNCHANGED memberVars
        PROVE  JoinOrder
    BY <1>5 DEF JoinOrder, memberVars
  <1>6. CASE UNCHANGED vars
    BY <1>5, <1>6 DEF vars, projectVars
  <1>7. CASE GovernanceNext
    BY <1>3, <1>4, <1>5, <1>7
    DEF GovernanceNext, CreateProposal, TallyProposal, VotingOver, CancelProposal
  <1> QED BY <1>2, <1>6, <1>7 DEF Next

\* Who is in the electorate after a step was in it before, and stayed.
LEMMA ElectorateStays ==
    ASSUME Inv, [Next]_vars, NEW p \in ProposalIds, NEW a \in Electorate(p)',
           proposals[p].state # "none"
    PROVE  a \in Electorate(p) /\ a \in members /\ a \in members' /\ a \in Accounts
  <1>1. TypeOK /\ TypeOK' /\ ElectorateInv
    BY StepTyped DEF Inv
  <1>2. JoinOrder
    BY <1>1, JoinOrderOfStep
  <1>3. proposals'[p].joinSnap = proposals[p].joinSnap
    BY <1>1, ProposalStep DEF Continues, SameTerms
  <1>4. a \in Electorate(p)
    BY <1>1, <1>2, <1>3, ElectorateShrinks
  <1> QED BY <1>1, <1>4 DEF Electorate, TypeOK, ProjectTypeOK

\* A receipt changes only by a ballot of its account.
LEMMA ReceiptStep ==
    ASSUME TypeOK, [Next]_vars, NEW p \in ProposalIds, NEW a \in Accounts
    PROVE  \/ ballots'[p][a] = ballots[p][a]
           \/ \E choices \in ChoiceSets :
                /\ VoteProposal(a, p, choices)
                /\ ballots'[p][a] = [choices |-> choices, weight |-> VoteWeight(a, proposals[p])]
  <1>1. ASSUME NEW b \in Accounts, NEW k \in ProposalIds, NEW choices \in ChoiceSets,
               VoteProposal(b, k, choices), ~(b = a /\ k = p)
        PROVE  ballots'[p][a] = ballots[p][a]
    <2> DEFINE w == VoteWeight(b, proposals[k])
    <2>1. /\ \A c \in Accounts \ {b} : ballots'[k][c] = ballots[k][c]
          /\ \A j \in ProposalIds \ {k} : ballots'[j] = ballots[j]
      BY <1>1, VoteReceipt
    <2> QED BY <1>1, <2>1
  <1>2. ASSUME NEW choices \in ChoiceSets, VoteProposal(a, p, choices)
        PROVE  ballots'[p][a] = [choices |-> choices, weight |-> VoteWeight(a, proposals[p])]
    BY <1>2, VoteReceipt
  <1> QED BY <1>1, <1>2, BallotsSealed

LEMMA BackingStep ==
    ASSUME Inv, VotersBack, [Next]_vars
    PROVE  VotersBack'
  <1> SUFFICES ASSUME NEW p \in ProposalIds, NEW a \in Voters(p)' \cap Electorate(p)'
               PROVE  Backs(p, a)'
    BY DEF VotersBack
  <1>1. TypeOK /\ ElectorateInv /\ a \in Accounts
    BY DEF Inv, Voters
  <1>2. proposals[p].state # "none"
    <2> SUFFICES ASSUME proposals[p].state = "none" PROVE FALSE
      OBVIOUS
    <2>1. ballots'[p] = ballots[p]
      BY <1>1, DecidedBallots
    <2>2. Voters(p) = {}
      BY <1>1 DEF TypeOK, ElectorateInv
    <2> QED BY <2>1, <2>2 DEF Voters
  <1>3. a \in Electorate(p) /\ a \in members /\ a \in members'
    BY <1>2, ElectorateStays
  <1>4. KeepsStake(a) /\ now' >= now
    BY <1>1, <1>3, StepKeepsStake
  <1>5. Deadline(proposals[p])' = Deadline(proposals[p]) /\ Deadline(proposals[p]) \in Nat
    BY <1>1, <1>2, ProposalStep, DeadlineTyped DEF Continues, SameTerms, Deadline
  <1>6. /\ member[a].voteLockUntil \in Nat /\ member'[a].voteLockUntil \in Nat
        /\ member[a].stake \in Nat /\ member'[a].stake \in Nat
        /\ now \in Nat /\ now' \in Nat
        /\ ballots[p][a].weight \in Nat
    <2>1. TypeOK'
      BY <1>1, StepTyped
    <2> QED BY <1>1, <2>1 DEF TypeOK, ProjectTypeOK, Member
  <1> DEFINE t == Deadline(proposals[p])
  <1>7. CASE ballots'[p][a] = ballots[p][a]
    <2>1. Backs(p, a)
      BY <1>3, <1>7 DEF VotersBack, Voters
    <2>2. /\ member[a].voteLockUntil >= t
          /\ StakeVoting /\ now < t => member[a].stake >= ballots[p][a].weight
      BY <2>1 DEF Backs
    <2> HIDE DEF t
    <2>3. t \in Nat
      BY <1>5 DEF t
    <2>4. member'[a].voteLockUntil >= t
      BY <1>4, <1>6, <2>2, <2>3 DEF KeepsStake
    <2>5. StakeVoting /\ now' < t => member'[a].stake >= ballots'[p][a].weight
      <3> SUFFICES ASSUME StakeVoting, now' < t
                   PROVE  member'[a].stake >= ballots[p][a].weight
        BY <1>7
      <3>1. now < t /\ now < member[a].voteLockUntil
        BY <1>4, <1>6, <2>2, <2>3
      <3>2. member'[a].stake >= member[a].stake
        BY <1>4, <1>6, <3>1 DEF KeepsStake
      <3> QED BY <1>6, <2>2, <3>1, <3>2
    <2> QED BY <1>5, <2>4, <2>5 DEF Backs, t
  <1>8. ASSUME NEW choices \in ChoiceSets, VoteProposal(a, p, choices),
               ballots'[p][a] = [choices |-> choices, weight |-> VoteWeight(a, proposals[p])]
        PROVE  Backs(p, a)'
    <2>1. member'[a].voteLockUntil >= t /\ member'[a].stake = member[a].stake
      BY <1>1, <1>8, VoteRecord, CommittedRecord
    <2>2. StakeVoting => member[a].stake >= ballots'[p][a].weight
      <3>1. ballots'[p][a].weight = VoteWeight(a, proposals[p])
        BY <1>8
      <3>2. VoteWeight(a, proposals[p]) \in Nat
        BY <1>1, VoteWeightTyped
      <3> QED BY <1>1, <1>6, <3>1, <3>2, WeightWithinStake
    <2> QED BY <1>5, <2>1, <2>2 DEF Backs
  <1> QED BY <1>1, <1>7, <1>8, ReceiptStep

LEMMA BackingInit == GovernanceInit => VotersBack
  BY DEF GovernanceInit, NoBallot, Voters, VotersBack

THEOREM Backing == Spec => []VotersBack
  BY BackingInit, BackingStep, Invariance, PTL DEF Spec

\* Nobody votes and takes the stake out before the deadline: while voting runs
\* every voter that was not removed holds the weight of its ballot.
THEOREM BackingSafe == Spec => []BallotsBackedByStake
  <1>1. VotersBack => BallotsBackedByStake
    BY DEF VotersBack, Backs, Running, BallotsBackedByStake
  <1> QED BY <1>1, Backing, PTL

\* Who drops out of the members before the deadline of what it voted on was
\* kicked by an executed proposal.
LEMMA RemovalStep ==
    ASSUME Inv, VotersBack, [Next]_vars, NEW p \in ProposalIds, Running(p),
           NEW a \in Voters(p) \cap Electorate(p), a \notin members'
    PROVE  \E k \in ProposalIds : StepsFrom(k, "passed", "executed")
                                    /\ a \in proposals[k].outcome.kick
  <1>1. /\ TypeOK /\ a \in members /\ a \in Accounts
        /\ member[a].voteLockUntil \in Nat /\ now \in Nat
        /\ member[a].voteLockUntil >= Deadline(proposals[p])
        /\ Deadline(proposals[p]) \in Nat /\ now < Deadline(proposals[p])
    BY DeadlineTyped
    DEF Inv, TypeOK, ProjectTypeOK, Member, Voters, Electorate, VotersBack, Backs, Running
  <1>2. ASSUME NEW b \in Accounts, FinishLeave(b)
        PROVE  FALSE
    <2>1. a = b
      BY <1>1, <1>2 DEF FinishLeave, RemoveMembers
    <2> QED BY <1>1, <1>2, <2>1 DEF FinishLeave, VotesSettled
  <1>3. ASSUME NEW b \in Accounts, NEW k \in ProposalIds,
               NEW drawn \in Draws(proposals[k].outcome), ExecuteProposal(b, k, drawn)
        PROVE  StepsFrom(k, "passed", "executed") /\ a \in proposals[k].outcome.kick
    <2>1. StepsFrom(k, "passed", "executed")
      BY <1>1, <1>3, ExecutedTerms DEF StepsFrom
    <2>2. members' = members \ Kicked(proposals[k].outcome)
      BY <1>3 DEF ExecuteProposal, ApplyOutcome, RemoveMembers
    <2> QED BY <1>1, <2>1, <2>2 DEF Kicked
  <1>4. ASSUME members \subseteq members'
        PROVE  FALSE
    BY <1>1, <1>4
  <1>5. ~ProjectNext
    BY <1>2, <1>4
    DEF ProjectNext, JoinProject, AdmitMember, RequestLeave, RequestUnstake, FinishUnstake,
        AddFundsToStake, AddFundsToTreasury, WhitelistMembers, RemoveWhitelistedMembers,
        TransferProjectOwnership, EmergencyPauseImmediate, Tick, memberVars
  <1>6. CASE GovernanceNext
    BY <1>3, <1>4, <1>6
    DEF GovernanceNext, CreateProposal, VoteProposal, TallyProposal, VotingOver,
        CancelProposal, memberVars
  <1>7. ~ UNCHANGED vars
    BY <1>4 DEF vars, projectVars, memberVars
  <1> QED BY <1>5, <1>6, <1>7 DEF Next

\* A voter stays until the deadline unless a proposal kicks it.
THEOREM VotersStay == Spec => VotersStayUntilDeadline
  <1>1. Inv /\ VotersBack /\ [Next]_vars
          => [\A p \in ProposalIds : Running(p) =>
                \A a \in Voters(p) \cap Electorate(p) :
                    a \notin members' =>
                        \E k \in ProposalIds : StepsFrom(k, "passed", "executed")
                                                 /\ a \in proposals[k].outcome.kick]_vars
    BY RemovalStep
  <1> QED BY <1>1, Invariance, Backing, PTL DEF Spec, VotersStayUntilDeadline

-----------------------------------------------------------------------------
(* Democratic ballots stay within the snapshot                             *)

\* In a one-member-one-vote project every receipt weighs one vote.
OneVoteEach ==
    ~StakeVoting => \A p \in ProposalIds : \A a \in Voters(p) : ballots[p][a].weight = AmountScale

LEMMA OneVoteStep ==
    ASSUME TypeOK, OneVoteEach, [Next]_vars
    PROVE  OneVoteEach'
  <1> SUFFICES ASSUME ~StakeVoting, NEW p \in ProposalIds, NEW a \in Voters(p)'
               PROVE  ballots'[p][a].weight = AmountScale
    BY DEF OneVoteEach
  <1>1. a \in Accounts
    BY DEF Voters
  <1>2. CASE ballots'[p][a] = ballots[p][a]
    <2>1. a \in Voters(p)
      BY <1>1, <1>2 DEF Voters
    <2> QED BY <1>2, <2>1 DEF OneVoteEach
  <1>3. CASE \E choices \in ChoiceSets :
               ballots'[p][a] = [choices |-> choices, weight |-> VoteWeight(a, proposals[p])]
    <2>1. VoteWeight(a, proposals[p]) = AmountScale
      BY DEF VoteWeight
    <2> QED BY <1>3, <2>1
  <1> QED BY <1>1, <1>2, <1>3, ReceiptStep

LEMMA OneVoteInit == GovernanceInit => OneVoteEach
  BY DEF GovernanceInit, NoBallot, Voters, OneVoteEach

LEMMA ProductMonotone ==
    ASSUME NEW m \in Nat, NEW n \in Nat, NEW c \in Nat, m <= n
    PROVE  m * c <= n * c
  <1> DEFINE d == n - m
  <1>1. d \in Nat /\ n = m + d
    OBVIOUS
  <1> HIDE DEF d
  <1>2. (m + d) * c = m * c + d * c /\ d * c \in Nat /\ m * c \in Nat
    BY <1>1
  <1> QED BY <1>1, <1>2

LEMMA DemocraticWithinSnapshot ==
    ASSUME TypeOK, ElectorateInv, OneVoteEach, ~StakeVoting, NEW p \in ProposalIds
    PROVE  BallotWeight(p, Voters(p)) <= proposals[p].memberSnap * AmountScale
  <1>1. IsFiniteSet(Voters(p)) /\ \A a \in Voters(p) : Weighed(p)[a] = AmountScale
    BY BallotsFinite DEF OneVoteEach, Weighed, Voters
  <1>2. AmountScale \in Nat
    BY TallyConstants DEF TallyConstants
  <1>3. SumFunctionOnSet(Weighed(p), Voters(p)) = Cardinality(Voters(p)) * AmountScale
    BY <1>1, <1>2, SumOfConstant
  <1>4. Cardinality(Voters(p)) <= proposals[p].memberSnap
    <2> DEFINE roll == Voters(p) \cup Electorate(p)
    <2>1. IsFiniteSet(roll) /\ Cardinality(roll) <= proposals[p].memberSnap
      BY VotersFinite DEF ElectorateInv, ElectorateWithinSnapshot
    <2>2. /\ Cardinality(Voters(p)) <= Cardinality(roll)
          /\ Cardinality(Voters(p)) \in Nat /\ Cardinality(roll) \in Nat
      <3>1. Voters(p) \subseteq roll
        OBVIOUS
      <3> HIDE DEF roll
      <3> QED BY <2>1, <3>1, FS_Subset, FS_CardinalityType
    <2>3. proposals[p].memberSnap \in Nat
      BY DEF TypeOK, Proposal
    <2> HIDE DEF roll
    <2> QED BY <2>1, <2>2, <2>3
  <1>5. Cardinality(Voters(p)) \in Nat /\ proposals[p].memberSnap \in Nat
    BY <1>1, FS_CardinalityType DEF TypeOK, Proposal
  <1>6. Cardinality(Voters(p)) * AmountScale <= proposals[p].memberSnap * AmountScale
    BY <1>2, <1>4, <1>5, ProductMonotone
  <1> QED BY <1>3, <1>6 DEF BallotWeight, Weighed

\* One member, one vote: the ballots never weigh more than the members counted
\* at creation, for any number of joins, kicks and returns.
THEOREM DemocraticBallotsBounded == ASSUME ~StakeVoting PROVE Spec => []BallotsWithinSnapshot
  <1>1. Inv /\ OneVoteEach => BallotsWithinSnapshot
    BY DemocraticWithinSnapshot DEF BallotsWithinSnapshot, Inv
  <1>2. Inv /\ OneVoteEach /\ [Next]_vars => OneVoteEach'
    BY OneVoteStep DEF Inv
  <1> QED BY <1>1, <1>2, OneVoteInit, Invariance, PTL DEF Spec

-----------------------------------------------------------------------------
(* Stake-weighted ballots and the snapshot                                 *)

LEMMA NewestUnique ==
    ASSUME NEW h \in Seq(Entry), NEW t \in Nat, NEW i \in DOMAIN h, NEW j \in DOMAIN h,
           IsNewestAt(h, t, i), IsNewestAt(h, t, j)
    PROVE  i = j
  <1>1. i \in Nat /\ j \in Nat /\ h[i].time \in Nat /\ h[j].time \in Nat
    BY EntryOfHistory DEF Entry
  <1> QED BY <1>1 DEF IsNewestAt

\* An entry later than t does not change what is found at t.
LEMMA LaterEntryUnseen ==
    ASSUME NEW h \in Seq(Entry), NEW t \in Nat, NEW e \in Entry, e.time > t
    PROVE  StakeAtTime(Append(h, e), t) = StakeAtTime(h, t)
  <1> DEFINE g == Append(h, e)
             n == Len(h)
  <1>1. /\ n \in Nat /\ DOMAIN h = 1 .. n /\ DOMAIN g = 1 .. n + 1
        /\ \A i \in DOMAIN h : g[i] = h[i]
        /\ g[n + 1] = e /\ g \in Seq(Entry)
    OBVIOUS
  <1> HIDE DEF g, n
  <1>2. e.time \in Nat /\ ~ (e.time <= t)
    BY DEF Entry
  <1>3. \A i \in DOMAIN h : IsNewestAt(g, t, i) <=> IsNewestAt(h, t, i)
    BY <1>1, <1>2 DEF IsNewestAt
  <1>4. ~ IsNewestAt(g, t, n + 1)
    BY <1>1, <1>2 DEF IsNewestAt
  <1>5. CASE \E i \in DOMAIN h : IsNewestAt(h, t, i)
    <2>1. PICK i \in DOMAIN h : IsNewestAt(h, t, i)
      BY <1>5
    <2>2. \A j \in DOMAIN h : IsNewestAt(h, t, j) => j = i
      BY <2>1, NewestUnique
    <2>3. i \in DOMAIN g /\ IsNewestAt(g, t, i)
      BY <1>1, <1>3, <2>1
    <2>4. \A j \in DOMAIN g : IsNewestAt(g, t, j) => j = i
      BY <1>1, <2>3, NewestUnique
    <2>5. (CHOOSE j \in DOMAIN h : IsNewestAt(h, t, j)) = i
      BY <2>1, <2>2
    <2>6. (CHOOSE j \in DOMAIN g : IsNewestAt(g, t, j)) = i
      BY <2>3, <2>4
    <2>7. StakeAtTime(h, t) = h[i].stake
      BY <1>5, <2>5 DEF StakeAtTime
    <2>8. StakeAtTime(g, t) = g[i].stake
      BY <2>3, <2>6 DEF StakeAtTime
    <2> QED BY <1>1, <2>1, <2>7, <2>8 DEF g
  <1>6. CASE ~ \E i \in DOMAIN h : IsNewestAt(h, t, i)
    <2>1. ~ \E i \in DOMAIN g : IsNewestAt(g, t, i)
      BY <1>1, <1>3, <1>4, <1>6
    <2> QED BY <1>6, <2>1 DEF StakeAtTime, g
  <1> QED BY <1>5, <1>6

\* The history of a member that stays is only ever extended, by an entry
\* stamped one second from now.
LEMMA HistoryExtends ==
    ASSUME TypeOK, [Next]_vars, NEW a \in members, a \in members'
    PROVE  \/ history'[a] = history[a]
           \/ \E s \in Nat : history'[a] = Append(history[a], [stake |-> s, time |-> now + 1])
  <1>1. /\ ProjectTypeOK /\ a \in Accounts /\ history \in [Accounts -> Seq(Entry)]
    BY DEF TypeOK, ProjectTypeOK, Entry
  <1>2. ASSUME NEW b \in Accounts, NEW s \in Nat, RecordStake(b, s)
        PROVE  \/ history'[a] = history[a]
               \/ \E u \in Nat : history'[a] = Append(history[a], [stake |-> u, time |-> now + 1])
    BY <1>1, <1>2 DEF RecordStake, Stamp
  <1>3. ASSUME NEW b \in Accounts, NEW d \in Deposits, JoinProject(b, d)
        PROVE  history'[a] = history[a]
    <2>1. b \notin members
          /\ history' = [history EXCEPT ![b] = <<[stake |-> d, time |-> now]>>]
      BY <1>3 DEF JoinProject, JoinAllowed, AdmitMember
    <2> QED BY <1>1, <2>1
  <1>4. ASSUME NEW K, RemoveMembers(K)
        PROVE  history'[a] = history[a]
    BY <1>1, <1>4 DEF RemoveMembers
  <1>5. ASSUME NEW b \in Accounts, FinishUnstake(b)
        PROVE  \/ history'[a] = history[a]
               \/ \E u \in Nat : history'[a] = Append(history[a], [stake |-> u, time |-> now + 1])
    <2>1. member[b].stake - UnstakeAmount(b) \in Nat
      BY <1>1, UnstakeAmountTyped
    <2>2. \/ history' = history
          \/ RecordStake(b, member[b].stake - UnstakeAmount(b))
      BY <1>5 DEF FinishUnstake
    <2> HIDE DEF UnstakeAmount
    <2> QED BY <1>2, <2>1, <2>2
  <1>6. ASSUME NEW b \in Accounts, NEW batch \in Batches, AddFundsToStake(b, batch)
        PROVE  \/ history'[a] = history[a]
               \/ \E u \in Nat : history'[a] = Append(history[a], [stake |-> u, time |-> now + 1])
    <2>1. member[b].stake \in Nat
      BY <1>1, <1>6 DEF ProjectTypeOK, Member
    <2>2. batch[FundsAsset] \in Nat
      BY <1>6, ProjectConstants DEF ProjectConstants
    <2>3. RecordStake(b, member[b].stake + batch[FundsAsset])
      BY <1>6 DEF AddFundsToStake
    <2> QED BY <1>2, <2>1, <2>2, <2>3
  <1>7. ASSUME history' = history
        PROVE  history'[a] = history[a]
    BY <1>7
  <1>8. CASE ProjectNext
    BY <1>3, <1>4, <1>5, <1>6, <1>7, <1>8
    DEF ProjectNext, FinishLeave, RequestLeave, RequestUnstake, AddFundsToTreasury,
        WhitelistMembers, RemoveWhitelistedMembers, TransferProjectOwnership,
        EmergencyPauseImmediate, Tick, memberVars
  <1>9. CASE GovernanceNext
    BY <1>4, <1>7, <1>9
    DEF GovernanceNext, CreateProposal, VoteProposal, TallyProposal, VotingOver,
        ExecuteProposal, ApplyOutcome, CancelProposal, memberVars
  <1>10. CASE UNCHANGED vars
    BY <1>7, <1>10 DEF vars, projectVars, memberVars
  <1> QED BY <1>8, <1>9, <1>10 DEF Next

\* What a member that stays had at stake at a past time does not change.
LEMMA LookupKept ==
    ASSUME TypeOK, [Next]_vars, NEW a \in members, a \in members', NEW t \in Nat, t <= now
    PROVE  StakeAtTime(history'[a], t) = StakeAtTime(history[a], t)
  <1>1. history[a] \in Seq(Entry) /\ now \in Nat
    BY DEF TypeOK, ProjectTypeOK, Entry
  <1>2. ASSUME NEW s \in Nat, history'[a] = Append(history[a], [stake |-> s, time |-> now + 1])
        PROVE  StakeAtTime(history'[a], t) = StakeAtTime(history[a], t)
    <2> DEFINE e == [stake |-> s, time |-> now + 1]
    <2>1. e \in Entry /\ e.time > t
      BY <1>1 DEF Entry
    <2> HIDE DEF e
    <2>2. StakeAtTime(Append(history[a], e), t) = StakeAtTime(history[a], t)
      BY <1>1, <2>1, LaterEntryUnseen
    <2> QED BY <1>2, <2>2 DEF e
  <1> QED BY <1>2, HistoryExtends

\* No member has more at stake on record than it holds: nobody took part of a
\* stake out in this very second.  The history stamps that a second later.
Settled == \A a \in members : StakeAtTime(history[a], now) <= member[a].stake

\* No proposal is created in a second in which a partial unstake finished.
CreatedSettled == [][proposalCount' # proposalCount => Settled]_vars

\* The most an account's receipt on p can weigh from here on: who can still
\* vote, what it had at stake at creation, and otherwise what its receipt says.
Claim(p, a) == IF a \in Electorate(p) THEN StakeAtTime(history[a], proposals[p].createdAt)
               ELSE ballots[p][a].weight

Claims(p) == [a \in Accounts |-> Claim(p, a)]

Roll(p) == Voters(p) \cup Electorate(p)

\* The claims on a proposal are together within its snapshot.
ClaimsWithin ==
    \A p \in ProposalIds :
        /\ proposals[p].createdAt <= now
        /\ \A a \in Voters(p) : ballots[p][a].weight <= Claim(p, a)
        /\ SumFunctionOnSet(Claims(p), Roll(p)) <= proposals[p].stakeSnap

\* Claims are numbers, and the roll is a finite set of accounts.
ClaimsTyped ==
    \A p \in ProposalIds :
        /\ \A a \in Accounts : Claim(p, a) \in Nat /\ Claims(p)[a] = Claim(p, a)
        /\ Roll(p) \subseteq Accounts /\ IsFiniteSet(Roll(p)) /\ IsFiniteSet(Voters(p))

LEMMA ClaimTyped == TypeOK => ClaimsTyped
  <1> SUFFICES ASSUME TypeOK, NEW p \in ProposalIds
               PROVE  /\ \A a \in Accounts : Claim(p, a) \in Nat /\ Claims(p)[a] = Claim(p, a)
                      /\ Roll(p) \subseteq Accounts
                      /\ IsFiniteSet(Roll(p)) /\ IsFiniteSet(Voters(p))
    BY DEF ClaimsTyped
  <1>1. ASSUME NEW a \in Accounts
        PROVE  Claim(p, a) \in Nat
    <2>1. history[a] \in Seq(Entry) /\ proposals[p].createdAt \in Nat
      BY DEF TypeOK, ProjectTypeOK, Proposal, Entry
    <2>2. StakeAtTime(history[a], proposals[p].createdAt) \in Nat
      BY <2>1, StakeAtTimeTyped DEF Entry
    <2>3. ballots[p][a].weight \in Nat
      BY DEF TypeOK
    <2> QED BY <2>2, <2>3 DEF Claim
  <1>2. Roll(p) \subseteq Accounts /\ Voters(p) \subseteq Accounts
    BY DEF Roll, Voters, Electorate, TypeOK, ProjectTypeOK
  <1>3. IsFiniteSet(Roll(p)) /\ IsFiniteSet(Voters(p))
    BY <1>2, ProjectConstants, FS_Subset DEF ProjectConstants
  <1> QED BY <1>1, <1>2, <1>3 DEF Claims

LEMMA ClaimTypedNext == TypeOK' => ClaimsTyped'
  BY ClaimTyped, PTL

LEMMA EmptyRoll ==
    ASSUME NEW p \in ProposalIds, Roll(p) = {}
    PROVE  SumFunctionOnSet(Claims(p), Roll(p)) = 0 /\ Voters(p) = {}
  BY SumOfNone DEF Roll

\* Without a proposal nobody has voted on it and nobody can.
LEMMA NoRollYet ==
    ASSUME TypeOK, ElectorateInv, NEW p \in ProposalIds, proposals[p].state = "none"
    PROVE  Roll(p) = {}
  <1>1. p >= proposalCount
    BY DEF TypeOK
  <1>2. proposals[p].joinSnap = 0 /\ Voters(p) = {}
    BY <1>1 DEF ElectorateInv
  <1>3. \A a \in members : member[a].joinSeq \in Nat
    BY DEF TypeOK, ProjectTypeOK, Member
  <1> QED BY <1>2, <1>3 DEF Roll, Electorate

LEMMA ClaimsInit == GovernanceInit => ClaimsWithin
  <1> SUFFICES ASSUME GovernanceInit, NEW p \in ProposalIds
               PROVE  /\ proposals[p].createdAt <= now
                      /\ \A a \in Voters(p) : ballots[p][a].weight <= Claim(p, a)
                      /\ SumFunctionOnSet(Claims(p), Roll(p)) <= proposals[p].stakeSnap
    BY DEF ClaimsWithin
  <1>1. /\ proposals[p].createdAt = 0 /\ proposals[p].stakeSnap = 0 /\ now = 1
        /\ proposals[p].state = "none"
    BY DEF GovernanceInit, ProjectInit, NoProposal
  <1>2. Roll(p) = {}
    BY <1>1, GovernanceInitTyped, ElectorateInit, NoRollYet
  <1> QED BY <1>1, <1>2, EmptyRoll

LEMMA TimePasses ==
    ASSUME TypeOK, [Next]_vars
    PROVE  now \in Nat /\ now' \in Nat /\ now <= now'
  <1>1. now \in Nat
    BY DEF TypeOK, ProjectTypeOK
  <1>2. CASE ProjectNext
    <2>1. now' = now \/ now' = now + 1
      BY <1>2
      DEF ProjectNext, JoinProject, RequestLeave, FinishLeave, RequestUnstake, FinishUnstake,
          AddFundsToStake, AddFundsToTreasury, WhitelistMembers, RemoveWhitelistedMembers,
          TransferProjectOwnership, EmergencyPauseImmediate, Tick
    <2> QED BY <1>1, <2>1
  <1>3. CASE GovernanceNext
    <2>1. now' = now
      BY <1>3 DEF GovernanceNext, CreateProposal, VoteProposal, TallyProposal, VotingOver,
                  ExecuteProposal, CancelProposal
    <2> QED BY <1>1, <2>1
  <1>4. CASE UNCHANGED vars
    BY <1>1, <1>4 DEF vars, projectVars
  <1> QED BY <1>2, <1>3, <1>4 DEF Next

\* A ballot weighs at most what its account had at stake at creation.
LEMMA WeightWithinHistory ==
    ASSUME TypeOK, StakeVoting, NEW a \in Accounts, NEW p \in ProposalIds
    PROVE  VoteWeight(a, proposals[p]) <= StakeAtTime(history[a], proposals[p].createdAt)
  <1>1. member[a].stake \in Nat /\ history[a] \in Seq(Entry) /\ proposals[p].createdAt \in Nat
    BY DEF TypeOK, ProjectTypeOK, Member, Proposal, Entry
  <1>2. StakeAtTime(history[a], proposals[p].createdAt) \in Nat
    BY <1>1, StakeAtTimeTyped DEF Entry
  <1> QED BY <1>1, <1>2 DEF VoteWeight

\* Voting does not take the voter out of the electorate.
LEMMA VoterStaysElector ==
    ASSUME TypeOK, NEW a \in Accounts, NEW p \in ProposalIds, NEW choices \in ChoiceSets,
           VoteProposal(a, p, choices)
    PROVE  a \in Electorate(p)'
  <1>1. a \in members /\ members' = members /\ member[a].joinSeq < proposals[p].joinSnap
    BY DEF VoteProposal, Eligible
  <1>2. member'[a].joinSeq = member[a].joinSeq
    BY VoteRecord, CommittedRecord
  <1>3. proposals'[p].joinSnap = proposals[p].joinSnap
    BY VoteTerms DEF Continues, SameTerms
  <1> QED BY <1>1, <1>2, <1>3 DEF Electorate

\* A step adds nobody to the roll of a proposal and raises no claim on it, and
\* the receipts it leaves are within the claims.
LEMMA ClaimStep ==
    ASSUME Inv, ClaimsWithin, StakeVoting, [Next]_vars, NEW p \in ProposalIds,
           proposals[p].state # "none", NEW a \in Roll(p)'
    PROVE  /\ a \in Roll(p) /\ Claim(p, a)' <= Claim(p, a)
           /\ a \in Voters(p)' => ballots'[p][a].weight <= Claim(p, a)'
  <1>1. TypeOK /\ TypeOK'
    BY StepTyped DEF Inv
  <1>2. Claim(p, a) \in Nat /\ Claim(p, a)' \in Nat /\ a \in Accounts
    BY <1>1, ClaimTyped, ClaimTypedNext DEF ClaimsTyped
  <1>3. CASE a \in Electorate(p)'
    <2> DEFINE c == proposals[p].createdAt
               stake == StakeAtTime(history[a], c)
    <2>1. a \in Electorate(p) /\ a \in members /\ a \in members'
      BY <1>3, ElectorateStays
    <2>2. c \in Nat /\ c <= now /\ proposals'[p].createdAt = c
      BY <1>1, ProposalStep DEF ClaimsWithin, TypeOK, Proposal, Continues, SameTerms
    <2>3. Claim(p, a) = stake
      BY <2>1 DEF Claim
    <2>4. Claim(p, a)' = StakeAtTime(history'[a], c)
      BY <1>3, <2>2 DEF Claim
    <2>5. StakeAtTime(history'[a], c) = stake
      BY <1>1, <2>1, <2>2, LookupKept
    <2>6. a \in Voters(p)' => ballots'[p][a].weight <= stake
      <3>1. CASE ballots'[p][a] = ballots[p][a]
        BY <1>2, <2>3, <3>1 DEF Voters, ClaimsWithin
      <3>2. CASE \E choices \in ChoiceSets : ballots'[p][a]
                   = [choices |-> choices, weight |-> VoteWeight(a, proposals[p])]
        <4>1. VoteWeight(a, proposals[p]) <= stake
          BY <1>1, <1>2, WeightWithinHistory
        <4> QED BY <3>2, <4>1
      <3> QED BY <1>1, <1>2, <3>1, <3>2, ReceiptStep
    <2> HIDE DEF stake
    <2> QED BY <1>2, <2>1, <2>3, <2>4, <2>5, <2>6 DEF Roll
  <1>4. CASE a \notin Electorate(p)'
    <2>1. a \in Voters(p)' /\ Claim(p, a)' = ballots'[p][a].weight
      BY <1>4 DEF Roll, Claim
    <2>2. ballots'[p][a] = ballots[p][a]
      BY <1>1, <1>2, <1>4, ReceiptStep, VoterStaysElector
    <2>3. a \in Voters(p)
      BY <1>2, <2>1, <2>2 DEF Voters
    <2>4. ballots[p][a].weight <= Claim(p, a)
      BY <2>3 DEF ClaimsWithin
    <2> QED BY <1>2, <2>1, <2>2, <2>3, <2>4 DEF Roll
  <1> QED BY <1>3, <1>4

\* Nobody has a claim on a fresh proposal beyond the stake it holds.
LEMMA ClaimsAtCreation ==
    ASSUME Inv, Settled, NEW a \in Proposers, NEW o \in Outcomes, NEW form \in Forms,
           NEW d \in Durations, CreateProposal(a, o, form, d),
           NEW p \in ProposalIds, p = proposalCount
    PROVE  /\ proposals'[p].createdAt = now' /\ proposals'[p].stakeSnap = stakeTotal
           /\ Voters(p)' = {} /\ Roll(p)' \subseteq members
           /\ \A b \in Roll(p)' : Claim(p, b)' <= member[b].stake
  <1>1. TypeOK /\ ElectorateInv
    BY DEF Inv
  <1>2. /\ proposals[p].state = "none"
        /\ proposals'[p].createdAt = now /\ proposals'[p].stakeSnap = stakeTotal
    <2>1. proposals[p].state = "none" /\ proposals'[p] = NewProposal(a, o, form, d)
      BY <1>1, CreateTerms
    <2> QED BY <2>1 DEF NewProposal
  <1>3. /\ now' = now /\ members' = members /\ history' = history /\ ballots' = ballots
    BY DEF CreateProposal, memberVars, ballotVars
  <1>4. Voters(p) = {}
    BY <1>1, <1>2, NoRollYet DEF Roll
  <1>5. Voters(p)' = {}
    BY <1>3, <1>4 DEF Voters
  <1>6. ASSUME NEW b \in Electorate(p)'
        PROVE  b \in members /\ Claim(p, b)' <= member[b].stake
    <2>1. b \in members
      BY <1>3 DEF Electorate
    <2>2. Claim(p, b)' = StakeAtTime(history[b], now)
      BY <1>2, <1>3 DEF Claim
    <2> QED BY <2>1, <2>2 DEF Settled
  <1> QED BY <1>2, <1>3, <1>5, <1>6 DEF Roll

NoneOnRoll == \A p \in ProposalIds : proposals[p].state = "none" => Roll(p) = {}

LEMMA UnusedRolls == TypeOK /\ ElectorateInv => NoneOnRoll
  BY NoRollYet DEF NoneOnRoll

LEMMA UnusedRollsNext == TypeOK' /\ ElectorateInv' => NoneOnRoll'
  BY UnusedRolls, PTL

\* A proposal id that stays unused keeps its blank record.
LEMMA UncreatedStays ==
    ASSUME TypeOK, [Next]_vars, NEW p \in ProposalIds, proposals'[p].state = "none"
    PROVE  proposals'[p] = proposals[p]
  <1>1. \A a, o, form, d : NewProposal(a, o, form, d).state = "active"
    BY DEF NewProposal
  <1> QED BY <1>1, ProposalStep DEF Continues

LEMMA ClaimsStep ==
    ASSUME Inv, ClaimsWithin, StakeVoting, [Next]_vars, proposalCount' # proposalCount => Settled
    PROVE  ClaimsWithin'
  <1> SUFFICES ASSUME NEW p \in ProposalIds
               PROVE  /\ proposals'[p].createdAt <= now'
                      /\ \A a \in Voters(p)' : ballots'[p][a].weight <= Claim(p, a)'
                      /\ SumFunctionOnSet(Claims(p)', Roll(p)') <= proposals'[p].stakeSnap
    BY DEF ClaimsWithin
  <1>1. /\ TypeOK /\ TypeOK' /\ ElectorateInv /\ ElectorateInv'
        /\ FinanceMatchesMembers /\ ClaimsTyped /\ ClaimsTyped'
    BY InvStep, ClaimTyped, ClaimTypedNext DEF Inv, ProjectInv
  <1>2. now \in Nat /\ now' \in Nat /\ now <= now'
    BY <1>1, TimePasses
  <1> DEFINE before == Claims(p)
             after == Claims(p)'
             roll == Roll(p)'
  <1>3. /\ IsFiniteSet(roll) /\ roll \subseteq Accounts
        /\ \A a \in Accounts : /\ before[a] \in Nat /\ after[a] \in Nat
                               /\ before[a] = Claim(p, a) /\ after[a] = Claim(p, a)'
        /\ IsFiniteSet(Roll(p)) /\ Roll(p) \subseteq Accounts
    BY <1>1 DEF ClaimsTyped
  <1>4. SumFunctionOnSet(after, roll) \in Nat
    <2> HIDE DEF after, roll
    <2> QED BY <1>3, SumIsNat
  <1>5. CASE proposals[p].state # "none"
    <2>1. \A a \in roll : /\ a \in Roll(p) /\ Claim(p, a)' <= Claim(p, a)
                          /\ a \in Voters(p)' => ballots'[p][a].weight <= Claim(p, a)'
      BY <1>5, ClaimStep
    <2>2. /\ proposals[p].createdAt \in Nat /\ proposals[p].stakeSnap \in Nat
          /\ proposals'[p].createdAt = proposals[p].createdAt
          /\ proposals'[p].stakeSnap = proposals[p].stakeSnap
      BY <1>1, <1>5, ProposalStep DEF TypeOK, Proposal, Continues, SameTerms
    <2>3. SumFunctionOnSet(after, roll) <= SumFunctionOnSet(before, roll)
      <3>1. \A a \in roll : before[a] \in Nat /\ after[a] \in Nat /\ after[a] <= before[a]
        BY <1>3, <2>1
      <3> HIDE DEF before, after, roll
      <3> QED BY <1>3, <3>1, SumDominated
    <2>4. /\ SumFunctionOnSet(before, roll) <= SumFunctionOnSet(before, Roll(p))
          /\ SumFunctionOnSet(before, roll) \in Nat
          /\ SumFunctionOnSet(before, Roll(p)) \in Nat
      <3>1. roll \in SUBSET Roll(p)
        BY <2>1
      <3>2. \A a \in Roll(p) : before[a] \in Nat
        BY <1>3
      <3> HIDE DEF before, roll
      <3> QED BY <1>3, <3>1, <3>2, SumOfSubset, SumIsNat
    <2>5. SumFunctionOnSet(before, Roll(p)) <= proposals[p].stakeSnap
      BY DEF ClaimsWithin
    <2>6. SumFunctionOnSet(after, roll) <= proposals'[p].stakeSnap
      <3> HIDE DEF before, after, roll
      <3> QED BY <1>4, <2>2, <2>3, <2>4, <2>5
    <2>7. proposals'[p].createdAt <= now'
      BY <1>2, <2>2 DEF ClaimsWithin
    <2> QED BY <2>1, <2>6, <2>7 DEF Roll
  <1>6. CASE proposals[p].state = "none" /\ proposals'[p].state = "none"
    <2>1. roll = {}
      BY <1>1, <1>6, UnusedRollsNext DEF NoneOnRoll
    <2>2. proposals'[p].createdAt = proposals[p].createdAt
      BY <1>1, <1>6, ProposalStep, UncreatedStays DEF Continues
    <2>3. SumFunctionOnSet(after, roll) = 0
      <3> HIDE DEF after, roll
      <3> QED BY <2>1, SumOfNone
    <2>4. proposals'[p].stakeSnap \in Nat /\ proposals[p].createdAt \in Nat
      BY <1>1 DEF TypeOK, Proposal
    <2>5. Voters(p)' = {}
      BY <2>1 DEF Roll
    <2> QED BY <1>2, <2>2, <2>3, <2>4, <2>5 DEF ClaimsWithin
  <1>7. CASE proposals[p].state = "none" /\ proposals'[p].state # "none"
    <2>1. PICK a \in Proposers, o \in Outcomes, form \in Forms, d \in Durations :
            CreateProposal(a, o, form, d)
      BY <1>1, <1>7, ProposalStep DEF Continues
    <2>2. p = proposalCount /\ Settled
      <3>1. p = proposalCount
        BY <1>1, <1>7, ProposalStep DEF Continues
      <3>2. proposalCount' = proposalCount + 1 /\ proposalCount \in Nat
        BY <1>1, <2>1, <3>1 DEF CreateProposal, ProposalIds
      <3> QED BY <3>1, <3>2
    <2>3. /\ proposals'[p].createdAt = now' /\ proposals'[p].stakeSnap = stakeTotal
          /\ Voters(p)' = {} /\ roll \subseteq members
          /\ \A b \in roll : Claim(p, b)' <= member[b].stake
      BY <2>1, <2>2, ClaimsAtCreation
    <2>4. /\ IsFiniteSet(members) /\ members \subseteq Accounts
          /\ \A b \in Accounts : Stakes[b] \in Nat /\ Stakes[b] = member[b].stake
      BY <1>1, ProjectConstants, FS_Subset
      DEF ProjectConstants, TypeOK, ProjectTypeOK, Member, Stakes
    <2>5. SumFunctionOnSet(after, roll) <= SumFunctionOnSet(Stakes, roll)
      <3>1. \A b \in roll : Stakes[b] \in Nat /\ after[b] \in Nat /\ after[b] <= Stakes[b]
        BY <1>3, <2>3, <2>4
      <3> HIDE DEF after, roll
      <3> QED BY <1>3, <3>1, SumDominated
    <2>6. /\ SumFunctionOnSet(Stakes, roll) <= SumFunctionOnSet(Stakes, members)
          /\ SumFunctionOnSet(Stakes, roll) \in Nat
          /\ SumFunctionOnSet(Stakes, members) \in Nat
      <3> HIDE DEF roll
      <3> QED BY <1>3, <2>3, <2>4, SumOfSubset, SumIsNat
    <2>7. SumFunctionOnSet(Stakes, members) = stakeTotal
      BY <1>1 DEF FinanceMatchesMembers, StakeOf
    <2>8. SumFunctionOnSet(after, roll) <= proposals'[p].stakeSnap
      <3> HIDE DEF after, roll
      <3> QED BY <1>4, <2>3, <2>5, <2>6, <2>7
    <2> QED BY <1>2, <2>3, <2>8
  <1> QED BY <1>5, <1>6, <1>7

LEMMA ClaimsBound ==
    ASSUME TypeOK, ClaimsWithin, StakeVoting, NEW p \in ProposalIds
    PROVE  BallotWeight(p, Voters(p)) <= proposals[p].stakeSnap
  <1> DEFINE f == Claims(p)
             V == Voters(p)
             R == Roll(p)
  <1>1. /\ IsFiniteSet(V) /\ IsFiniteSet(R) /\ V \in SUBSET R
        /\ \A a \in R : f[a] \in Nat
    BY ClaimTyped DEF ClaimsTyped, Roll
  <1>2. \A a \in V : Weighed(p)[a] \in Nat /\ Weighed(p)[a] <= f[a]
    BY DEF TypeOK, ClaimsWithin, Voters, Weighed, Claims
  <1>3. SumFunctionOnSet(f, R) <= proposals[p].stakeSnap /\ proposals[p].stakeSnap \in Nat
    BY DEF ClaimsWithin, TypeOK, Proposal
  <1>4. BallotWeight(p, V) = SumFunctionOnSet(Weighed(p), V)
    BY DEF BallotWeight, Weighed
  <1> HIDE DEF f, V, R
  <1>5. /\ SumFunctionOnSet(Weighed(p), V) <= SumFunctionOnSet(f, V)
        /\ SumFunctionOnSet(Weighed(p), V) \in Nat /\ SumFunctionOnSet(f, V) \in Nat
    <2>1. \A a \in V : f[a] \in Nat
      BY <1>1
    <2> QED BY <1>1, <1>2, <2>1, SumDominated, SumIsNat
  <1>6. SumFunctionOnSet(f, V) <= SumFunctionOnSet(f, R) /\ SumFunctionOnSet(f, R) \in Nat
    BY <1>1, SumOfSubset, SumIsNat
  <1> QED BY <1>3, <1>4, <1>5, <1>6 DEF V

\* By stake: the ballots never weigh more than the stake counted at creation,
\* whatever is topped up, taken out, kicked or joined again afterwards, unless
\* the proposal was created in the very second of a partial unstake: the stake
\* that left is still on record then, and no longer in the total.
THEOREM StakeBallotsBounded ==
    ASSUME StakeVoting PROVE Spec /\ CreatedSettled => []BallotsWithinSnapshot
  <1>1. Inv /\ ClaimsWithin => BallotsWithinSnapshot
    BY ClaimsBound DEF BallotsWithinSnapshot, Inv
  <1>2. Inv /\ ClaimsWithin /\ [Next]_vars /\ [proposalCount' # proposalCount => Settled]_vars
          => ClaimsWithin'
    <2>1. vars' = vars => proposalCount' = proposalCount
      BY DEF vars, governanceVars
    <2> QED BY <2>1, ClaimsStep
  <1> QED BY <1>1, <1>2, ClaimsInit, Invariance, PTL DEF Spec, CreatedSettled
=============================================================================
