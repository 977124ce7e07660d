------------------------- MODULE GovernanceProofs --------------------------
(***************************************************************************)
(* Proofs about module Governance for every value of its constants, on top *)
(* of the lemmas of ProjectSafety about the steps the two modules share.   *)
(***************************************************************************)
EXTENDS Governance, ProjectSafety

Totals == [weight : Nat, voters : Nat]
Receipt == [choices : SUBSET OptionIds, weight : Nat]

-----------------------------------------------------------------------------
(* Type correctness                                                        *)

LEMMA NoProposalTyped == NoProposal \in Proposal /\ NoProposal.state = "none"
  BY GovernanceConstants DEF GovernanceConstants, NoProposal, Proposal, States

LEMMA GovernanceInitTyped == GovernanceInit => TypeOK
  <1> SUFFICES ASSUME GovernanceInit PROVE TypeOK
    OBVIOUS
  <1>1. ProjectTypeOK
    BY ProjectInitTyped DEF GovernanceInit
  <1>2. proposalCount \in 0 .. MaxProposals
    BY GovernanceConstants DEF GovernanceConstants, GovernanceInit
  <1>3. proposals \in [ProposalIds -> Proposal]
    BY NoProposalTyped DEF GovernanceInit
  <1>4. options \in [ProposalIds -> [OptionIds -> [weight : Nat, voters : Nat]]]
    BY DEF GovernanceInit, NoTotals
  <1>5. ballots \in [ProposalIds -> [Accounts -> [choices : SUBSET OptionIds, weight : Nat]]]
    BY DEF GovernanceInit, NoBallot
  <1>6. \A p \in ProposalIds : proposals[p].state = "none" <=> p >= proposalCount
    BY NoProposalTyped, GovernanceConstants
    DEF GovernanceConstants, GovernanceInit, ProposalIds
  <1> QED
    BY <1>1, <1>2, <1>3, <1>4, <1>5, <1>6 DEF TypeOK

LEMMA ConfigTyped ==
    ASSUME ProjectTypeOK
    PROVE  \A k \in ConfigKeys : cfg[k] \in Nat
  BY DEF ProjectTypeOK

LEMMA VotingHoursTyped ==
    ASSUME ProjectTypeOK, NEW d \in Durations
    PROVE  VotingHours(d) \in Nat
  BY GovernanceConstants, ConfigTyped DEF GovernanceConstants, VotingHours, ConfigKeys

LEMMA CreateTyped ==
    ASSUME TypeOK, NEW a \in Proposers, NEW o \in Outcomes, NEW form \in Forms,
           NEW d \in Durations, CreateProposal(a, o, form, d)
    PROVE  TypeOK'
  <1> DEFINE c == cfg["cost"]
  <1>1. ProjectTypeOK
    BY DEF TypeOK
  <1>2. c \in Nat /\ VotingHours(d) \in Nat
    BY <1>1, ConfigTyped, VotingHoursTyped DEF ConfigKeys
  <1>3. OfFunds(c) \in [Assets -> Nat]
    BY <1>2 DEF OfFunds
  <1>4. vault' \in [Assets -> Nat] /\ treasury' \in [Assets -> Nat]
    BY <1>1, <1>3, DonationTyped DEF CreateProposal
  <1>5. ProjectTypeOK'
    BY <1>1, <1>4 DEF CreateProposal, ProjectTypeOK, metaVars, memberVars
  <1>6. /\ a \in Accounts
        /\ form.options \in 0 .. MaxOptions
        /\ form.poll \in BOOLEAN
    BY GovernanceConstants DEF GovernanceConstants
  <1>7. now \in Nat /\ memberCount \in Nat /\ stakeTotal \in Nat /\ joinSeq \in Nat
    BY <1>1 DEF ProjectTypeOK
  <1>8. NewProposal(a, o, form, d) \in Proposal
    BY <1>2, <1>6, <1>7 DEF NewProposal, Proposal, States
  <1>9. /\ proposalCount \in ProposalIds
        /\ proposalCount' = proposalCount + 1
        /\ proposalCount' \in 0 .. MaxProposals
    BY GovernanceConstants DEF GovernanceConstants, CreateProposal, TypeOK, ProposalIds
  <1>10. proposals' = [proposals EXCEPT ![proposalCount] = NewProposal(a, o, form, d)]
    BY DEF CreateProposal
  <1>11. proposals' \in [ProposalIds -> Proposal]
    BY <1>8, <1>9, <1>10 DEF TypeOK
  <1>12. \A p \in ProposalIds : proposals'[p].state = "none" <=> p >= proposalCount'
    <2>1. NewProposal(a, o, form, d).state = "active"
      BY DEF NewProposal
    <2> TAKE p \in ProposalIds
    <2>2. CASE p = proposalCount
      BY <1>9, <1>10, <2>1, <2>2 DEF TypeOK
    <2>3. CASE p # proposalCount
      <3>1. proposals'[p] = proposals[p]
        BY <1>10, <2>3 DEF TypeOK
      <3>2. p >= proposalCount + 1 <=> p >= proposalCount
        BY <1>9, <2>3 DEF ProposalIds
      <3> QED BY <1>9, <3>1, <3>2 DEF TypeOK
    <2> QED BY <2>2, <2>3
  <1> QED
    BY <1>5, <1>9, <1>11, <1>12 DEF CreateProposal, TypeOK, ballotVars

\* Replacing the record of a proposal that exists keeps the records typed.
LEMMA ReplaceTyped ==
    ASSUME TypeOK, NEW p \in ProposalIds, NEW q \in Proposal,
           proposals[p].state # "none", q.state # "none",
           proposals' = [proposals EXCEPT ![p] = q], proposalCount' = proposalCount
    PROVE  /\ proposals' \in [ProposalIds -> Proposal]
           /\ \A k \in ProposalIds : proposals'[k].state = "none" <=> k >= proposalCount'
  BY DEF TypeOK

LEMMA EntryTyped ==
    ASSUME NEW S, NEW h \in Seq(S), NEW i \in DOMAIN h
    PROVE  h[i] \in S
  OBVIOUS

\* A lookup in a history of stakes is a stake.
LEMMA StakeAtTimeTyped ==
    ASSUME NEW h \in Seq([stake : Nat, time : Nat]), NEW t
    PROVE  StakeAtTime(h, t) \in Nat
  <1>1. CASE \E i \in DOMAIN h : IsNewestAt(h, t, i)
    <2>1. PICK i \in DOMAIN h : StakeAtTime(h, t) = h[i].stake
      BY <1>1 DEF StakeAtTime
    <2>2. h[i] \in [stake : Nat, time : Nat]
      BY EntryTyped
    <2> QED BY <2>1, <2>2
  <1>2. CASE ~ \E i \in DOMAIN h : IsNewestAt(h, t, i)
    BY <1>2 DEF StakeAtTime
  <1> QED BY <1>1, <1>2

LEMMA VoteWeightTyped ==
    ASSUME TypeOK, NEW p \in ProposalIds, NEW a \in Accounts
    PROVE  VoteWeight(a, proposals[p]) \in Nat
  <1>1. history[a] \in Seq([stake : Nat, time : Nat]) /\ member[a].stake \in Nat
    BY DEF TypeOK, ProjectTypeOK, Member
  <1>2. StakeAtTime(history[a], proposals[p].createdAt) \in Nat
    BY <1>1, StakeAtTimeTyped
  <1> QED
    BY <1>1, <1>2, TallyConstants DEF TallyConstants, VoteWeight

LEMMA RecountTyped ==
    ASSUME NEW t \in Totals, NEW i \in OptionIds, NEW prev \in Receipt,
           NEW choices \in SUBSET OptionIds, NEW w \in Nat
    PROVE  Recount(t, i, prev, choices, w) \in Totals
  <1> DEFINE less == IF i \notin prev.choices THEN t
                     ELSE [weight |-> IF t.weight > prev.weight
                                      THEN t.weight - prev.weight ELSE 0,
                           voters |-> IF t.voters > 0 THEN t.voters - 1 ELSE 0]
  <1>1. less \in Totals
    BY DEF Totals, Receipt
  <1>2. Recount(t, i, prev, choices, w) =
          IF i \notin choices THEN less
          ELSE [weight |-> less.weight + w, voters |-> less.voters + 1]
    BY DEF Recount
  <1> HIDE DEF less
  <1> QED
    BY <1>1, <1>2 DEF Totals

LEMMA VoteTyped ==
    ASSUME TypeOK, NEW a \in Accounts, NEW p \in ProposalIds, NEW choices \in ChoiceSets,
           VoteProposal(a, p, choices)
    PROVE  TypeOK'
  <1> DEFINE q == proposals[p]
             w == VoteWeight(a, q)
             prev == ballots[p][a]
  <1>1. w \in Nat
    BY VoteWeightTyped
  <1>2. /\ q \in Proposal /\ q.state # "none"
        /\ prev \in Receipt
        /\ choices \in SUBSET OptionIds
    BY GovernanceConstants DEF GovernanceConstants, TypeOK, VoteProposal, TakesVotes, Receipt
  <1>3. options' \in [ProposalIds -> [OptionIds -> Totals]]
    <2>1. \A i \in OptionIds : Recount(options[p][i], i, prev, choices, w) \in Totals
      BY <1>1, <1>2, RecountTyped DEF TypeOK, Totals
    <2>2. options' = [options EXCEPT ![p] =
                        [i \in OptionIds |-> Recount(options[p][i], i, prev, choices, w)]]
      BY DEF VoteProposal, TakesVotes
    <2> HIDE DEF w, prev
    <2> QED BY <2>1, <2>2 DEF TypeOK, Totals
  <1>4. ballots' \in [ProposalIds -> [Accounts -> Receipt]]
    <2>1. [choices |-> choices, weight |-> w] \in Receipt
      BY <1>1, <1>2 DEF Receipt
    <2>2. ballots' = [ballots EXCEPT ![p][a] = [choices |-> choices, weight |-> w]]
      BY DEF VoteProposal, TakesVotes
    <2> HIDE DEF w
    <2> QED BY <2>1, <2>2 DEF TypeOK, Receipt
  <1>5. /\ proposals' \in [ProposalIds -> Proposal]
        /\ \A k \in ProposalIds : proposals'[k].state = "none" <=> k >= proposalCount'
    <2> DEFINE r == [q EXCEPT !.voterCount = @ + 1]
    <2>1. r \in Proposal /\ r.state = q.state
      BY <1>2 DEF Proposal
    <2>2. proposalCount' = proposalCount
      BY DEF VoteProposal, TakesVotes
    <2>3. CASE proposals' = proposals
      BY <2>2, <2>3 DEF TypeOK
    <2>4. CASE proposals' = [proposals EXCEPT ![p] = r]
      <3> HIDE DEF r
      <3> QED BY <1>2, <2>1, <2>2, <2>4, ReplaceTyped
    <2> QED BY <2>3, <2>4 DEF VoteProposal, TakesVotes
  <1>6. ProjectTypeOK'
    <2>1. Deadline(q) \in Nat
      BY <1>2, ProjectConstants DEF ProjectConstants, Proposal, Deadline
    <2>2. Committed(member[a], Deadline(q)) \in Member
      <3>1. member[a] \in Member
        BY DEF TypeOK, ProjectTypeOK
      <3> QED BY <2>1, <3>1 DEF Committed, Member
    <2>3. a \in members /\ member' = [member EXCEPT ![a] = Committed(@, Deadline(q))]
      BY DEF VoteProposal, TakesVotes
    <2>4. /\ member' \in [Accounts -> Member]
          /\ \A b \in Accounts \ members : member'[b] = member[b]
      BY <2>2, <2>3 DEF TypeOK, ProjectTypeOK
    <2> QED
      BY <2>4 DEF VoteProposal, TakesVotes, TypeOK, ProjectTypeOK, metaVars, fundVars
  <1> QED
    BY <1>3, <1>4, <1>5, <1>6 DEF VoteProposal, TakesVotes, TypeOK, Totals, Receipt

LEMMA WinnerTyped ==
    ASSUME TypeOK, NEW p \in ProposalIds
    PROVE  Winner(p) \in Int
  <1> DEFINE w == Weights(p)
  <1>1. DOMAIN w \subseteq Int
    BY DEF Weights, TypeOK, Proposal
  <1> HIDE DEF w
  <1>2. CASE \E i \in DOMAIN w : IsLeading(w, i)
    <2>1. LeadingOption(w) \in DOMAIN w
      BY <1>2 DEF LeadingOption
    <2> QED BY <1>1, <2>1 DEF Winner, w
  <1>3. CASE ~ \E i \in DOMAIN w : IsLeading(w, i)
    BY <1>3 DEF LeadingOption, Winner, w
  <1> QED BY <1>2, <1>3

LEMMA DecidedTyped ==
    ASSUME TypeOK, NEW p \in ProposalIds
    PROVE  /\ Decided(proposals[p], p) \in Proposal
           /\ Decided(proposals[p], p).state = Verdict(p)
           /\ Verdict(p) \in {"failed", "closed", "passed"}
  <1> DEFINE q == proposals[p]
             v == Verdict(p)
             r == IF Carried(p) THEN Winner(p) ELSE q.result
             t == IF v = "passed" THEN ReadyNow(q) ELSE 0
  <1>1. q \in Proposal
    BY DEF TypeOK
  <1>2. v \in {"failed", "closed", "passed"}
    BY DEF Verdict
  <1>3. r \in Int
    BY <1>1, WinnerTyped DEF Proposal
  <1>4. t \in Nat
    <2> DEFINE hours == q.duration + cfg["execDelay"]
    <2>1. hours \in Nat /\ q.createdAt \in Nat
      BY <1>1, ConfigTyped DEF TypeOK, Proposal, ConfigKeys
    <2>2. ReadyNow(q) = q.createdAt + hours * Hour
      BY DEF ReadyNow
    <2> HIDE DEF hours, q
    <2>3. ReadyNow(q) \in Nat
      BY <2>1, <2>2, ProjectConstants DEF ProjectConstants
    <2> QED BY <2>3 DEF t
  <1>5. Decided(q, p) = [q EXCEPT !.state = v, !.result = r, !.executableAt = t]
    BY DEF Decided
  <1> HIDE DEF q, v, r, t
  <1>6. /\ [q EXCEPT !.state = v, !.result = r, !.executableAt = t] \in Proposal
        /\ [q EXCEPT !.state = v, !.result = r, !.executableAt = t].state = v
    BY <1>1, <1>2, <1>3, <1>4 DEF Proposal, States
  <1> QED
    BY <1>2, <1>5, <1>6 DEF q, v

LEMMA TallyTyped ==
    ASSUME TypeOK, NEW p \in ProposalIds, TallyProposal(p)
    PROVE  TypeOK'
  <1>1. /\ proposals' \in [ProposalIds -> Proposal]
        /\ \A k \in ProposalIds : proposals'[k].state = "none" <=> k >= proposalCount'
    BY DecidedTyped, ReplaceTyped DEF TallyProposal, VotingOver
  <1>2. locks' \in [Accounts -> Nat]
    BY DEF TallyProposal, VotingOver, Locked, TypeOK, ProjectTypeOK
  <1>3. ProjectTypeOK'
    BY <1>2 DEF TallyProposal, VotingOver, TypeOK, ProjectTypeOK, metaVars, memberVars, fundVars
  <1> QED
    BY <1>1, <1>3 DEF TallyProposal, VotingOver, TypeOK, ballotVars

LEMMA CancelledTyped ==
    ASSUME NEW q \in Proposal
    PROVE  Cancelled(q) \in Proposal /\ Cancelled(q).state = "cancelled"
  <1> DEFINE r == [q EXCEPT !.state = "cancelled"]
             s == [r EXCEPT !.result = -1]
  <1>1. r \in Proposal /\ r.state = "cancelled"
    BY DEF Proposal, States
  <1>2. Cancelled(q) = [s EXCEPT !.executableAt = 0]
    BY DEF Cancelled
  <1> HIDE DEF r
  <1>3. s \in Proposal /\ s.state = "cancelled"
    BY <1>1 DEF Proposal
  <1> HIDE DEF s
  <1> QED
    BY <1>2, <1>3 DEF Proposal

LEMMA CancelTyped ==
    ASSUME TypeOK, NEW a \in Accounts, NEW p \in ProposalIds, CancelProposal(a, p)
    PROVE  TypeOK'
  <1> DEFINE q == proposals[p]
             refund == Refund(a, q)
  <1>1. q \in Proposal /\ q.state = "active"
    BY DEF TypeOK, CancelProposal
  <1>2. Cancelled(q) \in Proposal /\ Cancelled(q).state = "cancelled"
    BY <1>1, CancelledTyped
  <1>3. /\ proposals' \in [ProposalIds -> Proposal]
        /\ \A k \in ProposalIds : proposals'[k].state = "none" <=> k >= proposalCount'
    BY <1>1, <1>2, ReplaceTyped DEF CancelProposal
  <1>4. /\ refund \in Nat
        /\ treasury[FundsAsset] - refund \in Nat
        /\ vault[FundsAsset] - refund \in Nat
    <2>1. q.costPaid \in Nat /\ treasury[FundsAsset] \in Nat /\ vault[FundsAsset] \in Nat
      BY <1>1, ProjectConstants DEF ProjectConstants, Proposal, TypeOK, ProjectTypeOK
    <2>2. refund \in Nat /\ refund <= treasury[FundsAsset]
      BY <2>1 DEF Refund
    <2>3. refund <= vault[FundsAsset]
      BY DEF CancelProposal
    <2> HIDE DEF refund
    <2> QED BY <2>1, <2>2, <2>3
  <1>5. treasury' \in [Assets -> Nat] /\ vault' \in [Assets -> Nat]
    <2>1. /\ treasury' = [treasury EXCEPT ![FundsAsset] = @ - refund]
          /\ vault' = [vault EXCEPT ![FundsAsset] = @ - refund]
      BY DEF CancelProposal, TreasuryAfterRefund
    <2> HIDE DEF refund
    <2> QED BY <1>4, <2>1 DEF TypeOK, ProjectTypeOK
  <1>6. ProjectTypeOK'
    BY <1>5 DEF CancelProposal, TypeOK, ProjectTypeOK, metaVars, memberVars
  <1> QED
    BY <1>3, <1>6 DEF CancelProposal, TypeOK, ballotVars

\* Every outcome a proposal can hold is a well-formed one.
LEMMA OutcomeOfProposal ==
    ASSUME TypeOK, NEW p \in ProposalIds
    PROVE  IsOutcome(proposals[p].outcome)
  BY GovernanceConstants DEF GovernanceConstants, TypeOK, Proposal

\* What an outcome takes from an asset is a sum of naturals.
LEMMA SpentTyped ==
    ASSUME NEW o, IsOutcome(o), NEW x \in Assets
    PROVE  PaidOut(o, x) \in Nat /\ Allowed(o, x) \in Nat /\ Spent(o, x) \in Nat
  <1>1. PaidOut(o, x) \in Nat
    <2> DEFINE f == [a \in Accounts |-> o.payout[a][x]]
    <2>1. \A a \in Accounts : f[a] \in Nat
      BY DEF IsOutcome, IsPayout, AreCalls
    <2>2. IsFiniteSet(Accounts)
      BY ProjectConstants DEF ProjectConstants
    <2> HIDE DEF f
    <2>3. SumFunctionOnSet(f, Accounts) \in Nat
      BY <2>1, <2>2, SumIsNat
    <2> QED BY <2>3 DEF PaidOut, f
  <1>2. Allowed(o, x) \in Nat
    <2> DEFINE c == o.calls
               f == [i \in DOMAIN c |-> c[i][x]]
    <2>1. c \in Seq([Assets -> Nat])
      BY DEF IsOutcome, IsPayout, AreCalls
    <2>2. IsFiniteSet(DOMAIN c)
      <3> HIDE DEF c
      <3>1. DOMAIN c = 1 .. Len(c) /\ Len(c) \in Nat
        BY <2>1
      <3> QED BY <3>1, FS_Interval
    <2>3. \A i \in DOMAIN c : f[i] \in Nat
      <3> HIDE DEF c
      <3> SUFFICES ASSUME NEW i \in DOMAIN c PROVE c[i][x] \in Nat
        OBVIOUS
      <3>1. c[i] \in [Assets -> Nat]
        BY <2>1
      <3> QED BY <3>1
    <2>4. SumFunctionOnSet(f, DOMAIN c) \in Nat
      <3> HIDE DEF f, c
      <3> QED BY <2>2, <2>3, SumIsNat
    <2> QED BY <2>4 DEF Allowed
  <1> QED BY <1>1, <1>2 DEF Spent

\* What an execution does besides moving money.
LEMMA ApplyTyped ==
    ASSUME ProjectTypeOK, NEW o, IsOutcome(o), ApplyOutcome(o), now' = now,
           treasury' \in [Assets -> Nat], vault' \in [Assets -> Nat],
           unspent' \in [Assets -> Nat]
    PROVE  ProjectTypeOK'
  <1> DEFINE K == Kicked(o)
  <1>1. locks' \in [Accounts -> Nat]
    <2>1. locks \in [Accounts -> Nat] /\ locks' = Released(o)
      BY DEF ApplyOutcome, ProjectTypeOK
    <2> QED BY <2>1 DEF Released
  <1>2. K \in SUBSET Accounts /\ RemoveMembers(K)
    BY DEF Kicked, ProjectTypeOK, ApplyOutcome
  <1>3. owner' \in Accounts \cup {NoAccount}
    BY DEF ApplyOutcome, OwnerAfter, IsOutcome, AreDirectives, ProjectTypeOK
  <1>4. paused' \in BOOLEAN
    BY DEF ApplyOutcome
  <1>5. cfg' \in [ConfigKeys -> Nat]
    BY DEF ApplyOutcome, ConfigAfter, IsOutcome, AreDirectives, ProjectTypeOK
  <1>6. whitelist' \subseteq Accounts
    BY DEF ApplyOutcome, WhitelistAfter, Approve, Disapprove, IsOutcome, AreDirectives,
           ProjectTypeOK
  <1> HIDE DEF K
  <1>7. /\ members' \subseteq Accounts
        /\ member' \in [Accounts -> Member]
        /\ history' \in [Accounts -> Seq([stake : Nat, time : Nat])]
        /\ joinSeq' \in Nat
        /\ memberCount' \in Nat
        /\ stakeTotal' \in Nat
        /\ \A b \in Accounts \ members' : member'[b] = NoMember /\ history'[b] = <<>>
    BY <1>2, RemovalTyped
  <1> QED
    BY <1>1, <1>3, <1>4, <1>5, <1>6, <1>7 DEF ProjectTypeOK

\* The record of a proposal that becomes executed.
LEMMA ExecutedTyped ==
    ASSUME TypeOK, NEW p \in ProposalIds, proposals[p].state = "passed",
           proposals' = [proposals EXCEPT ![p].state = "executed"],
           proposalCount' = proposalCount
    PROVE  /\ proposals' \in [ProposalIds -> Proposal]
           /\ \A k \in ProposalIds : proposals'[k].state = "none" <=> k >= proposalCount'
  <1> DEFINE q == proposals[p]
  <1>1. q \in Proposal
    BY DEF TypeOK
  <1>2. [q EXCEPT !.state = "executed"] \in Proposal
    BY <1>1 DEF Proposal, States
  <1>3. proposals' = [proposals EXCEPT ![p] = [q EXCEPT !.state = "executed"]]
    OBVIOUS
  <1>4. [q EXCEPT !.state = "executed"].state = "executed"
    BY <1>1 DEF Proposal
  <1> QED BY <1>1, <1>2, <1>3, <1>4, ReplaceTyped

LEMMA ExecuteTyped ==
    ASSUME TypeOK, NEW a \in Accounts, NEW p \in ProposalIds,
           NEW drawn \in Draws(proposals[p].outcome), ExecuteProposal(a, p, drawn)
    PROVE  TypeOK'
  <1> DEFINE o == proposals[p].outcome
             K == Kicked(o)
  <1>1. IsOutcome(o) /\ ProjectTypeOK
    BY OutcomeOfProposal DEF TypeOK
  <1>2. /\ proposals' \in [ProposalIds -> Proposal]
        /\ \A k \in ProposalIds : proposals'[k].state = "none" <=> k >= proposalCount'
    BY ExecutedTyped DEF ExecuteProposal, Executable
  <1>3. ASSUME NEW x \in Assets
        PROVE  /\ treasury[x] - Spent(o, x) \in Nat
               /\ vault[x] - Outflow(o, drawn, x) \in Nat
               /\ unspent[x] + Allowed(o, x) - drawn[x] \in Nat
    <2>1. /\ PaidOut(o, x) \in Nat /\ Allowed(o, x) \in Nat
          /\ treasury[x] \in Nat /\ vault[x] \in Nat /\ unspent[x] \in Nat
      BY <1>1, SpentTyped DEF ProjectTypeOK
    <2>2. /\ drawn[x] \in 0 .. Allowed(o, x)
          /\ Spent(o, x) <= treasury[x]
          /\ Outflow(o, drawn, x) <= vault[x]
          /\ StakeOf(K) \in 0 .. stakeTotal
      BY DEF ExecuteProposal, ApplyOutcome, RemoveMembers
    <2>3. Spent(o, x) \in Nat
      BY <2>1 DEF Spent
    <2>4. Outflow(o, drawn, x) \in Nat
      BY <1>1, <2>1, <2>2 DEF Outflow, ProjectTypeOK
    <2> QED BY <2>1, <2>2, <2>3, <2>4
  <1>4. /\ treasury' \in [Assets -> Nat]
        /\ vault' \in [Assets -> Nat]
        /\ unspent' \in [Assets -> Nat]
    BY <1>3 DEF ExecuteProposal
  <1>5. ProjectTypeOK'
    BY <1>1, <1>4, ApplyTyped DEF ExecuteProposal
  <1> QED
    BY <1>2, <1>5 DEF ExecuteProposal, TypeOK, ballotVars

LEMMA StepTyped == TypeOK /\ [Next]_vars => TypeOK'
  <1> SUFFICES ASSUME TypeOK, [Next]_vars PROVE TypeOK'
    OBVIOUS
  <1>1. CASE ProjectNext /\ UNCHANGED governanceVars
    BY <1>1, ProjectStepTyped DEF TypeOK, governanceVars, ballotVars
  <1>2. CASE GovernanceNext
    <2>1. ASSUME NEW a \in Proposers, NEW o \in Outcomes, NEW form \in Forms,
                 NEW d \in Durations, CreateProposal(a, o, form, d)
          PROVE  TypeOK'
      BY <2>1, CreateTyped
    <2>2. ASSUME NEW a \in Accounts, NEW p \in ProposalIds,
                 \/ \E choices \in ChoiceSets : VoteProposal(a, p, choices)
                 \/ \E drawn \in Draws(proposals[p].outcome) : ExecuteProposal(a, p, drawn)
                 \/ CancelProposal(a, p)
          PROVE  TypeOK'
      BY <2>2, VoteTyped, ExecuteTyped, CancelTyped
    <2>3. ASSUME NEW p \in ProposalIds, TallyProposal(p)
          PROVE  TypeOK'
      BY <2>3, TallyTyped
    <2> QED BY <1>2, <2>1, <2>2, <2>3 DEF GovernanceNext
  <1>3. CASE UNCHANGED vars
    <2>1. ProjectTypeOK'
      BY <1>3, ProjectStepTyped DEF TypeOK, vars
    <2> QED
      BY <1>3, <2>1 DEF TypeOK, vars, governanceVars, ballotVars
  <1> QED BY <1>1, <1>2, <1>3 DEF Next

\* Every stored value has its type, for every history of calls: no aggregate,
\* balance or lock counter goes below zero.
THEOREM Typed == Spec => []TypeOK
  BY GovernanceInitTyped, StepTyped, PTL DEF Spec
=============================================================================
