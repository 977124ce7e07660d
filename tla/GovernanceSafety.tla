-------------------------- MODULE GovernanceSafety --------------------------
(***************************************************************************)
(* Safety of a project under proposals, for every value of the constants:  *)
(* what ProjectSafety proves of the membership entry points also holds     *)
(* when proposals vote, pay, kick and reconfigure; payout locks are exact; *)
(* the electorate never outgrows the count it is measured by; treasury     *)
(* funds leave by a decision.                                              *)
(***************************************************************************)
EXTENDS GovernanceProofs

-----------------------------------------------------------------------------
(* The project's invariant under the steps of proposals                    *)

\* Steps that leave the member records and the clock alone.
LEMMA SameMembersKeep ==
    ASSUME ProjectInv, UNCHANGED <<memberVars, now>>
    PROVE  FinanceMatchesMembers' /\ MinimumKept' /\ HistoryKept'
  <1>1. UNCHANGED <<members, member, history, memberCount, stakeTotal, now>>
    BY DEF memberVars
  <1>2. FinanceMatchesMembers'
    <2>1. Stakes' = Stakes
      BY <1>1 DEF Stakes
    <2> QED BY <1>1, <2>1, FinanceOfSameMembers DEF ProjectInv
  <1>3. MinimumKept' /\ HistoryKept'
    BY <1>1 DEF ProjectInv, MinimumKept, HistoryKept
  <1> QED BY <1>2, <1>3

\* The cost of a proposal enters the treasury and the host ledger together.
LEMMA CreateLedger ==
    ASSUME ProjectTypeOK, LedgerBalanced, NEW a \in Proposers, NEW o \in Outcomes,
           NEW form \in Forms, NEW d \in Durations, CreateProposal(a, o, form, d)
    PROVE  LedgerBalanced'
  <1> DEFINE c == cfg["cost"]
  <1>1. c \in Nat
    BY ConfigTyped DEF ConfigKeys
  <1>2. ASSUME NEW x \in Assets
        PROVE  vault'[x] = treasury'[x] + unspent'[x]
                             + (IF x = FundsAsset THEN stakeTotal' ELSE 0)
    <2>1. vault[x] = treasury[x] + unspent[x] + (IF x = FundsAsset THEN stakeTotal ELSE 0)
      BY DEF LedgerBalanced
    <2>2. /\ vault'[x] = vault[x] + OfFunds(c)[x]
          /\ treasury'[x] = treasury[x] + OfFunds(c)[x]
      BY DEF CreateProposal, Drawn, Donated
    <2>3. OfFunds(c)[x] \in Nat
      BY <1>1 DEF OfFunds
    <2>4. unspent'[x] = unspent[x] /\ stakeTotal' = stakeTotal
      BY DEF CreateProposal, memberVars
    <2>5. vault[x] \in Nat /\ treasury[x] \in Nat /\ unspent[x] \in Nat /\ stakeTotal \in Nat
      BY BalancesTyped
    <2> QED BY <2>1, <2>2, <2>3, <2>4, <2>5
  <1> QED BY <1>2 DEF LedgerBalanced

LEMMA CreateKeeps ==
    ASSUME ProjectInv, NEW a \in Proposers, NEW o \in Outcomes, NEW form \in Forms,
           NEW d \in Durations, CreateProposal(a, o, form, d)
    PROVE  /\ FinanceMatchesMembers' /\ LedgerBalanced' /\ OwnerIsMember'
           /\ MinimumKept' /\ HistoryKept'
  <1>1. UNCHANGED <<memberVars, now, owner>>
    BY DEF CreateProposal, metaVars
  <1>2. OwnerIsMember'
    BY <1>1 DEF ProjectInv, OwnerIsMember, HasOwner, memberVars
  <1>3. LedgerBalanced'
    BY CreateLedger DEF ProjectInv
  <1> QED BY <1>1, <1>2, <1>3, SameMembersKeep

\* A ballot changes nothing of a record but the vote lock and the exit.
LEMMA CommittedRecord ==
    ASSUME NEW m \in Member, NEW t \in Nat
    PROVE  /\ Committed(m, t).stake = m.stake
           /\ Committed(m, t).joinSeq = m.joinSeq
           /\ Committed(m, t).exitRequested = 0
           /\ Committed(m, t).unstakeRequested = m.unstakeRequested
           /\ Committed(m, t).unstakePending = m.unstakePending
           /\ Committed(m, t).voteLockUntil >= t
           /\ Committed(m, t).voteLockUntil >= m.voteLockUntil
  <1> DEFINE l == IF t > m.voteLockUntil THEN t ELSE m.voteLockUntil
  <1>1. l >= t /\ l >= m.voteLockUntil /\ l \in Nat
    BY DEF Member
  <1>2. Committed(m, t) = [m EXCEPT !.voteLockUntil = l, !.exitRequested = 0]
    BY DEF Committed
  <1> HIDE DEF l
  <1> QED BY <1>1, <1>2 DEF Member

LEMMA VoteRecord ==
    ASSUME TypeOK, NEW a \in Accounts, NEW p \in ProposalIds, NEW choices \in ChoiceSets,
           VoteProposal(a, p, choices)
    PROVE  /\ a \in members
           /\ \A b \in Accounts \ {a} : member'[b] = member[b]
           /\ member'[a] = Committed(member[a], Deadline(proposals[p]))
           /\ Deadline(proposals[p]) \in Nat
           /\ member[a] \in Member
           /\ UNCHANGED <<members, memberCount, stakeTotal, history, now, owner>>
  <1>1. proposals[p] \in Proposal
    BY DEF TypeOK
  <1>2. Deadline(proposals[p]) \in Nat
    <2>1. proposals[p].createdAt \in Nat /\ proposals[p].duration \in Nat /\ Hour \in Nat
      BY <1>1, ProjectConstants DEF ProjectConstants, Proposal
    <2> QED BY <2>1 DEF Deadline
  <1>3. member \in [Accounts -> Member]
    BY DEF TypeOK, ProjectTypeOK
  <1>4. member' = [member EXCEPT ![a] = Committed(@, Deadline(proposals[p]))]
    BY DEF VoteProposal, TakesVotes
  <1> QED
    BY <1>2, <1>3, <1>4 DEF VoteProposal, TakesVotes, metaVars

LEMMA VoteKeeps ==
    ASSUME TypeOK, ProjectInv, NEW a \in Accounts, NEW p \in ProposalIds,
           NEW choices \in ChoiceSets, VoteProposal(a, p, choices)
    PROVE  /\ FinanceMatchesMembers' /\ LedgerBalanced' /\ OwnerIsMember'
           /\ MinimumKept' /\ HistoryKept'
  <1>1. /\ a \in members
        /\ \A b \in Accounts \ {a} : member'[b] = member[b]
        /\ UNCHANGED <<members, memberCount, stakeTotal, history, now, owner>>
        /\ member'[a].stake = member[a].stake
        /\ member'[a].exitRequested = 0
        /\ member'[a].unstakeRequested = member[a].unstakeRequested
        /\ member'[a].unstakePending = member[a].unstakePending
    BY VoteRecord, CommittedRecord
  <1>2. ProjectTypeOK /\ members \subseteq Accounts
    BY DEF ProjectInv, ProjectTypeOK
  <1>3. FinanceMatchesMembers'
    <2>1. Stakes' = Stakes
      BY <1>1, <1>2 DEF Stakes
    <2> QED BY <1>1, <1>2, <2>1, FinanceOfSameMembers DEF ProjectInv
  <1>4. LedgerBalanced'
    BY <1>1 DEF VoteProposal, TakesVotes, fundVars, ProjectInv, LedgerBalanced
  <1>5. OwnerIsMember'
    BY <1>1 DEF ProjectInv, OwnerIsMember, HasOwner
  <1>6. MinimumKept'
    BY <1>1, <1>2 DEF ProjectInv, MinimumKept, MinimumHeld
  <1>7. HistoryKept'
    <2>1. ExitAfter(history[a], 0)
      BY DEF ExitAfter
    <2> QED BY <1>1, <1>2, <2>1 DEF ProjectInv, HistoryKept
  <1> QED BY <1>3, <1>4, <1>5, <1>6, <1>7

LEMMA TallyKeeps ==
    ASSUME ProjectInv, NEW p \in ProposalIds, TallyProposal(p)
    PROVE  /\ FinanceMatchesMembers' /\ LedgerBalanced' /\ OwnerIsMember'
           /\ MinimumKept' /\ HistoryKept'
  <1>1. UNCHANGED <<memberVars, now, owner, vault, treasury, unspent>>
    BY DEF TallyProposal, VotingOver, metaVars, fundVars
  <1>2. LedgerBalanced' /\ OwnerIsMember'
    BY <1>1 DEF ProjectInv, LedgerBalanced, OwnerIsMember, HasOwner, memberVars
  <1> QED BY <1>1, <1>2, SameMembersKeep

\* A refunded cost leaves the treasury and the host ledger together.
LEMMA CancelLedger ==
    ASSUME TypeOK, LedgerBalanced, NEW a \in Accounts, NEW p \in ProposalIds,
           CancelProposal(a, p)
    PROVE  LedgerBalanced'
  <1> DEFINE n == Refund(a, proposals[p])
  <1>1. n \in Nat
    BY DEF Refund, TypeOK, Proposal
  <1>2. /\ treasury' = [treasury EXCEPT ![FundsAsset] = @ - n]
        /\ vault' = [vault EXCEPT ![FundsAsset] = @ - n]
    BY DEF CancelProposal, TreasuryAfterRefund
  <1> HIDE DEF n
  <1>3. ASSUME NEW x \in Assets
        PROVE  vault'[x] = treasury'[x] + unspent'[x]
                             + (IF x = FundsAsset THEN stakeTotal' ELSE 0)
    <2>1. vault[x] = treasury[x] + unspent[x] + (IF x = FundsAsset THEN stakeTotal ELSE 0)
      BY DEF LedgerBalanced
    <2>2. /\ vault'[x] = IF x = FundsAsset THEN vault[x] - n ELSE vault[x]
          /\ treasury'[x] = IF x = FundsAsset THEN treasury[x] - n ELSE treasury[x]
      BY <1>2 DEF TypeOK, ProjectTypeOK
    <2>3. unspent'[x] = unspent[x] /\ stakeTotal' = stakeTotal
      BY DEF CancelProposal, memberVars
    <2>4. vault[x] \in Nat /\ treasury[x] \in Nat /\ unspent[x] \in Nat /\ stakeTotal \in Nat
      BY BalancesTyped DEF TypeOK
    <2> QED BY <1>1, <2>1, <2>2, <2>3, <2>4
  <1> QED BY <1>3 DEF LedgerBalanced

LEMMA CancelKeeps ==
    ASSUME TypeOK, ProjectInv, NEW a \in Accounts, NEW p \in ProposalIds,
           CancelProposal(a, p)
    PROVE  /\ FinanceMatchesMembers' /\ LedgerBalanced' /\ OwnerIsMember'
           /\ MinimumKept' /\ HistoryKept'
  <1>1. UNCHANGED <<memberVars, now, owner>>
    BY DEF CancelProposal, metaVars
  <1>2. OwnerIsMember'
    BY <1>1 DEF ProjectInv, OwnerIsMember, HasOwner, memberVars
  <1>3. LedgerBalanced'
    BY CancelLedger DEF ProjectInv
  <1> QED BY <1>1, <1>2, <1>3, SameMembersKeep

\* Those who are not removed keep their records.
LEMMA RemovalKeeps ==
    ASSUME ProjectInv, NEW K \in SUBSET members, RemoveMembers(K), now' = now
    PROVE  MinimumKept' /\ HistoryKept'
  <1>1. /\ members' = members \ K /\ members \subseteq Accounts
        /\ \A b \in Accounts \ K : member'[b] = member[b] /\ history'[b] = history[b]
    BY DEF RemoveMembers, ProjectInv, ProjectTypeOK
  <1>2. MinimumKept'
    BY <1>1 DEF ProjectInv, MinimumKept
  <1>3. HistoryKept'
    BY <1>1 DEF ProjectInv, HistoryKept
  <1> QED BY <1>2, <1>3

\* Payouts, allowances, draws and refunded stakes leave the ledger balanced.
LEMMA OutflowBalanced ==
    ASSUME ProjectTypeOK, LedgerBalanced, NEW x \in Assets,
           NEW paid \in Nat, NEW granted \in Nat, NEW drawn \in Nat, NEW refund \in Nat,
           stakeTotal' = stakeTotal - refund,
           vault'[x] = vault[x] - (paid + drawn + (IF x = FundsAsset THEN refund ELSE 0)),
           treasury'[x] = treasury[x] - (paid + granted),
           unspent'[x] = unspent[x] + granted - drawn
    PROVE  vault'[x] = treasury'[x] + unspent'[x]
                         + (IF x = FundsAsset THEN stakeTotal' ELSE 0)
  <1>1. vault[x] = treasury[x] + unspent[x] + (IF x = FundsAsset THEN stakeTotal ELSE 0)
    BY DEF LedgerBalanced
  <1>2. vault[x] \in Nat /\ treasury[x] \in Nat /\ unspent[x] \in Nat /\ stakeTotal \in Nat
    BY BalancesTyped
  <1> QED BY <1>1, <1>2

LEMMA ExecuteLedger ==
    ASSUME TypeOK, LedgerBalanced, NEW a \in Accounts, NEW p \in ProposalIds,
           NEW drawn \in Draws(proposals[p].outcome), ExecuteProposal(a, p, drawn)
    PROVE  LedgerBalanced'
  <1> DEFINE o == proposals[p].outcome
             K == Kicked(o)
             refund == StakeOf(K)
  <1>1. RemoveMembers(K)
    BY DEF ExecuteProposal, ApplyOutcome
  <1>2. IsOutcome(o) /\ ProjectTypeOK
    BY OutcomeOfProposal DEF TypeOK
  <1>3. stakeTotal' = stakeTotal - refund /\ refund \in Nat
    BY <1>1, <1>2 DEF RemoveMembers, ProjectTypeOK
  <1>4. ASSUME NEW x \in Assets
        PROVE  vault'[x] = treasury'[x] + unspent'[x]
                             + (IF x = FundsAsset THEN stakeTotal' ELSE 0)
    <2>1. /\ vault'[x] = vault[x] - Outflow(o, drawn, x)
          /\ treasury'[x] = treasury[x] - Spent(o, x)
          /\ unspent'[x] = unspent[x] + Allowed(o, x) - drawn[x]
          /\ drawn[x] \in 0 .. Allowed(o, x)
      BY DEF ExecuteProposal, ApplyOutcome
    <2>2. PaidOut(o, x) \in Nat /\ Allowed(o, x) \in Nat
      BY <1>2, SpentTyped
    <2>3. drawn[x] \in Nat
      BY <2>1, <2>2
    <2>4. /\ Outflow(o, drawn, x) = PaidOut(o, x) + drawn[x]
                                      + (IF x = FundsAsset THEN refund ELSE 0)
          /\ Spent(o, x) = PaidOut(o, x) + Allowed(o, x)
      BY DEF Outflow, Spent
    <2> HIDE DEF o, K, refund
    <2> QED BY <1>2, <1>3, <2>1, <2>2, <2>3, <2>4, OutflowBalanced
  <1> QED BY <1>4 DEF LedgerBalanced

LEMMA ExecuteKeeps ==
    ASSUME TypeOK, ProjectInv, NEW a \in Accounts, NEW p \in ProposalIds,
           NEW drawn \in Draws(proposals[p].outcome), ExecuteProposal(a, p, drawn)
    PROVE  /\ FinanceMatchesMembers' /\ LedgerBalanced' /\ OwnerIsMember'
           /\ MinimumKept' /\ HistoryKept'
  <1> DEFINE o == proposals[p].outcome
             K == Kicked(o)
  <1>1. K \in SUBSET members /\ RemoveMembers(K) /\ now' = now
    BY DEF Kicked, ExecuteProposal, ApplyOutcome
  <1>2. FinanceMatchesMembers'
    BY <1>1, RemovalFinance DEF ProjectInv
  <1>3. MinimumKept' /\ HistoryKept'
    BY <1>1, RemovalKeeps
  <1>4. OwnerIsMember'
    <2>1. members' = members \ K
      BY <1>1 DEF RemoveMembers
    <2>2. owner' = OwnerAfter(o) /\ KickAllowed(o, Released(o)) /\ OwnerAllowed(o)
      BY DEF ExecuteProposal, ApplyOutcome
    <2>3. HasOwner => owner \in members
      BY DEF ProjectInv, OwnerIsMember
    <2>4. HasOwner => owner \notin K
      BY <2>2 DEF KickAllowed
    <2>5. OwnerAfter(o) # NoAccount => OwnerAfter(o) \in members \ K
      BY <2>2, <2>3, <2>4 DEF OwnerAfter, OwnerAllowed, HasOwner
    <2> QED BY <2>1, <2>2, <2>5 DEF OwnerIsMember, HasOwner
  <1>5. LedgerBalanced'
    BY ExecuteLedger DEF ProjectInv
  <1> QED BY <1>2, <1>3, <1>4, <1>5

LEMMA ProjectInvKept == TypeOK /\ ProjectInv /\ [Next]_vars => ProjectInv'
  <1> SUFFICES ASSUME TypeOK, ProjectInv, [Next]_vars PROVE ProjectInv'
    OBVIOUS
  <1>1. ProjectTypeOK'
    BY StepTyped DEF TypeOK
  <1>2. CASE ProjectNext
    BY <1>2, ProjectInvStep
  <1>3. CASE GovernanceNext
    <2>1. ASSUME NEW a \in Proposers, NEW o \in Outcomes, NEW form \in Forms,
                 NEW d \in Durations, CreateProposal(a, o, form, d)
          PROVE  ProjectInv'
      BY <1>1, <2>1, CreateKeeps DEF ProjectInv
    <2>2. ASSUME NEW a \in Accounts, NEW p \in ProposalIds, NEW choices \in ChoiceSets,
                 VoteProposal(a, p, choices)
          PROVE  ProjectInv'
      BY <1>1, <2>2, VoteKeeps DEF ProjectInv
    <2>3. ASSUME NEW a \in Accounts, NEW p \in ProposalIds,
                 NEW drawn \in Draws(proposals[p].outcome), ExecuteProposal(a, p, drawn)
          PROVE  ProjectInv'
      <3>1. FinanceMatchesMembers' /\ LedgerBalanced' /\ OwnerIsMember'
              /\ MinimumKept' /\ HistoryKept'
        BY <2>3, ExecuteKeeps
      <3> QED BY <1>1, <3>1 DEF ProjectInv
    <2>4. ASSUME NEW a \in Accounts, NEW p \in ProposalIds, CancelProposal(a, p)
          PROVE  ProjectInv'
      BY <1>1, <2>4, CancelKeeps DEF ProjectInv
    <2>5. ASSUME NEW p \in ProposalIds, TallyProposal(p)
          PROVE  ProjectInv'
      BY <1>1, <2>5, TallyKeeps DEF ProjectInv
    <2> QED BY <1>3, <2>1, <2>2, <2>3, <2>4, <2>5 DEF GovernanceNext
  <1>4. CASE UNCHANGED vars
    BY <1>4, ProjectInvStep DEF vars
  <1> QED BY <1>2, <1>3, <1>4 DEF Next

\* The finance record and the host ledger each keep on their own.
LEMMA FinanceKept ==
    ASSUME TypeOK, FinanceMatchesMembers, [Next]_vars
    PROVE  FinanceMatchesMembers'
  <1>1. ProjectTypeOK
    BY DEF TypeOK
  <1>2. CASE [ProjectNext]_projectVars
    BY <1>1, <1>2, FinanceStep
  <1>3. ASSUME UNCHANGED memberVars
        PROVE  FinanceMatchesMembers'
    <2>1. Stakes' = Stakes
      BY <1>3 DEF memberVars, Stakes
    <2> QED BY <1>1, <1>3, <2>1, FinanceOfSameMembers DEF memberVars
  <1>4. ASSUME NEW a \in Accounts, NEW p \in ProposalIds, NEW choices \in ChoiceSets,
               VoteProposal(a, p, choices)
        PROVE  FinanceMatchesMembers'
    <2>1. /\ \A b \in Accounts \ {a} : member'[b] = member[b]
          /\ UNCHANGED <<members, memberCount, stakeTotal>>
          /\ member'[a].stake = member[a].stake
      BY <1>4, VoteRecord, CommittedRecord
    <2>2. Stakes' = Stakes
      BY <2>1 DEF Stakes
    <2> QED BY <1>1, <2>1, <2>2, FinanceOfSameMembers
  <1>5. ASSUME NEW a \in Accounts, NEW p \in ProposalIds,
               NEW drawn \in Draws(proposals[p].outcome), ExecuteProposal(a, p, drawn)
        PROVE  FinanceMatchesMembers'
    <2> DEFINE K == Kicked(proposals[p].outcome)
    <2>1. K \in SUBSET members /\ RemoveMembers(K)
      BY <1>5 DEF Kicked, ExecuteProposal, ApplyOutcome
    <2> HIDE DEF K
    <2> QED BY <1>1, <2>1, RemovalFinance
  <1>6. CASE GovernanceNext
    BY <1>3, <1>4, <1>5, <1>6
    DEF GovernanceNext, CreateProposal, TallyProposal, VotingOver, CancelProposal
  <1> QED BY <1>2, <1>6 DEF Next, vars

LEMMA LedgerKept ==
    ASSUME TypeOK, LedgerBalanced, [Next]_vars
    PROVE  LedgerBalanced'
  <1>1. ProjectTypeOK
    BY DEF TypeOK
  <1>2. CASE [ProjectNext]_projectVars
    BY <1>1, <1>2, LedgerStep
  <1>3. ASSUME UNCHANGED <<vault, treasury, unspent, stakeTotal>>
        PROVE  LedgerBalanced'
    BY <1>3 DEF LedgerBalanced
  <1>4. ASSUME NEW p \in ProposalIds, TallyProposal(p)
        PROVE  LedgerBalanced'
    BY <1>3, <1>4 DEF TallyProposal, VotingOver, fundVars, memberVars
  <1>5. ASSUME NEW a \in Accounts, NEW p \in ProposalIds, NEW choices \in ChoiceSets,
               VoteProposal(a, p, choices)
        PROVE  LedgerBalanced'
    BY <1>3, <1>5 DEF VoteProposal, TakesVotes, fundVars
  <1>6. CASE GovernanceNext
    BY <1>1, <1>4, <1>5, <1>6, CreateLedger, CancelLedger, ExecuteLedger DEF GovernanceNext
  <1> QED BY <1>2, <1>6 DEF Next, vars

-----------------------------------------------------------------------------
(* Payout locks                                                            *)

\* The passed proposals that pay a.
Promises(a) == {p \in ProposalIds :
                   proposals[p].state = "passed" /\ a \in Payees(proposals[p].outcome)}

LEMMA PromisesFinite ==
    ASSUME NEW a
    PROVE  IsFiniteSet(Promises(a)) /\ Cardinality(Promises(a)) \in Nat
  <1>1. IsFiniteSet(ProposalIds)
    <2>1. 0 \in Int /\ MaxProposals - 1 \in Int
      BY GovernanceConstants DEF GovernanceConstants
    <2> QED BY <2>1, FS_Interval DEF ProposalIds
  <1>2. Promises(a) \subseteq ProposalIds
    BY DEF Promises
  <1> QED BY <1>1, <1>2, FS_Subset, FS_CardinalityType

LEMMA LocksByPromises ==
    PayoutLocksExact <=> \A a \in Accounts : locks[a] = Cardinality(Promises(a))
  BY DEF PayoutLocksExact, Promises

LEMMA LocksInit == GovernanceInit => PayoutLocksExact
  <1> SUFFICES ASSUME GovernanceInit, NEW a \in Accounts
               PROVE  locks[a] = Cardinality(Promises(a))
    BY LocksByPromises
  <1>1. Promises(a) = {}
    BY NoProposalTyped DEF GovernanceInit, Promises
  <1>2. locks[a] = 0
    BY DEF GovernanceInit, ProjectInit
  <1> QED BY <1>1, <1>2, FS_EmptySet

\* Steps after which the same proposals are passed.
LEMMA SamePromises ==
    ASSUME PayoutLocksExact, locks' = locks,
           \A p \in ProposalIds :
              \/ proposals'[p] = proposals[p]
              \/ /\ proposals'[p].state # "passed" /\ proposals[p].state # "passed"
              \/ /\ proposals'[p].state = proposals[p].state
                 /\ proposals'[p].outcome = proposals[p].outcome
    PROVE  PayoutLocksExact'
  <1>1. \A a \in Accounts : Promises(a)' = Promises(a)
    BY DEF Promises
  <1> QED BY <1>1 DEF PayoutLocksExact, Promises

LEMMA TallyLocks ==
    ASSUME TypeOK, PayoutLocksExact, NEW p \in ProposalIds, TallyProposal(p)
    PROVE  PayoutLocksExact'
  <1> DEFINE q == proposals[p]
  <1>1. /\ q.state = "active" /\ q \in Proposal
        /\ proposals' = [proposals EXCEPT ![p] = Decided(q, p)]
        /\ locks' = IF Verdict(p) = "passed" THEN Locked(q.outcome) ELSE locks
    BY DEF TallyProposal, VotingOver, TypeOK
  <1>2. /\ proposals'[p] = Decided(q, p)
        /\ \A k \in ProposalIds \ {p} : proposals'[k] = proposals[k]
    BY <1>1 DEF TypeOK
  <1>3. Decided(q, p).state = Verdict(p) /\ Decided(q, p).outcome = q.outcome
    <2>1. Decided(q, p).state = Verdict(p)
      BY DecidedTyped
    <2>2. Decided(q, p).outcome = q.outcome
      BY <1>1 DEF Decided, Proposal
    <2> QED BY <2>1, <2>2
  <1> HIDE DEF q
  <1>4. CASE Verdict(p) # "passed"
    BY <1>1, <1>2, <1>3, <1>4, SamePromises DEF q
  <1>5. CASE Verdict(p) = "passed"
    <2> SUFFICES ASSUME NEW a \in Accounts
                 PROVE  locks'[a] = Cardinality(Promises(a)')
      BY DEF PayoutLocksExact, Promises
    <2>1. locks[a] = Cardinality(Promises(a)) /\ IsFiniteSet(Promises(a))
      BY LocksByPromises, PromisesFinite
    <2>2. p \notin Promises(a)
      BY <1>1 DEF Promises, q
    <2>3. CASE a \in Payees(q.outcome)
      <3>1. Promises(a)' = Promises(a) \cup {p}
        BY <1>2, <1>3, <1>5, <2>3 DEF Promises
      <3>2. Cardinality(Promises(a) \cup {p}) = Cardinality(Promises(a)) + 1
        BY <2>1, <2>2, FS_AddElement
      <3>3. locks'[a] = locks[a] + 1
        BY <1>1, <1>5, <2>3 DEF Locked
      <3> QED BY <2>1, <3>1, <3>2, <3>3
    <2>4. CASE a \notin Payees(q.outcome)
      <3>1. Promises(a)' = Promises(a)
        BY <1>2, <1>3, <2>2, <2>4 DEF Promises
      <3>2. locks'[a] = locks[a]
        BY <1>1, <1>5, <2>4 DEF Locked, TypeOK, ProjectTypeOK
      <3> QED BY <2>1, <3>1, <3>2
    <2> QED BY <2>3, <2>4
  <1> QED BY <1>4, <1>5

LEMMA ExecuteLocks ==
    ASSUME TypeOK, PayoutLocksExact, NEW a \in Accounts, NEW p \in ProposalIds,
           NEW drawn \in Draws(proposals[p].outcome), ExecuteProposal(a, p, drawn)
    PROVE  PayoutLocksExact'
  <1> DEFINE q == proposals[p]
  <1>1. /\ q.state = "passed" /\ q \in Proposal
        /\ proposals' = [proposals EXCEPT ![p].state = "executed"]
        /\ locks' = Released(q.outcome)
    BY DEF ExecuteProposal, ApplyOutcome, Executable, TypeOK
  <1>2. /\ proposals'[p].state = "executed"
        /\ \A k \in ProposalIds \ {p} : proposals'[k] = proposals[k]
    BY <1>1 DEF TypeOK, Proposal
  <1> SUFFICES ASSUME NEW b \in Accounts
               PROVE  locks'[b] = Cardinality(Promises(b)')
    BY DEF PayoutLocksExact, Promises
  <1>3. /\ locks[b] = Cardinality(Promises(b))
        /\ IsFiniteSet(Promises(b)) /\ Cardinality(Promises(b)) \in Nat
    BY LocksByPromises, PromisesFinite
  <1>4. CASE b \in Payees(q.outcome)
    <2>1. p \in Promises(b)
      BY <1>1, <1>4 DEF Promises
    <2>2. Promises(b)' = Promises(b) \ {p}
      BY <1>2 DEF Promises
    <2>3. Cardinality(Promises(b) \ {p}) = Cardinality(Promises(b)) - 1
      BY <1>3, <2>1, FS_RemoveElement
    <2>4. Cardinality(Promises(b)) # 0
      BY <1>3, <2>1, FS_EmptySet
    <2>5. locks'[b] = locks[b] - 1
      BY <1>1, <1>3, <1>4, <2>4 DEF Released
    <2> QED BY <1>3, <2>2, <2>3, <2>5
  <1>5. CASE b \notin Payees(q.outcome)
    <2>1. Promises(b)' = Promises(b)
      BY <1>2, <1>5 DEF Promises
    <2>2. locks'[b] = locks[b]
      BY <1>1, <1>5 DEF Released
    <2> QED BY <1>3, <2>1, <2>2
  <1> QED BY <1>4, <1>5

LEMMA LocksStep == TypeOK /\ PayoutLocksExact /\ [Next]_vars => PayoutLocksExact'
  <1> SUFFICES ASSUME TypeOK, PayoutLocksExact, [Next]_vars PROVE PayoutLocksExact'
    OBVIOUS
  <1>1. CASE ProjectNext /\ UNCHANGED governanceVars
    <2>1. locks' = locks
      BY <1>1 DEF ProjectNext, JoinProject, RequestLeave, FinishLeave, RequestUnstake,
                  FinishUnstake, AddFundsToStake, AddFundsToTreasury, WhitelistMembers,
                  RemoveWhitelistedMembers, TransferProjectOwnership,
                  EmergencyPauseImmediate, Tick
    <2> QED BY <1>1, <2>1, SamePromises DEF governanceVars
  <1>2. ASSUME NEW a \in Proposers, NEW o \in Outcomes, NEW form \in Forms,
               NEW d \in Durations, CreateProposal(a, o, form, d)
        PROVE  PayoutLocksExact'
    <2> DEFINE p == proposalCount
    <2>1. /\ locks' = locks
          /\ proposals' = [proposals EXCEPT ![p] = NewProposal(a, o, form, d)]
      BY <1>2 DEF CreateProposal
    <2>2. NewProposal(a, o, form, d).state = "active"
      BY DEF NewProposal
    <2>3. p \in ProposalIds /\ proposals[p].state = "none"
      BY <1>2, GovernanceConstants
      DEF GovernanceConstants, CreateProposal, TypeOK, ProposalIds
    <2>4. /\ proposals'[p].state = "active"
          /\ \A k \in ProposalIds \ {p} : proposals'[k] = proposals[k]
      BY <2>1, <2>2, <2>3 DEF TypeOK
    <2> QED BY <2>1, <2>3, <2>4, SamePromises
  <1>3. ASSUME NEW a \in Accounts, NEW p \in ProposalIds, NEW choices \in ChoiceSets,
               VoteProposal(a, p, choices)
        PROVE  PayoutLocksExact'
    <2>1. \A k \in ProposalIds : /\ proposals'[k].state = proposals[k].state
                                 /\ proposals'[k].outcome = proposals[k].outcome
      BY <1>3 DEF VoteProposal, TakesVotes, TypeOK, Proposal
    <2>2. locks' = locks
      BY <1>3 DEF VoteProposal, TakesVotes
    <2> QED BY <2>1, <2>2, SamePromises
  <1>4. ASSUME NEW a \in Accounts, NEW p \in ProposalIds, CancelProposal(a, p)
        PROVE  PayoutLocksExact'
    <2>1. /\ locks' = locks /\ proposals[p].state = "active"
          /\ proposals' = [proposals EXCEPT ![p] = Cancelled(proposals[p])]
      BY <1>4 DEF CancelProposal
    <2>2. Cancelled(proposals[p]).state = "cancelled"
      BY CancelledTyped DEF TypeOK
    <2>3. /\ proposals'[p].state = "cancelled"
          /\ \A k \in ProposalIds \ {p} : proposals'[k] = proposals[k]
      BY <2>1, <2>2 DEF TypeOK
    <2> QED BY <2>1, <2>3, SamePromises
  <1>5. CASE UNCHANGED vars
    BY <1>5, SamePromises DEF vars, projectVars, governanceVars
  <1>6. CASE GovernanceNext
    BY <1>2, <1>3, <1>4, <1>6, TallyLocks, ExecuteLocks DEF GovernanceNext
  <1> QED BY <1>1, <1>5, <1>6 DEF Next

-----------------------------------------------------------------------------
(* The electorate                                                          *)

\* Every member joined before the next joiner will; every proposal was created
\* before it; an id not given out yet has no voters and no electorate.
ElectorateInv ==
    /\ \A a \in members : member[a].joinSeq < joinSeq
    /\ \A p \in ProposalIds :
         /\ proposals[p].joinSnap <= joinSeq
         /\ p >= proposalCount => proposals[p].joinSnap = 0 /\ Voters(p) = {}
    /\ ElectorateWithinSnapshot

LEMMA ElectorateInit == GovernanceInit => ElectorateInv
  <1> SUFFICES ASSUME GovernanceInit PROVE ElectorateInv
    OBVIOUS
  <1>1. joinSeq = 1 /\ members = {Founder} /\ member[Founder].joinSeq = 0
    BY ProjectConstants
    DEF ProjectConstants, GovernanceInit, ProjectInit, NewMember, NoMember
  <1>2. ASSUME NEW p \in ProposalIds
        PROVE  /\ proposals[p].joinSnap = 0 /\ proposals[p].memberSnap = 0
               /\ Voters(p) = {} /\ Electorate(p) = {}
    <2>1. proposals[p].joinSnap = 0 /\ proposals[p].memberSnap = 0
      BY DEF GovernanceInit, NoProposal
    <2>2. Voters(p) = {}
      BY DEF GovernanceInit, NoBallot, Voters
    <2>3. Electorate(p) = {}
      BY <1>1, <2>1 DEF Electorate
    <2> QED BY <2>1, <2>2, <2>3
  <1>3. ElectorateWithinSnapshot
    <2> SUFFICES ASSUME NEW p \in ProposalIds
                 PROVE  Cardinality(Voters(p) \cup Electorate(p)) <= proposals[p].memberSnap
      BY DEF ElectorateWithinSnapshot
    <2>1. Voters(p) \cup Electorate(p) = {} /\ proposals[p].memberSnap = 0
      BY <1>2
    <2>2. Cardinality(Voters(p) \cup Electorate(p)) = 0
      BY <2>1, FS_EmptySet
    <2> QED BY <2>1, <2>2
  <1> QED BY <1>1, <1>2, <1>3 DEF ElectorateInv

\* A step admits at most one account, under the next join sequence number, and
\* renumbers nobody.
JoinOrder ==
    /\ joinSeq' \in {joinSeq, joinSeq + 1}
    /\ \A b \in members' : \/ b \in members /\ member'[b].joinSeq = member[b].joinSeq
                           \/ member'[b].joinSeq = joinSeq /\ joinSeq' = joinSeq + 1

LEMMA JoinOrderOfProject ==
    ASSUME ProjectTypeOK, [ProjectNext]_projectVars
    PROVE  JoinOrder
  <1>1. /\ members \subseteq Accounts /\ joinSeq \in Nat
        /\ member \in [Accounts -> Member]
    BY DEF ProjectTypeOK
  <1>2. ASSUME NEW a \in Accounts, NEW d \in Deposits, JoinProject(a, d)
        PROVE  JoinOrder
    <2>1. NewMember(d, joinSeq).joinSeq = joinSeq
      BY DEF NewMember, NoMember
    <2> QED BY <1>1, <1>2, <2>1 DEF JoinProject, AdmitMember, JoinOrder
  <1>3. ASSUME NEW a \in Accounts, RequestLeave(a)
        PROVE  JoinOrder
    <2>1. /\ members' = members /\ joinSeq' = joinSeq
          /\ member' = [member EXCEPT ![a].exitRequested = now]
      BY <1>3 DEF RequestLeave
    <2>2. \A b \in Accounts : member'[b].joinSeq = member[b].joinSeq
      BY <1>1, <2>1 DEF Member
    <2> QED BY <1>1, <2>1, <2>2 DEF JoinOrder
  <1>4. ASSUME NEW a \in Accounts, FinishLeave(a)
        PROVE  JoinOrder
    BY <1>1, <1>4 DEF FinishLeave, RemoveMembers, JoinOrder
  <1>5. ASSUME NEW a \in Accounts, NEW amount \in UnstakeAmounts, RequestUnstake(a, amount)
        PROVE  JoinOrder
    <2>1. /\ members' = members /\ joinSeq' = joinSeq
          /\ member' = [member EXCEPT ![a].unstakeRequested = now,
                                      ![a].unstakePending = amount]
      BY <1>5 DEF RequestUnstake
    <2>2. \A b \in Accounts : member'[b].joinSeq = member[b].joinSeq
      BY <1>1, <2>1 DEF Member
    <2> QED BY <1>1, <2>1, <2>2 DEF JoinOrder
  <1>6. ASSUME NEW a \in Accounts, FinishUnstake(a)
        PROVE  JoinOrder
    <2>1. joinSeq' = joinSeq
      BY <1>6 DEF FinishUnstake
    <2> QED BY <1>1, <1>6, <2>1, FinishUnstakeEffect DEF JoinOrder
  <1>7. ASSUME NEW a \in Accounts, NEW batch \in Batches, AddFundsToStake(a, batch)
        PROVE  JoinOrder
    <2>1. joinSeq' = joinSeq
      BY <1>7 DEF AddFundsToStake
    <2> QED BY <1>1, <1>7, <2>1, AddFundsToStakeEffect DEF JoinOrder
  <1>8. ASSUME UNCHANGED memberVars
        PROVE  JoinOrder
    BY <1>8 DEF JoinOrder, memberVars
  <1>9. CASE UNCHANGED projectVars
    BY <1>8, <1>9 DEF projectVars
  <1> QED
    BY <1>2, <1>3, <1>4, <1>5, <1>6, <1>7, <1>8, <1>9
    DEF ProjectNext, AddFundsToTreasury, WhitelistMembers, RemoveWhitelistedMembers,
        TransferProjectOwnership, EmergencyPauseImmediate, Tick

\* Who joins is outside the electorate of every proposal there is.
LEMMA ElectorateShrinks ==
    ASSUME TypeOK, TypeOK', ElectorateInv, JoinOrder, NEW p \in ProposalIds,
           proposals'[p].joinSnap = proposals[p].joinSnap
    PROVE  Electorate(p)' \subseteq Electorate(p)
  <1>1. joinSeq \in Nat /\ proposals[p].joinSnap \in Nat /\ proposals[p].joinSnap <= joinSeq
    BY DEF TypeOK, ProjectTypeOK, Proposal, ElectorateInv
  <1>2. ASSUME NEW b \in members', member'[b].joinSeq < proposals[p].joinSnap
        PROVE  b \in members /\ member'[b].joinSeq = member[b].joinSeq
    <2>1. member'[b].joinSeq # joinSeq
      BY <1>1, <1>2
    <2> QED BY <2>1 DEF JoinOrder
  <1> QED BY <1>2 DEF Electorate

\* One proposal after a step: the same snapshot, and voters out of those it
\* had and its electorate.
WithinBefore(p) ==
    /\ proposals'[p].joinSnap = proposals[p].joinSnap
    /\ proposals'[p].memberSnap = proposals[p].memberSnap
    /\ Voters(p)' \subseteq Voters(p) \cup Electorate(p)

LEMMA VotersFinite ==
    ASSUME TypeOK, NEW p \in ProposalIds
    PROVE  /\ Voters(p) \cup Electorate(p) \in SUBSET Accounts
           /\ IsFiniteSet(Voters(p) \cup Electorate(p))
  <1>1. Voters(p) \cup Electorate(p) \in SUBSET Accounts
    BY DEF Voters, Electorate, TypeOK, ProjectTypeOK
  <1> QED BY <1>1, SetOfMembersFinite

LEMMA SnapshotKept ==
    ASSUME TypeOK, TypeOK', ElectorateInv, JoinOrder, NEW p \in ProposalIds,
           WithinBefore(p)
    PROVE  Cardinality(Voters(p) \cup Electorate(p))' <= proposals'[p].memberSnap
  <1> DEFINE before == Voters(p) \cup Electorate(p)
             after  == Voters(p)' \cup Electorate(p)'
  <1>1. after \subseteq before
    BY ElectorateShrinks DEF WithinBefore
  <1>2. IsFiniteSet(before)
    BY VotersFinite
  <1>3. Cardinality(before) <= proposals[p].memberSnap
    BY DEF ElectorateInv, ElectorateWithinSnapshot
  <1>4. proposals'[p].memberSnap = proposals[p].memberSnap /\ proposals[p].memberSnap \in Nat
    BY DEF WithinBefore, TypeOK, Proposal
  <1> HIDE DEF before, after
  <1>5. Cardinality(after) <= Cardinality(before) /\ Cardinality(before) \in Nat
        /\ Cardinality(after) \in Nat
    BY <1>1, <1>2, FS_Subset, FS_CardinalityType
  <1>6. Cardinality(after) <= proposals'[p].memberSnap
    BY <1>3, <1>4, <1>5
  <1> QED BY <1>6 DEF after

LEMMA ElectorateKept ==
    ASSUME TypeOK, TypeOK', ElectorateInv, JoinOrder,
           \A p \in ProposalIds : WithinBefore(p),
           proposalCount' = proposalCount,
           \A p \in ProposalIds : p >= proposalCount => Voters(p)' = {}
    PROVE  ElectorateInv'
  <1>1. joinSeq \in Nat
    BY DEF TypeOK, ProjectTypeOK
  <1>2. \A a \in members' : member'[a].joinSeq < joinSeq'
    <2> TAKE a \in members'
    <2>1. CASE a \in members /\ member'[a].joinSeq = member[a].joinSeq
      <3>1. member[a].joinSeq < joinSeq /\ member[a].joinSeq \in Nat
        BY <2>1 DEF ElectorateInv, TypeOK, ProjectTypeOK, Member
      <3> QED BY <1>1, <2>1, <3>1 DEF JoinOrder
    <2>2. CASE member'[a].joinSeq = joinSeq /\ joinSeq' = joinSeq + 1
      BY <1>1, <2>2
    <2> QED BY <2>1, <2>2 DEF JoinOrder
  <1>3. ASSUME NEW p \in ProposalIds
        PROVE  /\ proposals'[p].joinSnap <= joinSeq'
               /\ p >= proposalCount' => proposals'[p].joinSnap = 0 /\ Voters(p)' = {}
    <2>1. proposals'[p].joinSnap = proposals[p].joinSnap /\ proposals[p].joinSnap \in Nat
      BY DEF WithinBefore, TypeOK, Proposal
    <2>2. proposals[p].joinSnap <= joinSeq
      BY DEF ElectorateInv
    <2>3. joinSeq' = joinSeq \/ joinSeq' = joinSeq + 1
      BY DEF JoinOrder
    <2>4. proposals'[p].joinSnap <= joinSeq'
      BY <1>1, <2>1, <2>2, <2>3
    <2>5. p >= proposalCount => proposals[p].joinSnap = 0
      BY DEF ElectorateInv
    <2> QED BY <2>1, <2>4, <2>5
  <1>4. ElectorateWithinSnapshot'
    BY SnapshotKept DEF ElectorateWithinSnapshot
  <1> QED BY <1>2, <1>3, <1>4 DEF ElectorateInv

\* A ballot is cast by a member of the electorate.
LEMMA VoteElectorate ==
    ASSUME TypeOK, TypeOK', ElectorateInv, NEW a \in Accounts, NEW p \in ProposalIds,
           NEW choices \in ChoiceSets, VoteProposal(a, p, choices)
    PROVE  ElectorateInv'
  <1>1. /\ a \in Electorate(p) /\ proposals[p].state = "active"
        /\ UNCHANGED <<members, joinSeq, proposalCount>>
    BY DEF VoteProposal, TakesVotes, Eligible, Electorate
  <1>2. JoinOrder
    <2>1. /\ \A b \in Accounts \ {a} : member'[b] = member[b]
          /\ member'[a].joinSeq = member[a].joinSeq
      BY VoteRecord, CommittedRecord
    <2>2. members \subseteq Accounts
      BY DEF TypeOK, ProjectTypeOK
    <2> QED BY <1>1, <2>1, <2>2 DEF JoinOrder
  <1>3. \A k \in ProposalIds : /\ proposals'[k].joinSnap = proposals[k].joinSnap
                               /\ proposals'[k].memberSnap = proposals[k].memberSnap
    BY DEF VoteProposal, TakesVotes, TypeOK, Proposal
  <1>4. /\ Voters(p)' \subseteq Voters(p) \cup {a}
        /\ \A k \in ProposalIds \ {p} : Voters(k)' = Voters(k)
    <2> DEFINE r == [choices |-> choices, weight |-> VoteWeight(a, proposals[p])]
    <2>1. ballots' = [ballots EXCEPT ![p][a] = r]
      BY DEF VoteProposal, TakesVotes
    <2> HIDE DEF r
    <2>2. /\ \A b \in Accounts \ {a} : ballots'[p][b] = ballots[p][b]
          /\ \A k \in ProposalIds \ {p} : ballots'[k] = ballots[k]
      BY <2>1 DEF TypeOK
    <2> QED BY <2>2 DEF Voters
  <1>5. \A k \in ProposalIds : WithinBefore(k)
    BY <1>1, <1>3, <1>4 DEF WithinBefore
  <1>6. p < proposalCount
    BY <1>1, GovernanceConstants DEF GovernanceConstants, TypeOK, ProposalIds
  <1>7. \A k \in ProposalIds : k >= proposalCount => Voters(k)' = {}
    <2> TAKE k \in ProposalIds
    <2>1. CASE k = p
      BY <1>6, <2>1, GovernanceConstants DEF GovernanceConstants, TypeOK, ProposalIds
    <2>2. CASE k # p
      BY <1>4, <2>2 DEF ElectorateInv
    <2> QED BY <2>1, <2>2
  <1> QED BY <1>1, <1>2, <1>5, <1>7, ElectorateKept

\* A proposal starts with the members as its electorate and nobody as voter.
LEMMA CreateElectorate ==
    ASSUME TypeOK, TypeOK', FinanceMatchesMembers, ElectorateInv, NEW a \in Proposers,
           NEW o \in Outcomes, NEW form \in Forms, NEW d \in Durations,
           CreateProposal(a, o, form, d)
    PROVE  ElectorateInv'
  <1> DEFINE p == proposalCount
             q == NewProposal(a, o, form, d)
  <1>1. /\ proposals' = [proposals EXCEPT ![p] = q]
        /\ UNCHANGED <<members, member, joinSeq, ballots>>
        /\ proposalCount' = p + 1 /\ p < MaxProposals
    BY DEF CreateProposal, memberVars, ballotVars
  <1>2. q.joinSnap = joinSeq /\ q.memberSnap = memberCount
    BY DEF NewProposal
  <1> HIDE DEF q
  <1>3. p \in ProposalIds /\ p \in Nat
    BY <1>1, GovernanceConstants DEF GovernanceConstants, TypeOK, ProposalIds
  <1>4. proposals'[p] = q /\ \A k \in ProposalIds \ {p} : proposals'[k] = proposals[k]
    BY <1>1, <1>3 DEF TypeOK
  <1>5. \A k \in ProposalIds : Voters(k)' = Voters(k)
    BY <1>1 DEF Voters
  <1>6. Voters(p) = {}
    BY <1>3 DEF ElectorateInv
  <1>7. \A k \in ProposalIds :
          /\ proposals'[k].joinSnap <= joinSeq'
          /\ k >= proposalCount' => proposals'[k].joinSnap = 0 /\ Voters(k)' = {}
    <2> TAKE k \in ProposalIds
    <2>1. CASE k = p
      <3>1. joinSeq \in Nat
        BY DEF TypeOK, ProjectTypeOK
      <3> QED BY <1>1, <1>2, <1>3, <1>4, <2>1, <3>1
    <2>2. CASE k # p
      <3>1. k \in Int
        BY DEF ProposalIds
      <3>2. k >= p + 1 => k >= p
        BY <1>3, <3>1
      <3> QED BY <1>1, <1>4, <1>5, <2>2, <3>2 DEF ElectorateInv
    <2> QED BY <2>1, <2>2
  <1>8. ASSUME NEW k \in ProposalIds
        PROVE  Cardinality(Voters(k)' \cup Electorate(k)') <= proposals'[k].memberSnap
    <2>1. CASE k = p
      <3>1. Electorate(k)' \subseteq members
        BY <1>1 DEF Electorate
      <3>2. Voters(k)' \cup Electorate(k)' \subseteq members
        BY <1>5, <1>6, <2>1, <3>1
      <3>3. IsFiniteSet(members) /\ memberCount = Cardinality(members)
        BY StakesTyped DEF TypeOK, FinanceMatchesMembers
      <3> QED BY <1>2, <1>4, <2>1, <3>2, <3>3, FS_Subset
    <2>2. CASE k # p
      <3>1. Electorate(k)' = Electorate(k)
        BY <1>1, <1>4, <2>2 DEF Electorate
      <3> QED BY <1>4, <1>5, <2>2, <3>1 DEF ElectorateInv, ElectorateWithinSnapshot
    <2> QED BY <2>1, <2>2
  <1>9. \A b \in members' : member'[b].joinSeq < joinSeq'
    BY <1>1 DEF ElectorateInv
  <1> QED BY <1>7, <1>8, <1>9 DEF ElectorateInv, ElectorateWithinSnapshot

\* Steps that leave the receipts and the snapshots alone.
LEMMA SameBallotsElectorate ==
    ASSUME TypeOK, TypeOK', ElectorateInv, JoinOrder,
           UNCHANGED <<ballots, proposalCount>>,
           \A p \in ProposalIds : /\ proposals'[p].joinSnap = proposals[p].joinSnap
                                  /\ proposals'[p].memberSnap = proposals[p].memberSnap
    PROVE  ElectorateInv'
  <1>1. \A p \in ProposalIds : Voters(p)' = Voters(p)
    BY DEF Voters
  <1>2. \A p \in ProposalIds : WithinBefore(p)
    BY <1>1 DEF WithinBefore
  <1>3. \A p \in ProposalIds : p >= proposalCount => Voters(p)' = {}
    BY <1>1 DEF ElectorateInv
  <1> QED BY <1>2, <1>3, ElectorateKept

LEMMA ElectorateStep ==
    ASSUME TypeOK, FinanceMatchesMembers, ElectorateInv, [Next]_vars
    PROVE  ElectorateInv'
  <1>1. TypeOK'
    BY StepTyped
  <1>2. CASE ProjectNext /\ UNCHANGED governanceVars
    <2>1. JoinOrder
      BY <1>2, JoinOrderOfProject DEF TypeOK
    <2>2. UNCHANGED <<ballots, proposals, proposalCount>>
      BY <1>2 DEF governanceVars, ballotVars
    <2> QED BY <1>1, <2>1, <2>2, SameBallotsElectorate
  <1>3. ASSUME NEW p \in ProposalIds, TallyProposal(p)
        PROVE  ElectorateInv'
    <2>1. /\ UNCHANGED <<memberVars, ballots, proposalCount>>
          /\ proposals' = [proposals EXCEPT ![p] = Decided(proposals[p], p)]
      BY <1>3 DEF TallyProposal, VotingOver, ballotVars
    <2>2. /\ Decided(proposals[p], p).joinSnap = proposals[p].joinSnap
          /\ Decided(proposals[p], p).memberSnap = proposals[p].memberSnap
      BY DEF Decided, TypeOK, Proposal
    <2>3. \A k \in ProposalIds : /\ proposals'[k].joinSnap = proposals[k].joinSnap
                                 /\ proposals'[k].memberSnap = proposals[k].memberSnap
      BY <2>1, <2>2 DEF TypeOK
    <2>4. JoinOrder
      BY <2>1 DEF JoinOrder, memberVars
    <2> QED BY <1>1, <2>1, <2>3, <2>4, SameBallotsElectorate
  <1>4. ASSUME NEW a \in Accounts, NEW p \in ProposalIds, CancelProposal(a, p)
        PROVE  ElectorateInv'
    <2>1. /\ UNCHANGED <<memberVars, ballots, proposalCount>>
          /\ proposals' = [proposals EXCEPT ![p] = Cancelled(proposals[p])]
      BY <1>4 DEF CancelProposal, ballotVars
    <2>2. /\ Cancelled(proposals[p]).joinSnap = proposals[p].joinSnap
          /\ Cancelled(proposals[p]).memberSnap = proposals[p].memberSnap
      BY DEF Cancelled, TypeOK, Proposal
    <2>3. \A k \in ProposalIds : /\ proposals'[k].joinSnap = proposals[k].joinSnap
                                 /\ proposals'[k].memberSnap = proposals[k].memberSnap
      BY <2>1, <2>2 DEF TypeOK
    <2>4. JoinOrder
      BY <2>1 DEF JoinOrder, memberVars
    <2> QED BY <1>1, <2>1, <2>3, <2>4, SameBallotsElectorate
  <1>5. ASSUME NEW a \in Accounts, NEW p \in ProposalIds,
               NEW drawn \in Draws(proposals[p].outcome), ExecuteProposal(a, p, drawn)
        PROVE  ElectorateInv'
    <2>1. /\ UNCHANGED <<ballots, proposalCount>>
          /\ proposals' = [proposals EXCEPT ![p].state = "executed"]
          /\ RemoveMembers(Kicked(proposals[p].outcome))
      BY <1>5 DEF ExecuteProposal, ApplyOutcome, ballotVars
    <2>2. \A k \in ProposalIds : /\ proposals'[k].joinSnap = proposals[k].joinSnap
                                 /\ proposals'[k].memberSnap = proposals[k].memberSnap
      BY <2>1 DEF TypeOK, Proposal
    <2>3. JoinOrder
      BY <2>1 DEF JoinOrder, RemoveMembers, TypeOK, ProjectTypeOK
    <2> QED BY <1>1, <2>1, <2>2, <2>3, SameBallotsElectorate
  <1>6. CASE UNCHANGED vars
    <2>1. JoinOrder /\ UNCHANGED <<ballots, proposals, proposalCount>>
      BY <1>6 DEF vars, projectVars, memberVars, governanceVars, ballotVars, JoinOrder
    <2> QED BY <1>1, <2>1, SameBallotsElectorate
  <1>7. CASE GovernanceNext
    BY <1>1, <1>3, <1>4, <1>5, <1>7, VoteElectorate, CreateElectorate DEF GovernanceNext
  <1> QED BY <1>2, <1>6, <1>7 DEF Next

-----------------------------------------------------------------------------
(* The inductive invariant                                                 *)

Inv == TypeOK /\ ProjectInv /\ PayoutLocksExact /\ ElectorateInv

LEMMA InvInit == GovernanceInit => Inv
  BY GovernanceInitTyped, ProjectInvInit, LocksInit, ElectorateInit
  DEF GovernanceInit, Inv

LEMMA InvStep == Inv /\ [Next]_vars => Inv'
  <1> SUFFICES ASSUME Inv, [Next]_vars PROVE Inv'
    OBVIOUS
  <1>1. TypeOK' /\ ProjectInv'
    BY StepTyped, ProjectInvKept DEF Inv
  <1>2. PayoutLocksExact'
    BY LocksStep DEF Inv
  <1>3. ElectorateInv'
    BY ElectorateStep DEF Inv, ProjectInv
  <1> QED BY <1>1, <1>2, <1>3 DEF Inv

\* Holds in every state, whatever is called in whatever order.
THEOREM Invariance == Spec => []Inv
  BY InvInit, InvStep, PTL DEF Spec

-----------------------------------------------------------------------------
(* Safety of a project under proposals                                     *)

\* The aggregates every quorum and threshold is computed from are those of the
\* member records, whatever proposals kick or reconfigure.
THEOREM FinanceSafe == Spec => []FinanceMatchesMembers
  BY Invariance, PTL DEF Inv, ProjectInv

\* What the host holds is the treasury, the stakes and the undrawn allowances,
\* through payouts, contract calls, kicks, costs and refunds.
THEOREM LedgerSafe == Spec => []LedgerBalanced
  BY Invariance, PTL DEF Inv, ProjectInv

\* No order of leaving, kicking, naming and removing leaves an owner outside
\* the project.
THEOREM OwnerSafe == Spec => []OwnerIsMember
  BY Invariance, PTL DEF Inv, ProjectInv

\* Payout locks count the promised payouts exactly, for every number of
\* proposals and payees.
THEOREM LocksSafe == Spec => []PayoutLocksExact
  BY Invariance, PTL DEF Inv

\* Voters and those who can still vote are never more than the members counted
\* when the proposal was created: the quorum denominator is sound.
THEOREM ElectorateSafe == Spec => []ElectorateWithinSnapshot
  BY Invariance, PTL DEF Inv, ElectorateInv

\* No member ever holds less than the minimum stake, in particular after a
\* partial unstake requested before and paid after other calls.
THEOREM MinimumSafe == Spec => []StakesRespectMinimum
  <1>1. Inv => StakesRespectMinimum
    BY MinimumByMember DEF Inv, ProjectInv
  <1> QED BY <1>1, Invariance, PTL

\* The stake history a ballot is weighed by is ordered in time and ends with
\* the stake held.
THEOREM HistorySafe == Spec => []HistoryEndsAtStake
  <1>1. Inv => HistoryEndsAtStake
    BY HistoryByMember DEF Inv, ProjectInv
  <1> QED BY <1>1, Invariance, PTL

\* No armed exit is older than an increase of the stake it would take out.
THEOREM ExitsSafe == Spec => []ExitArmedAfterTopUps
  <1>1. Inv => ExitArmedAfterTopUps
    BY HistoryByMember DEF Inv, ProjectInv
  <1> QED BY <1>1, Invariance, PTL

\* No refund of a leave or a kick can fail for lack of recorded stake or funds.
THEOREM RefundsSafe == Spec => []RefundsCovered
  BY Invariance, InvCoversRefunds, PTL DEF Inv

LEMMA PauseSafeKicksNobody ==
    ASSUME NEW o, PauseSafe(o)
    PROVE  o.kick = {}
  <1>1. PICK k \in {"toggle_pause", "update_owner", "remove_owner"} : MetaKeys(o) = {k}
    BY DEF PauseSafe
  <1>2. "kick_member" \notin MetaKeys(o)
    BY <1>1
  <1>3. o.kick # {} => "kick_member" \in MetaKeys(o)
    BY DEF MetaKeys, UsableKeys
  <1> QED BY <1>2, <1>3

LEMMA GovernancePauseStep ==
    ASSUME TypeOK, paused, GovernanceNext
    PROVE  StakeFrozen
  <1>1. ASSUME NEW a \in Accounts, NEW p \in ProposalIds, NEW choices \in ChoiceSets,
               VoteProposal(a, p, choices)
        PROVE  StakeFrozen
    BY <1>1, VoteRecord, CommittedRecord DEF StakeFrozen
  <1>2. ASSUME NEW a \in Accounts, NEW p \in ProposalIds,
               NEW drawn \in Draws(proposals[p].outcome), ExecuteProposal(a, p, drawn)
        PROVE  StakeFrozen
    <2> DEFINE K == Kicked(proposals[p].outcome)
    <2>1. RemoveMembers(K) /\ K = {}
      BY <1>2, PauseSafeKicksNobody DEF ExecuteProposal, ApplyOutcome, Executable, Kicked
    <2>2. Cardinality(K) = 0 /\ StakeOf(K) = 0
      BY <2>1, FS_EmptySet, SumOfNone DEF StakeOf
    <2>3. memberCount \in Nat /\ stakeTotal \in Nat
            /\ history \in [Accounts -> Seq(Entry)]
      BY DEF TypeOK, ProjectTypeOK, Entry
    <2> HIDE DEF K
    <2>4. history' = history
      BY <2>1, <2>3 DEF RemoveMembers
    <2>5. members' = members /\ \A b \in Accounts : member'[b].stake = member[b].stake
      BY <2>1 DEF RemoveMembers
    <2>6. memberCount' = memberCount /\ stakeTotal' = stakeTotal
      BY <2>1, <2>2, <2>3 DEF RemoveMembers
    <2> QED BY <2>4, <2>5, <2>6 DEF StakeFrozen
  <1>3. ASSUME UNCHANGED memberVars
        PROVE  StakeFrozen
    BY <1>3 DEF StakeFrozen, memberVars
  <1> QED
    BY <1>1, <1>2, <1>3 DEF GovernanceNext, CreateProposal, TallyProposal, VotingOver, CancelProposal

\* While paused no proposal, recovery or not, moves stake or members.
THEOREM PauseSafeguards == Spec => PauseFreezesStake
  <1>1. Inv /\ [Next]_vars
          => [paused => /\ UNCHANGED <<members, history, memberCount, stakeTotal>>
                        /\ \A a \in Accounts : member'[a].stake = member[a].stake]_projectVars
    <2> SUFFICES ASSUME Inv, [Next]_vars, paused, ~ UNCHANGED projectVars
                 PROVE  StakeFrozen
      BY DEF StakeFrozen
    <2>1. CASE ProjectNext
      BY <2>1, PauseStep
    <2>2. CASE GovernanceNext
      BY <2>2, GovernancePauseStep DEF Inv
    <2> QED BY <2>1, <2>2 DEF Next, vars
  <1> QED BY <1>1, Invariance, PTL DEF Spec, PauseFreezesStake

LEMMA LockedStep ==
    ASSUME ProjectTypeOK, [Next]_vars, NEW a \in members, a \notin members'
    PROVE  locks'[a] = 0
  <1>1. ASSUME NEW b \in Accounts, FinishLeave(b)
        PROVE  locks'[a] = 0
    <2>1. members' = members \ {b} /\ locks' = locks /\ locks[b] = 0
      BY <1>1 DEF FinishLeave, LeaveAllowed, RemoveMembers
    <2> QED BY <2>1
  <1>2. ASSUME NEW b \in Accounts, NEW p \in ProposalIds,
               NEW drawn \in Draws(proposals[p].outcome), ExecuteProposal(b, p, drawn)
        PROVE  locks'[a] = 0
    <2> DEFINE o == proposals[p].outcome
    <2>1. members' = members \ Kicked(o) /\ locks' = Released(o) /\ KickAllowed(o, Released(o))
      BY <1>2 DEF ExecuteProposal, ApplyOutcome, RemoveMembers
    <2> HIDE DEF o
    <2>2. a \in Kicked(o)
      BY <2>1
    <2> QED BY <2>1, <2>2 DEF KickAllowed
  <1>3. ASSUME members \subseteq members'
        PROVE  locks'[a] = 0
    BY <1>3
  <1>4. CASE ProjectNext
    BY <1>1, <1>3, <1>4
    DEF ProjectNext, JoinProject, AdmitMember, RequestLeave, RequestUnstake, FinishUnstake,
        AddFundsToStake, AddFundsToTreasury, WhitelistMembers, RemoveWhitelistedMembers,
        TransferProjectOwnership, EmergencyPauseImmediate, Tick, memberVars
  <1>5. CASE GovernanceNext
    BY <1>2, <1>3, <1>5
    DEF GovernanceNext, CreateProposal, VoteProposal, TakesVotes, TallyProposal, VotingOver, CancelProposal, memberVars
  <1>6. CASE UNCHANGED vars
    BY <1>3, <1>6 DEF vars, projectVars, memberVars
  <1> QED BY <1>4, <1>5, <1>6 DEF Next

\* Nobody leaves or is kicked while a passed payout names them.
THEOREM PayeesStay == Spec => LockedMembersStay
  <1>1. Inv /\ [Next]_vars => [\A a \in members : a \notin members' => locks'[a] = 0]_vars
    BY LockedStep DEF Inv, ProjectInv
  <1> QED BY <1>1, Invariance, PTL DEF Spec, LockedMembersStay

\* The one step by which the treasury can shrink.
Decision(x) ==
    \E p \in ProposalIds :
        \/ /\ StepsFrom(p, "passed", "executed")
           /\ treasury[x] - treasury'[x] = Spent(proposals[p].outcome, x)
        \/ /\ StepsFrom(p, "active", "cancelled")
           /\ x = FundsAsset
           /\ treasury[x] - treasury'[x] = proposals[p].costPaid

LEMMA TreasuryStep ==
    ASSUME TypeOK, [Next]_vars, NEW x \in Assets, treasury'[x] < treasury[x]
    PROVE  Decision(x)
  <1>1. treasury \in [Assets -> Nat] /\ treasury[x] \in Nat /\ FundsAsset \in Assets
    BY ProjectConstants DEF ProjectConstants, TypeOK, ProjectTypeOK
  <1>2. ASSUME NEW batch \in [Assets -> Nat], treasury' = Donated(batch)
        PROVE  FALSE
    <2>1. treasury'[x] = treasury[x] + batch[x] /\ batch[x] \in Nat
      BY <1>2 DEF Donated
    <2> QED BY <1>1, <2>1
  <1>3. ASSUME treasury' = treasury
        PROVE  FALSE
    BY <1>1, <1>3
  <1>4. ~ProjectNext
    <2>1. ASSUME NEW batch \in Batches, AddFundsToTreasury(batch)
          PROVE  FALSE
      BY <1>2, <2>1, ProjectConstants DEF ProjectConstants, AddFundsToTreasury
    <2>2. ASSUME NEW a \in Accounts, NEW batch \in Batches, AddFundsToStake(a, batch)
          PROVE  FALSE
      <3>1. DonatedPart(batch) \in [Assets -> Nat]
        BY ProjectConstants DEF ProjectConstants, DonatedPart
      <3> QED BY <1>2, <2>2, <3>1 DEF AddFundsToStake
    <2> QED
      BY <1>3, <2>1, <2>2
      DEF ProjectNext, JoinProject, RequestLeave, FinishLeave, RequestUnstake, FinishUnstake,
          WhitelistMembers, RemoveWhitelistedMembers, TransferProjectOwnership,
          EmergencyPauseImmediate, Tick, fundVars
  <1>5. ASSUME NEW a \in Proposers, NEW o \in Outcomes, NEW form \in Forms,
               NEW d \in Durations, CreateProposal(a, o, form, d)
        PROVE  FALSE
    <2>1. cfg["cost"] \in Nat
      BY ConfigTyped DEF TypeOK, ConfigKeys
    <2>2. OfFunds(cfg["cost"]) \in [Assets -> Nat]
      BY <2>1 DEF OfFunds
    <2> QED BY <1>2, <1>5, <2>2 DEF CreateProposal
  <1>6. ASSUME NEW a \in Accounts, NEW p \in ProposalIds,
               NEW drawn \in Draws(proposals[p].outcome), ExecuteProposal(a, p, drawn)
        PROVE  Decision(x)
    <2>1. StepsFrom(p, "passed", "executed")
      BY <1>6 DEF ExecuteProposal, ApplyOutcome, Executable, StepsFrom, TypeOK, Proposal
    <2>2. treasury'[x] = treasury[x] - Spent(proposals[p].outcome, x)
      BY <1>6 DEF ExecuteProposal, ApplyOutcome
    <2>3. Spent(proposals[p].outcome, x) \in Nat
      BY OutcomeOfProposal, SpentTyped
    <2>4. treasury[x] - treasury'[x] = Spent(proposals[p].outcome, x)
      BY <1>1, <2>2, <2>3
    <2> QED BY <2>1, <2>4 DEF Decision
  <1>7. ASSUME NEW a \in Accounts, NEW p \in ProposalIds, CancelProposal(a, p)
        PROVE  Decision(x)
    <2> DEFINE q == proposals[p]
               n == Refund(a, q)
    <2>1. q.state = "active" /\ q \in Proposal
      BY <1>7 DEF CancelProposal, TypeOK
    <2>2. proposals'[p].state = "cancelled"
      <3>1. Cancelled(q).state = "cancelled"
        BY <2>1, CancelledTyped
      <3> QED BY <1>7, <3>1 DEF CancelProposal, TypeOK
    <2>3. treasury' = [treasury EXCEPT ![FundsAsset] = @ - n]
      BY <1>7 DEF CancelProposal, TreasuryAfterRefund
    <2>4. n = q.costPaid \/ n = 0
      BY DEF Refund
    <2>5. q.costPaid \in Nat
      BY <2>1 DEF Proposal
    <2> HIDE DEF n
    <2>6. x = FundsAsset /\ treasury'[x] = treasury[x] - n
      BY <1>1, <2>3
    <2>7. n # 0
      BY <1>1, <2>6
    <2>8. treasury[x] - treasury'[x] = q.costPaid
      BY <1>1, <2>4, <2>5, <2>6, <2>7
    <2> QED BY <2>1, <2>2, <2>6, <2>8 DEF Decision, StepsFrom
  <1>8. CASE GovernanceNext
    BY <1>3, <1>5, <1>6, <1>7, <1>8
    DEF GovernanceNext, VoteProposal, TakesVotes, TallyProposal, VotingOver, fundVars
  <1>9. ~ UNCHANGED vars
    BY <1>3 DEF vars, projectVars, fundVars
  <1> QED BY <1>4, <1>8, <1>9 DEF Next

\* The treasury shrinks only by executing a passed proposal, by what it asked
\* for, or by cancelling an active one, by the cost it was charged.
THEOREM TreasurySafe == Spec => TreasuryMovesByDecision
  <1>1. Inv /\ [Next]_vars
          => [\A x \in Assets : treasury'[x] < treasury[x] =>
                \E p \in ProposalIds :
                   \/ /\ StepsFrom(p, "passed", "executed")
                      /\ treasury[x] - treasury'[x] = Spent(proposals[p].outcome, x)
                   \/ /\ StepsFrom(p, "active", "cancelled")
                      /\ x = FundsAsset
                      /\ treasury[x] - treasury'[x] = proposals[p].costPaid]_vars
    BY TreasuryStep DEF Inv, Decision
  <1> QED BY <1>1, Invariance, PTL DEF Spec, TreasuryMovesByDecision
=============================================================================
