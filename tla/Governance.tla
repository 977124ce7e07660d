---------------------------- MODULE Governance -----------------------------
(***************************************************************************)
(* Proposals of one project: contract/proposals.go and contract/votes.go   *)
(* over the state of module Project.                                       *)
(*                                                                         *)
(* A proposal is created with a snapshot of the electorate, collects       *)
(* ballots while it is active, is decided by a tally after its deadline,   *)
(* and when passed is executed after a delay: payouts, member removal and  *)
(* configuration changes, all in one transaction.                          *)
(***************************************************************************)
EXTENDS Project

CONSTANTS
    Proposers,       \* accounts that may submit a proposal
    Outcomes,        \* what a proposal may ask for
    Durations,       \* voting periods in hours a proposal may ask for; 0 asks for none
    Forms,           \* ballots a proposal may have: size, and whether a poll
    ChoiceSets,      \* option sets a ballot may choose
    MaxVotingHours,  \* MaxProposalDurationHours
    MaxPercent,      \* MaxThresholdPercent and MaxQuorumPercent
    MinPercent,      \* MinThresholdPercent and MinQuorumPercent
    MaxDelayHours,   \* MaxDurationHours
    MaxOptions,      \* bound: options of one ballot
    MaxProposals     \* bound: proposals ever created

ProposalIds == 0 .. MaxProposals - 1
OptionIds   == 0 .. MaxOptions - 1

\* What the payouts, and the allowances of the contract calls, take from x.
PaidOut(o, x) == SumFunctionOnSet([a \in Accounts |-> o.payout[a][x]], Accounts)
Allowed(o, x) ==
    SumFunctionOnSet([i \in DOMAIN o.calls |-> o.calls[i][x]], DOMAIN o.calls)

\* What the parser lets through.  The payout entries of one account and asset
\* count as their sum; a contract call is the allowance it carries; and of the
\* directives only the keys are checked before the outcome is executed.
IsPayout(payout) == payout \in [Accounts -> [Assets -> Nat]]
AreCalls(calls)  == calls \in Seq([Assets -> Nat])

\* The directives that carry a value an execution may accept.
UsableKeys(o) ==
    UNION {IF o.kick = {} THEN {} ELSE {"kick_member"},
           IF o.newOwner = NoAccount THEN {} ELSE {"update_owner"},
           IF o.removeOwner THEN {"remove_owner"} ELSE {},
           IF o.togglePause THEN {"toggle_pause"} ELSE {},
           IF o.whitelistAdd = {} THEN {} ELSE {"whitelist_add"},
           IF o.whitelistRemove = {} THEN {} ELSE {"whitelist_remove"},
           DOMAIN o.update}

\* The directives that refuse some values outright: a list that is empty or too
\* long, a number or flag that does not parse, a malformed id, a long URL.
CheckedKeys == ConfigKeys \cup {"kick_member", "whitelist_add", "whitelist_remove",
                                "update_membershipNFT", "update_url"}

AreDirectives(o) ==
    /\ o.kick \subseteq Accounts
    /\ o.newOwner \in Accounts \cup {NoAccount}
    /\ o.removeOwner \in BOOLEAN
    /\ o.togglePause \in BOOLEAN
    /\ DOMAIN o.update \subseteq ConfigKeys
    /\ \A k \in DOMAIN o.update : o.update[k] \in Nat
    /\ o.whitelistAdd \subseteq Accounts
    /\ o.whitelistRemove \subseteq Accounts
    /\ o.unusable \subseteq CheckedKeys \ UsableKeys(o)

\* The effects a proposal carries.  An empty set, NoAccount, FALSE or a zero
\* amount is a directive that is absent; unusable are the keys that are there
\* with a value no execution accepts.
IsOutcome(o) == IsPayout(o.payout) /\ AreCalls(o.calls) /\ AreDirectives(o)

NoOutcome ==
    [payout          |-> [a \in Accounts |-> [x \in Assets |-> 0]],
     calls           |-> <<>>,
     kick            |-> {},
     newOwner        |-> NoAccount,
     removeOwner     |-> FALSE,
     togglePause     |-> FALSE,
     update          |-> [k \in {} |-> 0],
     whitelistAdd    |-> {},
     whitelistRemove |-> {},
     unusable        |-> {}]

ASSUME GovernanceConstants ==
    /\ Proposers \subseteq Accounts
    /\ \A o \in Outcomes \cup {NoOutcome} : IsOutcome(o)
    /\ Durations \subseteq Nat
    /\ Forms \subseteq [options : 2 .. MaxOptions, poll : BOOLEAN]
    /\ ChoiceSets \subseteq SUBSET OptionIds
    /\ MaxVotingHours \in Nat
    /\ MaxOptions \in Nat
    /\ MaxProposals \in Nat

VARIABLES
    proposalCount,  \* the next proposal id
    proposals,      \* the proposal records
    options,        \* the running totals of each option
    ballots         \* the vote receipts

ballotVars     == <<options, ballots>>
governanceVars == <<proposalCount, proposals, ballotVars>>
vars           == <<projectVars, governanceVars>>

States == {"none", "active", "closed", "passed", "executed", "failed", "cancelled"}

NoProposal ==
    [state |-> "none", creator |-> NoAccount, createdAt |-> 0, duration |-> 0,
     outcome |-> NoOutcome, isPoll |-> FALSE, optionCount |-> 0,
     memberSnap |-> 0, stakeSnap |-> 0, joinSnap |-> 0, executableAt |-> 0,
     voterCount |-> 0, costPaid |-> 0, result |-> -1]

NoTotals == [weight |-> 0, voters |-> 0]
NoBallot == [choices |-> {}, weight |-> 0]

-----------------------------------------------------------------------------
(* Reading an outcome                                                      *)

Payees(o) == {a \in Accounts : \E x \in Assets : o.payout[a][x] > 0}

MetaKeys(o) == UsableKeys(o) \cup o.unusable

\* outcomeIsPauseSafe: a single pause or ownership directive, and no money.
PauseSafe(o) ==
    /\ Payees(o) = {}
    /\ o.calls = <<>>
    /\ \E k \in {"toggle_pause", "update_owner", "remove_owner"} : MetaKeys(o) = {k}

\* The bounds ExecuteProposal checks before it stores a setting.
ValidSetting(k, v) ==
    CASE k \in {"threshold", "quorum"} -> v \in MinPercent .. MaxPercent
      [] k = "duration" -> v \in 1 .. MaxVotingHours
      [] k \in {"execDelay", "cooldown"} -> v \in 0 .. MaxDelayHours
      [] k = "cost" -> v \in Nat
      [] k \in {"membersOnly", "whitelistOnly"} -> v \in {0, 1}

\* What normalizeProjectConfig leaves: settings an update could store as well,
\* and a cooldown.  An update may remove the cooldown later.
Normalised(c) == c["cooldown"] > 0 /\ \A k \in ConfigKeys : ValidSetting(k, c[k])

ASSUME InitialConfigNormalised == Normalised(InitialConfig)

-----------------------------------------------------------------------------
(* Creating                                                                *)

Deadline(q) == q.createdAt + q.duration * Hour

VotingHours(d) == IF d > 0 THEN d ELSE cfg["duration"]

\* The default [no, yes] ballot may be a poll or not; custom options make one.
PossibleForm(form) == form.options = 2 \/ form.poll

NewProposal(a, o, form, d) ==
    [state |-> "active", creator |-> a, createdAt |-> now,
     duration |-> VotingHours(d), outcome |-> o, isPoll |-> form.poll,
     optionCount |-> form.options, memberSnap |-> memberCount,
     stakeSnap |-> stakeTotal, joinSnap |-> joinSeq, executableAt |-> 0,
     voterCount |-> 0, costPaid |-> cfg["cost"], result |-> 0]

CreateProposal(a, o, form, d) ==
    LET p == proposalCount IN
    /\ p < MaxProposals
    /\ ~(o.newOwner # NoAccount /\ o.removeOwner)
    /\ paused => PauseSafe(o)
    /\ cfg["membersOnly"] = 1 => a \in members
    /\ PossibleForm(form)
    /\ d > 0 => d >= cfg["duration"]
    /\ VotingHours(d) <= MaxVotingHours
    /\ StakeVoting => stakeTotal > 0
    /\ CanDraw(OfFunds(cfg["cost"]))
    /\ vault' = Drawn(OfFunds(cfg["cost"]))
    /\ treasury' = Donated(OfFunds(cfg["cost"]))
    /\ proposals' = [proposals EXCEPT ![p] = NewProposal(a, o, form, d)]
    /\ proposalCount' = p + 1
    /\ UNCHANGED <<now, metaVars, cfg, memberVars, unspent, locks, whitelist,
                   ballotVars>>

-----------------------------------------------------------------------------
(* Voting                                                                  *)

\* Mutant: joining is compared with creation by block time.
EligibleByTime(a, q) == history[a][1].time <= q.createdAt
\* Only who had joined when the proposal was created may vote on it.
Eligible(a, q) == member[a].joinSeq < q.joinSnap

\* Mutant: the stake held now is not looked at.
VoteWeightUncapped(a, q) ==
    IF StakeVoting THEN StakeAtTime(history[a], q.createdAt) ELSE AmountScale
\* One unit per member, or the stake at creation capped by the stake held now.
VoteWeight(a, q) ==
    LET then == StakeAtTime(history[a], q.createdAt) IN
    IF ~StakeVoting THEN AmountScale
    ELSE IF member[a].stake < then THEN member[a].stake ELSE then

WeightSuffices(a, q) ==
    StakeVoting => /\ StakeAtTime(history[a], q.createdAt) > 0
                   /\ VoteWeight(a, q) >= StakeMin

\* Mutant: a second ballot is added to the first.
RecountAdding(t, i, prev, choices, w) ==
    IF i \in choices THEN [weight |-> t.weight + w, voters |-> t.voters + 1] ELSE t
\* Mutant: the previous ballot is taken off with the new ballot's weight.
RecountByNewWeight(t, i, prev, choices, w) ==
    LET less == IF i \notin prev.choices THEN t
                ELSE [weight |-> IF t.weight > w THEN t.weight - w ELSE 0,
                      voters |-> IF t.voters > 0 THEN t.voters - 1 ELSE 0]
    IN IF i \notin choices THEN less
       ELSE [weight |-> less.weight + w, voters |-> less.voters + 1]
\* The totals of option i without the voter's previous ballot and with the new.
Recount(t, i, prev, choices, w) ==
    LET less == IF i \notin prev.choices THEN t
                ELSE [weight |-> IF t.weight > prev.weight
                                 THEN t.weight - prev.weight ELSE 0,
                      voters |-> IF t.voters > 0 THEN t.voters - 1 ELSE 0]
    IN IF i \notin choices THEN less
       ELSE [weight |-> less.weight + w, voters |-> less.voters + 1]

\* Mutant: the lock adds up instead of ending with the latest deadline.
CommittedLonger(m, deadline) ==
    [m EXCEPT !.voteLockUntil = @ + deadline, !.exitRequested = 0]
\* Voting holds the stake until the deadline and re-arms a requested exit.
Committed(m, deadline) ==
    [m EXCEPT !.voteLockUntil = IF deadline > @ THEN deadline ELSE @,
              !.exitRequested = 0]

\* Mutant: a decided proposal still takes ballots.
TakesVotesDecided(q) == q.state \in {"active", "passed"}
\* Ballots are taken until the tally, also after the deadline.
TakesVotes(q) == q.state = "active"

VoteProposal(a, p, choices) ==
    LET q    == proposals[p]
        prev == ballots[p][a]
        w    == VoteWeight(a, q)
    IN /\ TakesVotes(q)
       /\ a \in members
       /\ Eligible(a, q)
       /\ WeightSuffices(a, q)
       /\ choices # {} /\ choices \subseteq 0 .. q.optionCount - 1
       /\ options' = [options EXCEPT ![p] =
              [i \in OptionIds |-> Recount(@[i], i, prev, choices, w)]]
       /\ ballots' = [ballots EXCEPT ![p][a] = [choices |-> choices, weight |-> w]]
       /\ proposals' = IF prev.choices = {}
                       THEN [proposals EXCEPT ![p].voterCount = @ + 1]
                       ELSE proposals
       /\ member' = [member EXCEPT ![a] = Committed(@, Deadline(q))]
       /\ UNCHANGED <<now, metaVars, cfg, members, history, joinSeq, memberCount,
                      stakeTotal, fundVars, locks, whitelist, proposalCount>>

-----------------------------------------------------------------------------
(* Deciding                                                                *)

Weights(p) == [i \in 0 .. proposals[p].optionCount - 1 |-> options[p][i].weight]

Winner(p) == LeadingOption(Weights(p))

Carried(p) ==
    LET q     == proposals[p]
        denom == IF StakeVoting THEN q.stakeSnap ELSE q.memberSnap * AmountScale
    IN /\ Winner(p) >= 0
       /\ q.voterCount >= QuorumNeeded(q.memberSnap, cfg["quorum"])
       /\ ThresholdMet(options[p][Winner(p)].weight, denom, cfg["threshold"])

\* Polls stay advisory; otherwise only an approving win passes.
Verdict(p) ==
    CASE ~Carried(p) -> "failed"
      [] Carried(p) /\ proposals[p].isPoll -> "closed"
      [] Carried(p) /\ ~proposals[p].isPoll ->
            IF Winner(p) = ApproveOptionIndex THEN "passed" ELSE "failed"

\* incrementPayoutLocks: one lock per distinct payee.
Locked(o) == [a \in Accounts |-> locks[a] + (IF a \in Payees(o) THEN 1 ELSE 0)]

\* Mutant: executing keeps the locks.
ReleasedNever(o) == locks
\* decrementPayoutLocks: one lock per distinct payee, never below zero.
Released(o) ==
    [a \in Accounts |-> IF a \in Payees(o) /\ locks[a] > 0 THEN locks[a] - 1
                        ELSE locks[a]]

\* When a proposal can be executed under the delay configured now.
ReadyNow(q) == q.createdAt + (q.duration + cfg["execDelay"]) * Hour

Decided(q, p) ==
    [q EXCEPT !.state = Verdict(p),
              !.result = IF Carried(p) THEN Winner(p) ELSE @,
              !.executableAt = IF Verdict(p) = "passed" THEN ReadyNow(q) ELSE 0]

\* Mutant: a paused project does not tally.
VotingOverUnpaused(q) == q.state = "active" /\ now >= Deadline(q) /\ ~paused
\* Whether a tally is due: whoever calls it, and paused or not.
VotingOver(q) == q.state = "active" /\ now >= Deadline(q)

TallyProposal(p) ==
    LET q == proposals[p] IN
    /\ VotingOver(q)
    /\ proposals' = [proposals EXCEPT ![p] = Decided(@, p)]
    /\ locks' = IF Verdict(p) = "passed" THEN Locked(q.outcome) ELSE locks
    /\ UNCHANGED <<now, metaVars, cfg, memberVars, fundVars, whitelist,
                   proposalCount, ballotVars>>

-----------------------------------------------------------------------------
(* Executing                                                               *)

\* A delay changed after the tally postpones execution, and never advances it.
ReadyAt(q) == IF q.executableAt > ReadyNow(q) THEN q.executableAt ELSE ReadyNow(q)

\* Mutant: only a second execution is refused, whatever the tally said.
ExecutableOnce(a, q) ==
    /\ q.state \notin {"none", "executed"}
    /\ paused => PauseSafe(q.outcome)
    /\ q.outcome.calls # <<>> => a = q.creator
    /\ now >= ReadyAt(q)
\* Mutant: the pause switch is not looked at.
ExecutablePaused(a, q) ==
    /\ q.state = "passed"
    /\ q.outcome.calls # <<>> => a = q.creator
    /\ now >= ReadyAt(q)
\* The checks ExecuteProposal makes before it commits the executed state.
Executable(a, q) ==
    /\ q.state = "passed"
    /\ paused => PauseSafe(q.outcome)
    /\ q.outcome.calls # <<>> => a = q.creator
    /\ now >= ReadyAt(q)

\* kickMember for each address: non-members are skipped, the owner and members
\* with a payout still promised abort the whole call.
Kicked(o) == o.kick \cap members

\* Mutant: a promised payout does not protect its payee.
KickAllowedLocked(o, locksLeft) == \A k \in Kicked(o) : ~(HasOwner /\ k = owner)
KickAllowed(o, locksLeft) ==
    \A k \in Kicked(o) : ~(HasOwner /\ k = owner) /\ locksLeft[k] = 0

\* Mutant: anyone may be named.
OwnerAllowedAnyone(o) == TRUE
\* update_owner is read after kick_member: the new owner must still be a member.
OwnerAllowed(o) ==
    o.newOwner # NoAccount => o.newOwner \in members \ Kicked(o)

OwnerAfter(o) == IF o.removeOwner THEN NoAccount
                 ELSE IF o.newOwner # NoAccount THEN o.newOwner ELSE owner

ConfigAfter(o) ==
    [k \in ConfigKeys |-> IF k \in DOMAIN o.update THEN o.update[k] ELSE cfg[k]]

\* whitelist_add and then whitelist_remove, both past the members who remain.
WhitelistAfter(o) ==
    LET remaining == members \ Kicked(o)
    IN Disapprove(Approve(whitelist, o.whitelistAdd, remaining),
                  o.whitelistRemove, remaining)

\* What execution takes from the treasury: the payouts and the allowances.
Spent(o, x) == PaidOut(o, x) + Allowed(o, x)

\* What the host ledger moves out: payouts, refunds and what callees draw.
Outflow(o, drawn, x) ==
    PaidOut(o, x) + drawn[x] + (IF x = FundsAsset THEN StakeOf(Kicked(o)) ELSE 0)

\* What the called contracts may draw of their allowances.
Draws(o) == {d \in [Assets -> 0 .. MaxHolding] : \A x \in Assets : d[x] <= Allowed(o, x)}

(***************************************************************************)
(* What an execution does besides moving money and committing its state:   *)
(* the payout locks are released, then the directives apply in the order   *)
(* of their keys.  One refused directive aborts the whole call.  The       *)
(* project record is stored before any contract call.                      *)
(***************************************************************************)
ApplyOutcome(o) ==
    /\ o.unusable = {}
    /\ \A k \in DOMAIN o.update : ValidSetting(k, o.update[k])
    /\ KickAllowed(o, Released(o))
    /\ OwnerAllowed(o)
    /\ locks' = Released(o)
    /\ RemoveMembers(Kicked(o))
    /\ owner' = OwnerAfter(o)
    /\ paused' = (paused # o.togglePause)
    /\ cfg' = ConfigAfter(o)
    /\ whitelist' = WhitelistAfter(o)

(***************************************************************************)
(* ExecuteProposal.  The callees here only draw what they were allowed;    *)
(* what they leave undrawn has already left the treasury.  Callees that    *)
(* call the DAO again are in module Callbacks.                             *)
(***************************************************************************)
ExecuteProposal(a, p, drawn) ==
    LET q == proposals[p]
        o == q.outcome
    IN /\ Executable(a, q)
       /\ \A x \in Assets :
            /\ drawn[x] \in 0 .. Allowed(o, x)
            /\ Spent(o, x) <= treasury[x]
            /\ Outflow(o, drawn, x) <= vault[x]
       /\ ApplyOutcome(o)
       /\ proposals' = [proposals EXCEPT ![p].state = "executed"]
       /\ treasury' = [x \in Assets |-> treasury[x] - Spent(o, x)]
       /\ vault' = [x \in Assets |-> vault[x] - Outflow(o, drawn, x)]
       /\ unspent' = [x \in Assets |-> unspent[x] + Allowed(o, x) - drawn[x]]
       /\ UNCHANGED <<now, proposalCount, ballotVars>>

-----------------------------------------------------------------------------
(* Cancelling                                                              *)

\* Mutant: the owner may withdraw a recovery as well.
MayCancelAny(a, q) == a = q.creator \/ CallerIsOwner(a)
\* The creator withdraws its proposal; the owner may withdraw any but a pause
\* or ownership recovery.
MayCancel(a, q) ==
    \/ a = q.creator
    \/ CallerIsOwner(a) /\ ~PauseSafe(q.outcome)

\* Mutant: the refund leaves the contract and stays in the treasury.
TreasuryAfterRefundKept(refund) == treasury
TreasuryAfterRefund(refund) == [treasury EXCEPT ![FundsAsset] = @ - refund]

\* The cost goes back only when the owner cancels and the treasury covers it.
Refund(a, q) ==
    IF CallerIsOwner(a) /\ a # q.creator /\ q.costPaid <= treasury[FundsAsset]
    THEN q.costPaid ELSE 0

\* Mutant: the refund is paid and the proposal stays active.
CancelledStillActive(q) == [q EXCEPT !.result = -1, !.executableAt = 0]
Cancelled(q) == [q EXCEPT !.state = "cancelled", !.result = -1, !.executableAt = 0]

CancelProposal(a, p) ==
    LET q == proposals[p]
        refund == Refund(a, q)
    IN /\ q.state = "active"
       /\ MayCancel(a, q)
       /\ refund <= vault[FundsAsset]
       /\ treasury' = TreasuryAfterRefund(refund)
       /\ vault' = [vault EXCEPT ![FundsAsset] = @ - refund]
       /\ proposals' = [proposals EXCEPT ![p] = Cancelled(@)]
       /\ UNCHANGED <<now, metaVars, cfg, memberVars, unspent, locks, whitelist,
                      proposalCount, ballotVars>>

-----------------------------------------------------------------------------
GovernanceInit ==
    /\ ProjectInit
    /\ proposalCount = 0
    /\ proposals = [p \in ProposalIds |-> NoProposal]
    /\ options = [p \in ProposalIds |-> [i \in OptionIds |-> NoTotals]]
    /\ ballots = [p \in ProposalIds |-> [a \in Accounts |-> NoBallot]]

GovernanceNext ==
    \/ \E a \in Proposers, o \in Outcomes, form \in Forms, d \in Durations :
         CreateProposal(a, o, form, d)
    \/ \E a \in Accounts, p \in ProposalIds :
         \/ \E choices \in ChoiceSets : VoteProposal(a, p, choices)
         \/ \E drawn \in Draws(proposals[p].outcome) : ExecuteProposal(a, p, drawn)
         \/ CancelProposal(a, p)
    \/ \E p \in ProposalIds : TallyProposal(p)

Next == \/ ProjectNext /\ UNCHANGED governanceVars
        \/ GovernanceNext

Spec == GovernanceInit /\ [][Next]_vars

-----------------------------------------------------------------------------
(* Properties                                                              *)

Proposal ==
    [state : States, creator : Accounts \cup {NoAccount}, createdAt : Nat,
     duration : Nat, outcome : Outcomes \cup {NoOutcome}, isPoll : BOOLEAN, optionCount : 0 .. MaxOptions,
     memberSnap : Nat, stakeSnap : Nat, joinSnap : Nat, executableAt : Nat,
     voterCount : Nat, costPaid : Nat, result : Int]

\* Every stored value has its type, and ids are given out in order.
TypeOK ==
    /\ ProjectTypeOK
    /\ proposalCount \in 0 .. MaxProposals
    /\ proposals \in [ProposalIds -> Proposal]
    /\ options \in [ProposalIds -> [OptionIds -> [weight : Nat, voters : Nat]]]
    /\ ballots \in [ProposalIds -> [Accounts -> [choices : SUBSET OptionIds, weight : Nat]]]
    /\ \A p \in ProposalIds : proposals[p].state = "none" <=> p >= proposalCount

Voters(p) == {a \in Accounts : ballots[p][a].choices # {}}
Choosing(p, i) == {a \in Accounts : i \in ballots[p][a].choices}
BallotWeight(p, S) == SumFunctionOnSet([a \in Accounts |-> ballots[p][a].weight], S)

\* Who may still vote on p: the members that had joined when it was created.
Electorate(p) == {a \in members : member[a].joinSeq < proposals[p].joinSnap}

Running(p) == proposals[p].state = "active" /\ now < Deadline(proposals[p])

\* The lock counter of an account is the number of passed, not yet executed
\* proposals that pay it: no lock is lost or left over, whatever is tallied,
\* executed, cancelled or kicked in between.
PayoutLocksExact ==
    \A a \in Accounts :
        locks[a] = Cardinality({p \in ProposalIds :
                       proposals[p].state = "passed" /\ a \in Payees(proposals[p].outcome)})

\* The running totals a tally reads are the totals of the stored receipts,
\* through first ballots, changed ballots and ballots for several options; and
\* the voters counted for the quorum are the accounts with a receipt.
TotalsMatchReceipts ==
    \A p \in ProposalIds :
        /\ proposals[p].voterCount = Cardinality(Voters(p))
        /\ \A i \in OptionIds :
             /\ options[p][i].weight = BallotWeight(p, Choosing(p, i))
             /\ options[p][i].voters = Cardinality(Choosing(p, i))

\* Those who voted on a proposal and those who still can are together no more
\* than the members it counted when it was created, whoever joins, leaves, is
\* kicked or comes back, in the same block or later.
ElectorateWithinSnapshot ==
    \A p \in ProposalIds :
        Cardinality(Voters(p) \cup Electorate(p)) <= proposals[p].memberSnap

\* The ballots cast weigh together no more than the denominator of the
\* threshold: no option can be carried by more than everything there was.
BallotsWithinSnapshot ==
    \A p \in ProposalIds :
        BallotWeight(p, Voters(p)) <=
            IF StakeVoting THEN proposals[p].stakeSnap
                           ELSE proposals[p].memberSnap * AmountScale

\* Until the deadline a voter that was not removed holds at least the stake
\* its ballot was counted with.
BallotsBackedByStake ==
    StakeVoting =>
        \A p \in ProposalIds : Running(p) =>
            \A a \in Voters(p) \cap Electorate(p) :
                member[a].stake >= ballots[p][a].weight

\* A proposal passes only if the receipts approve it more than anything else.
PassedWasApproved ==
    \A p \in ProposalIds :
        proposals[p].state \in {"passed", "executed"} =>
            /\ ~proposals[p].isPoll
            /\ \A i \in OptionIds \ {ApproveOptionIndex} :
                 BallotWeight(p, Choosing(p, ApproveOptionIndex))
                     > BallotWeight(p, Choosing(p, i))

StepsFrom(p, s, t) == proposals[p].state = s /\ proposals'[p].state = t

\* A voter does not leave before the deadline of what it voted on: until then
\* only an executed kick takes its membership away.
VotersStayUntilDeadline ==
    [][\A p \in ProposalIds : Running(p) =>
         \A a \in Voters(p) \cap Electorate(p) :
             a \notin members' =>
                 \E k \in ProposalIds : StepsFrom(k, "passed", "executed")
                                          /\ a \in proposals[k].outcome.kick]_vars

\* Treasury funds leave by a decision and exactly once: the payouts and
\* allowances of a proposal that goes from passed to executed, or the cost of
\* one that goes from active to cancelled.
TreasuryMovesByDecision ==
    [][\A x \in Assets : treasury'[x] < treasury[x] =>
         \E p \in ProposalIds :
            \/ /\ StepsFrom(p, "passed", "executed")
               /\ treasury[x] - treasury'[x] = Spent(proposals[p].outcome, x)
            \/ /\ StepsFrom(p, "active", "cancelled")
               /\ x = FundsAsset
               /\ treasury[x] - treasury'[x] = proposals[p].costPaid]_vars

\* Nobody is paid out or removed while a passed payout still names them.
LockedMembersStay ==
    [][\A a \in members : a \notin members' => locks'[a] = 0]_vars
=============================================================================
