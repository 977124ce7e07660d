------------------------------ MODULE Project ------------------------------
(***************************************************************************)
(* One DAO project after CreateProject: its members and their stakes, the  *)
(* aggregates the contract stores beside them, the treasury, the payout    *)
(* locks, the whitelist and the pause switch, with the entry points of     *)
(* contract/projects.go that change them.                                  *)
(*                                                                         *)
(* Every action is one committed transaction.  A call the code aborts      *)
(* leaves the state as it was, so an abort is a guard that does not hold.  *)
(* Several transactions share one block timestamp: they are several steps  *)
(* with the same now.                                                      *)
(*                                                                         *)
(* A stored timestamp of 0 means "not set", as in the code.                *)
(***************************************************************************)
EXTENDS Tally, FiniteSets, Functions

CONSTANTS
    Accounts,        \* addresses that may sign a transaction
    NoAccount,       \* the empty owner of an autonomous project
    Founder,         \* the account that called CreateProject
    Assets,          \* tokens a treasury can hold
    FundsAsset,      \* the token stakes are paid in
    StakeVoting,     \* TRUE: stake-weighted, FALSE: one member one vote
    StakeMin,        \* minimum stake; 0 is a free-membership project
    FoundingExcess,  \* what the founder's intent held beyond StakeMin
    InitialConfig,   \* the configuration CreateProject normalised and stored
    Hour,            \* seconds in an hour, scaled down
    Deposits,        \* stakes a join may offer
    Batches,         \* per-asset totals an AddFunds call may carry
    UnstakeAmounts,  \* amounts a partial unstake may ask for
    AddressLists,    \* address sets a whitelist call may carry
    Heirs,           \* accounts an ownership transfer may name
    PauseCalls,      \* what an emergency pause call may ask for
    MaxTime,         \* bound: the last block timestamp
    MaxHolding,      \* bound: what the contract holds of one asset
    MaxJoinSeq,      \* bound: the join counter
    MaxHistory       \* bound: stake-history entries of one member

\* The settings a proposal can change; flags are 0 or 1.
ConfigKeys == {"threshold", "quorum", "duration", "execDelay", "cooldown",
               "cost", "membersOnly", "whitelistOnly"}

ASSUME ProjectConstants ==
    /\ IsFiniteSet(Accounts)
    /\ NoAccount \notin Accounts
    /\ Founder \in Accounts
    /\ FundsAsset \in Assets
    /\ StakeVoting \in BOOLEAN
    /\ StakeMin \in Nat
    /\ FoundingExcess \in Nat
    /\ InitialConfig \in [ConfigKeys -> Nat]
    /\ Hour \in Nat \ {0}
    /\ Deposits \subseteq Nat
    /\ Batches \subseteq [Assets -> Nat]
    /\ UnstakeAmounts \subseteq Nat
    /\ AddressLists \subseteq SUBSET Accounts
    /\ Heirs \subseteq Accounts
    /\ PauseCalls \subseteq BOOLEAN
    /\ MaxHolding \in Nat

VARIABLES
    now,          \* block timestamp
    owner,        \* project meta: owner, NoAccount once autonomous
    paused,       \* project meta: the pause switch
    cfg,          \* project config
    members,      \* the accounts with a stored member record
    member,       \* the member record of each account
    history,      \* stake history, indexed by StakeIncrement + 1
    joinSeq,      \* the next join sequence number
    memberCount,  \* project finance: number of members
    stakeTotal,   \* project finance: sum of the stakes
    treasury,     \* treasury balance per asset
    locks,        \* payout locks per address
    whitelist,    \* addresses with a pending approval
    vault,        \* what the host ledger credits the contract with, per asset
    unspent       \* allowances debited for contract calls and not drawn

metaVars    == <<owner, paused>>
memberVars  == <<members, member, history, joinSeq, memberCount, stakeTotal>>
fundVars    == <<treasury, vault, unspent>>
projectVars == <<now, metaVars, cfg, memberVars, fundVars, locks, whitelist>>

Member == [stake : Nat, joinSeq : Nat, exitRequested : Nat, voteLockUntil : Nat,
           unstakeRequested : Nat, unstakePending : Nat]

NoMember == [stake |-> 0, joinSeq |-> 0, exitRequested |-> 0, voteLockUntil |-> 0,
             unstakeRequested |-> 0, unstakePending |-> 0]

NewMember(stake, seq) == [NoMember EXCEPT !.stake = stake, !.joinSeq = seq]

HasOwner == owner # NoAccount

CooldownOver(since) == now - since >= cfg["cooldown"] * Hour

\* The stakes of the member records, and their sum over the accounts of S.
Stakes == [a \in Accounts |-> member[a].stake]

StakeOf(S) == SumFunctionOnSet(Stakes, S)

-----------------------------------------------------------------------------
(* Host ledger: a draw moves a caller's tokens to the contract.            *)

CanDraw(batch) == \A x \in Assets : vault[x] + batch[x] <= MaxHolding

Drawn(batch) == [x \in Assets |-> vault[x] + batch[x]]

OfFunds(amount) == [x \in Assets |-> IF x = FundsAsset THEN amount ELSE 0]

-----------------------------------------------------------------------------
(* Membership                                                              *)

DepositAccepted(d) ==
    CASE StakeMin = 0 -> d = 0
      [] StakeMin > 0 /\ StakeVoting -> d >= StakeMin
      [] StakeMin > 0 /\ ~StakeVoting -> d = StakeMin

\* Stores the record of a joiner and adds it to the freshly read aggregates.
AdmitMember(a, deposit) ==
    /\ DepositAccepted(deposit)
    /\ CanDraw(OfFunds(deposit))
    /\ vault' = Drawn(OfFunds(deposit))
    /\ joinSeq < MaxJoinSeq
    /\ members' = members \cup {a}
    /\ member' = [member EXCEPT ![a] = NewMember(deposit, joinSeq)]
    /\ history' = [history EXCEPT ![a] = <<[stake |-> deposit, time |-> now]>>]
    /\ joinSeq' = joinSeq + 1
    /\ memberCount' = memberCount + 1
    /\ stakeTotal' = stakeTotal + deposit

Approved(a) == a \in whitelist

Invited(a) == cfg["whitelistOnly"] = 1 => Approved(a)

\* Mutant: the record of an existing member is not looked up.
JoinAllowedTwice(a) == ~paused
JoinAllowed(a) == ~paused /\ a \notin members

(***************************************************************************)
(* JoinProject.  The NFT gate is an external answer that can only refuse,  *)
(* and a refused call changes nothing.  A used approval is consumed.       *)
(***************************************************************************)
JoinProject(a, deposit) ==
    /\ JoinAllowed(a)
    /\ Invited(a)
    /\ whitelist' = IF cfg["whitelistOnly"] = 1 THEN whitelist \ {a} ELSE whitelist
    /\ AdmitMember(a, deposit)
    /\ UNCHANGED <<now, metaVars, cfg, treasury, unspent, locks>>

(***************************************************************************)
(* Removing the members of K and refunding their stakes, shared by the     *)
(* final leave and by kick_member.                                         *)
(***************************************************************************)
RemoveMembers(K) ==
    /\ StakeOf(K) \in 0 .. stakeTotal
    /\ members' = members \ K
    /\ member' = [a \in Accounts |-> IF a \in K THEN NoMember ELSE member[a]]
    /\ history' = [a \in Accounts |-> IF a \in K THEN <<>> ELSE history[a]]
    /\ memberCount' = IF memberCount >= Cardinality(K)
                      THEN memberCount - Cardinality(K) ELSE 0
    /\ stakeTotal' = stakeTotal - StakeOf(K)
    /\ UNCHANGED joinSeq

\* Mutant: whoever calls is taken for a member.
LeaveAllowedAnyone(a) == ~paused /\ ~(HasOwner /\ a = owner) /\ locks[a] = 0
\* Mutant: the owner may leave too.
LeaveAllowedOwner(a) == ~paused /\ a \in members /\ locks[a] = 0
LeaveAllowed(a) ==
    /\ ~paused
    /\ a \in members
    /\ ~(HasOwner /\ a = owner)
    /\ locks[a] = 0

\* The first call of project_leave arms the exit.
RequestLeave(a) ==
    /\ LeaveAllowed(a)
    /\ member[a].exitRequested = 0
    /\ member' = [member EXCEPT ![a].exitRequested = now]
    /\ UNCHANGED <<now, metaVars, cfg, members, history, joinSeq, memberCount,
                   stakeTotal, fundVars, locks, whitelist>>

\* Mutant: stake leaves whatever its owner voted on.
VotesSettledAlways(a) == TRUE
VotesSettled(a) == now >= member[a].voteLockUntil

\* A later call of project_leave refunds the stake and deletes the record.
FinishLeave(a) ==
    /\ LeaveAllowed(a)
    /\ member[a].exitRequested # 0
    /\ CooldownOver(member[a].exitRequested)
    /\ VotesSettled(a)
    /\ member[a].stake <= vault[FundsAsset]
    /\ vault' = [vault EXCEPT ![FundsAsset] = @ - member[a].stake]
    /\ RemoveMembers({a})
    /\ UNCHANGED <<now, metaVars, cfg, treasury, unspent, locks, whitelist>>

-----------------------------------------------------------------------------
(* Stake changes of a member that stays                                    *)

\* Mutant: a stake change is stamped with the block time itself.
StampNow == now
Stamp == now + 1

\* The record without its pending partial unstake.
Disarmed(m) == [m EXCEPT !.unstakeRequested = 0, !.unstakePending = 0]

\* Mutant: a top-up leaves an armed exit armed.
ToppedUpArmed(m, amount) == [Disarmed(m) EXCEPT !.stake = @ + amount]
ToppedUp(m, amount) == [Disarmed(m) EXCEPT !.stake = @ + amount, !.exitRequested = 0]

\* Mutant: the record changes and the history does not.
HistoryUnchanged(a, stake) == UNCHANGED history
\* saveStakeHistory under the incremented counter.
RecordStake(a, stake) ==
    /\ Len(history[a]) < MaxHistory
    /\ history' = [history EXCEPT ![a] = Append(@, [stake |-> stake, time |-> Stamp])]

\* Mutant: the remaining stake is not compared with the minimum.
UnstakableAny(a, amount) == amount > 0 /\ amount <= member[a].stake
Unstakable(a, amount) ==
    /\ amount > 0
    /\ amount <= member[a].stake
    /\ member[a].stake - amount >= StakeMin

\* Mutant: the pause switch is not looked at.
UnstakeAllowedPaused(a) == StakeVoting /\ a \in members
UnstakeAllowed(a) == ~paused /\ StakeVoting /\ a \in members

RequestUnstake(a, amount) ==
    /\ UnstakeAllowed(a)
    /\ member[a].unstakeRequested = 0
    /\ Unstakable(a, amount)
    /\ member' = [member EXCEPT ![a].unstakeRequested = now,
                                ![a].unstakePending = amount]
    /\ UNCHANGED <<now, metaVars, cfg, members, history, joinSeq, memberCount,
                   stakeTotal, fundVars, locks, whitelist>>

\* The pending amount, never more than the stake still held.
UnstakeAmount(a) == IF member[a].unstakePending > member[a].stake
                    THEN member[a].stake ELSE member[a].unstakePending

Unstaked(m, amount) == [Disarmed(m) EXCEPT !.stake = @ - amount]

FinishUnstake(a) ==
    /\ UnstakeAllowed(a)
    /\ member[a].unstakeRequested # 0
    /\ CooldownOver(member[a].unstakeRequested)
    /\ VotesSettled(a)
    /\ UnstakeAmount(a) \in 0 .. stakeTotal
    /\ UnstakeAmount(a) <= vault[FundsAsset]
    /\ vault' = [vault EXCEPT ![FundsAsset] = @ - UnstakeAmount(a)]
    /\ stakeTotal' = stakeTotal - UnstakeAmount(a)
    /\ member' = [member EXCEPT ![a] = Unstaked(@, UnstakeAmount(a))]
    /\ IF UnstakeAmount(a) = 0
       THEN UNCHANGED history
       ELSE RecordStake(a, member[a].stake - UnstakeAmount(a))
    /\ UNCHANGED <<now, metaVars, cfg, members, joinSeq, memberCount, treasury,
                   unspent, locks, whitelist>>

\* Mutant: what becomes stake is credited to the treasury as well.
DonatedPartAll(batch) == batch
\* The part of a top-up that does not become stake.
DonatedPart(batch) == [batch EXCEPT ![FundsAsset] = 0]

Donated(batch) == [x \in Assets |-> treasury[x] + batch[x]]

\* The call carries an intent to transfer something.
CarriesTransfer(batch) == \E x \in Assets : batch[x] > 0

\* AddFunds to the treasury: open to anyone, and while paused.
AddFundsToTreasury(batch) ==
    /\ CarriesTransfer(batch)
    /\ CanDraw(batch)
    /\ vault' = Drawn(batch)
    /\ treasury' = Donated(batch)
    /\ UNCHANGED <<now, metaVars, cfg, memberVars, unspent, locks, whitelist>>

(***************************************************************************)
(* AddFunds to stake: the stake asset raises the stake, the rest is        *)
(* donated.  Intents of one asset are summed: the entries they would       *)
(* append carry one timestamp, and a lookup sees the last of them.         *)
(* Without the stake asset the call does what AddFundsToTreasury does.     *)
(***************************************************************************)
AddFundsToStake(a, batch) ==
    LET amount == batch[FundsAsset] IN
    /\ ~paused
    /\ StakeVoting
    /\ a \in members
    /\ amount > 0
    /\ CanDraw(batch)
    /\ vault' = Drawn(batch)
    /\ treasury' = Donated(DonatedPart(batch))
    /\ member' = [member EXCEPT ![a] = ToppedUp(@, amount)]
    /\ RecordStake(a, member[a].stake + amount)
    /\ stakeTotal' = stakeTotal + amount
    /\ UNCHANGED <<now, metaVars, cfg, members, joinSeq, memberCount,
                   unspent, locks, whitelist>>

-----------------------------------------------------------------------------
(* Powers of the owner                                                     *)

CallerIsOwner(a) == HasOwner /\ a = owner

\* The approvals list after S is added or removed while M are the members:
\* entries are kept for non-members only, and members are skipped.
Approve(list, S, M)    == list \cup (S \ M)
Disapprove(list, S, M) == list \ (S \ M)

WhitelistMembers(a, addresses) ==
    /\ CallerIsOwner(a)
    /\ whitelist' = Approve(whitelist, addresses, members)
    /\ UNCHANGED <<now, metaVars, cfg, memberVars, fundVars, locks>>

RemoveWhitelistedMembers(a, addresses) ==
    /\ CallerIsOwner(a)
    /\ whitelist' = Disapprove(whitelist, addresses, members)
    /\ UNCHANGED <<now, metaVars, cfg, memberVars, fundVars, locks>>

TransferProjectOwnership(a, newOwner) ==
    /\ CallerIsOwner(a)
    /\ newOwner \in members
    /\ owner' = newOwner
    /\ UNCHANGED <<now, paused, cfg, memberVars, fundVars, locks, whitelist>>

EmergencyPauseImmediate(a, pause) ==
    /\ CallerIsOwner(a)
    /\ paused' = pause
    /\ UNCHANGED <<now, owner, cfg, memberVars, fundVars, locks, whitelist>>

-----------------------------------------------------------------------------
\* The chain produces a block with a later timestamp.
Tick ==
    /\ now < MaxTime
    /\ now' = now + 1
    /\ UNCHANGED <<metaVars, cfg, memberVars, fundVars, locks, whitelist>>

\* The state CreateProject leaves: the founder is member 0 with StakeMin at
\* stake, and what its intent held beyond that is the first treasury.
ProjectInit ==
    /\ now = 1
    /\ owner = Founder
    /\ paused = FALSE
    /\ cfg = InitialConfig
    /\ members = {Founder}
    /\ member = [[a \in Accounts |-> NoMember] EXCEPT ![Founder] = NewMember(StakeMin, 0)]
    /\ history = [[a \in Accounts |-> <<>>] EXCEPT
                     ![Founder] = <<[stake |-> StakeMin, time |-> now]>>]
    /\ joinSeq = 1
    /\ memberCount = 1
    /\ stakeTotal = StakeMin
    /\ treasury = OfFunds(FoundingExcess)
    /\ locks = [a \in Accounts |-> 0]
    /\ whitelist = {}
    /\ vault = OfFunds(StakeMin + FoundingExcess)
    /\ unspent = [x \in Assets |-> 0]

ProjectNext ==
    \/ \E a \in Accounts :
         \/ \E d \in Deposits : JoinProject(a, d)
         \/ RequestLeave(a)
         \/ FinishLeave(a)
         \/ \E amount \in UnstakeAmounts : RequestUnstake(a, amount)
         \/ FinishUnstake(a)
         \/ \E batch \in Batches : AddFundsToStake(a, batch)
         \/ \E S \in AddressLists : WhitelistMembers(a, S)
         \/ \E S \in AddressLists : RemoveWhitelistedMembers(a, S)
         \/ \E b \in Heirs : TransferProjectOwnership(a, b)
         \/ \E pause \in PauseCalls : EmergencyPauseImmediate(a, pause)
    \/ \E batch \in Batches : AddFundsToTreasury(batch)
    \/ Tick

ProjectSpec == ProjectInit /\ [][ProjectNext]_projectVars
-----------------------------------------------------------------------------
(* Properties                                                              *)

\* Every stored value has its type, and only members have a record.
ProjectTypeOK ==
    /\ now \in Nat \ {0}
    /\ owner \in Accounts \cup {NoAccount}
    /\ paused \in BOOLEAN
    /\ cfg \in [ConfigKeys -> Nat]
    /\ members \subseteq Accounts
    /\ member \in [Accounts -> Member]
    /\ history \in [Accounts -> Seq([stake : Nat, time : Nat])]
    /\ joinSeq \in Nat
    /\ memberCount \in Nat
    /\ stakeTotal \in Nat
    /\ treasury \in [Assets -> Nat]
    /\ locks \in [Accounts -> Nat]
    /\ whitelist \subseteq Accounts
    /\ vault \in [Assets -> Nat]
    /\ unspent \in [Assets -> Nat]
    /\ \A a \in Accounts \ members : member[a] = NoMember /\ history[a] = <<>>

\* The finance record agrees with the member records: its count is the number
\* of members and its total the sum of their stakes.  Every quorum and
\* threshold denominator is a copy of these two aggregates.
FinanceMatchesMembers ==
    /\ memberCount = Cardinality(members)
    /\ stakeTotal = StakeOf(members)

\* What the host holds for the contract is what the contract owes: treasury,
\* stakes, and allowances a called contract left undrawn.
LedgerBalanced ==
    \A x \in Assets :
        vault[x] = treasury[x] + unspent[x] + (IF x = FundsAsset THEN stakeTotal ELSE 0)

\* A project has a member as its owner or has no owner at all: whatever order
\* leaving, kicking and the ownership changes come in, nobody outside the
\* project pauses it or edits its whitelist.
OwnerIsMember == HasOwner => owner \in members

\* No member holds less than the minimum stake, in a one-member-one-vote project
\* all hold exactly that, and no history entry is below it.  An amount accepted
\* when a partial unstake was requested still leaves the minimum when it is paid
\* out, although the payment does not look at the minimum again.
\* The comments at projects.go:414-415 and votes.go:144 expect the contrary: that
\* the minimum is raised by a proposal in between.  No directive of
\* proposals.go:361-578 and no other call writes StakeMinAmt, which is why
\* StakeMin is a constant here; the clamp and the test that follow those
\* comments never apply.
StakesRespectMinimum ==
    \A a \in members :
        /\ IF StakeVoting THEN member[a].stake >= StakeMin
                          ELSE member[a].stake = StakeMin
        /\ member[a].unstakeRequested # 0 =>
             member[a].stake - member[a].unstakePending >= StakeMin
        /\ \A i \in DOMAIN history[a] : history[a][i].stake >= StakeMin

\* The stake history of a member is in time order, not later than one second
\* from now, and ends with the stake held: the next proposal weighs a member
\* by what it has at stake.
HistoryEndsAtStake ==
    \A a \in members :
        LET h == history[a] IN
        /\ h # <<>> /\ h[Len(h)].stake = member[a].stake
        /\ \A i \in DOMAIN h : h[i].time <= now + 1
        /\ \A i, j \in DOMAIN h : i < j => h[i].time <= h[j].time

\* An armed exit is never older than a stake increase: topping up re-arms the
\* cooldown, so nobody arms an exit first and adds voting stake afterwards.
ExitArmedAfterTopUps ==
    \A a \in members :
        member[a].exitRequested # 0 =>
            \A i \in 2 .. Len(history[a]) :
                history[a][i].stake > history[a][i - 1].stake =>
                    history[a][i].time <= member[a].exitRequested + 1

\* While paused nobody enters or leaves and no stake moves, in or out, whoever
\* calls what: the members and what they have at stake wait for the unpausing.
\* This is about calls that begin while paused: a join that waits for the NFT
\* contract has tested the pause already (projects.go:143) and is not stopped by
\* one that is switched on inside that call.
PauseFreezesStake ==
    [][paused => /\ UNCHANGED <<members, history, memberCount, stakeTotal>>
                 /\ \A a \in Accounts : member'[a].stake = member[a].stake]_projectVars
=============================================================================
