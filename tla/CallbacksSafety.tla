-------------------------- MODULE CallbacksSafety ---------------------------
(***************************************************************************)
(* Safety of the DAO while contracts it calls call it back, to any depth   *)
(* and for every value of the constants.                                   *)
(***************************************************************************)
EXTENDS Callbacks, GovernanceSafety

\* The state an abort goes back to, seen as a state of Governance.
Saved == INSTANCE Governance WITH
    owner <- saved.owner, paused <- saved.paused, cfg <- saved.cfg,
    members <- saved.members, member <- saved.member, history <- saved.history,
    joinSeq <- saved.joinSeq, memberCount <- saved.memberCount,
    stakeTotal <- saved.stakeTotal, treasury <- saved.treasury, vault <- saved.vault,
    unspent <- saved.unspent, locks <- saved.locks, whitelist <- saved.whitelist,
    proposalCount <- saved.proposalCount, proposals <- saved.proposals,
    options <- saved.options, ballots <- saved.ballots

-----------------------------------------------------------------------------
(* The state an abort goes back to                                         *)

\* The two views of a state share their constants.
LEMMA SameTypes ==
    /\ Saved!ConfigKeys = ConfigKeys /\ Saved!Member = Member
    /\ Saved!NoMember = NoMember /\ Saved!Proposal = Proposal
    /\ Saved!ProposalIds = ProposalIds /\ Saved!OptionIds = OptionIds
  <1>1. Saved!ProposalIds = ProposalIds /\ Saved!OptionIds = OptionIds
    BY DEF ProposalIds, OptionIds, Saved!ProposalIds, Saved!OptionIds
  <1>2. Saved!ConfigKeys = ConfigKeys
    BY DEF ConfigKeys, Saved!ConfigKeys
  <1>3. Saved!Member = Member /\ Saved!NoMember = NoMember
    BY DEF Member, Saved!Member, NoMember, Saved!NoMember
  <1>4. Saved!States = States /\ Saved!NoOutcome = NoOutcome
    BY DEF States, Saved!States, NoOutcome, Saved!NoOutcome
  <1>5. Saved!Proposal = Proposal
    BY <1>4 DEF Proposal, Saved!Proposal
  <1> QED BY <1>1, <1>2, <1>3, <1>5

LEMMA RestoredTyped ==
    ASSUME Saved!TypeOK, Abort
    PROVE  TypeOK'
  <1>1. Saved!ProjectTypeOK
    BY DEF Saved!TypeOK
  <1>2. ProjectTypeOK'
    BY <1>1, SameTypes DEF Abort, Saved!ProjectTypeOK, ProjectTypeOK
  <1> QED BY <1>2, SameTypes DEF Abort, Saved!TypeOK, TypeOK

LEMMA SavedTyped ==
    ASSUME TypeOK, saved' = Before, now' = now
    PROVE  Saved!TypeOK'
  <1>1. /\ saved'.owner = owner /\ saved'.paused = paused /\ saved'.cfg = cfg
        /\ saved'.members = members /\ saved'.member = member
        /\ saved'.history = history /\ saved'.joinSeq = joinSeq
        /\ saved'.memberCount = memberCount /\ saved'.stakeTotal = stakeTotal
        /\ saved'.treasury = treasury /\ saved'.vault = vault
        /\ saved'.unspent = unspent /\ saved'.locks = locks
        /\ saved'.whitelist = whitelist /\ saved'.proposalCount = proposalCount
        /\ saved'.proposals = proposals /\ saved'.options = options
        /\ saved'.ballots = ballots /\ saved'.debited = debited
    BY DEF Before
  <1>2. Saved!ProjectTypeOK'
    BY <1>1, SameTypes DEF TypeOK, ProjectTypeOK, Saved!ProjectTypeOK
  <1> QED BY <1>1, <1>2, SameTypes DEF TypeOK, Saved!TypeOK

-----------------------------------------------------------------------------
(* The invariant of a transaction that contracts call back into            *)

\* A join, and an execution, that wait for the contract they called.
Joining == [call : {"join"}, caller : Accounts, approved : BOOLEAN, listOnly : BOOLEAN]
Executing ==
    [call : {"execute"}, caller : Accounts, proposal : ProposalIds, made : Nat,
     allowance : [Assets -> Nat],
     prj : [owner : Accounts \cup {NoAccount}, memberCount : Nat, stakeTotal : Nat]]

FramesTyped ==
    /\ stack \in Seq(Joining \cup Executing)
    /\ debited \in [ProposalIds -> [Assets -> Nat]]

\* What the contracts still waited for may draw is held for them.
Drawable(frame, x) == IF frame.call = "execute" THEN frame.allowance[x] ELSE 0
DrawableOf(x) == [i \in DOMAIN stack |-> Drawable(stack[i], x)]
AllowancesHeld ==
    \A x \in Assets : SumFunctionOnSet(DrawableOf(x), DOMAIN stack) <= unspent[x]

\* The allowances of the first n calls of an outcome.
AllowedFirst(o, n, x) ==
    SumFunctionOnSet([i \in DOMAIN o.calls |-> o.calls[i][x]], 1 .. n)

\* What a proposal has taken that has no execution open.
Taken(q, x) == IF q.state = "executed" THEN Spent(q.outcome, x) ELSE 0

\* An execution that waits is the only one of its proposal, and has taken the
\* payouts and the allowances of the calls it made.
ExecutionExact(p, i) ==
    LET o == proposals[p].outcome IN
    /\ proposals[p].state = "executed"
    /\ OpenExecutions(p) = {i}
    /\ stack[i].made \in 1 .. Len(o.calls)
    /\ \A x \in Assets :
         debited[p][x] = PaidOut(o, x) + AllowedFirst(o, stack[i].made, x)

DebitExact(p) ==
    /\ OpenExecutions(p) = {} => \A x \in Assets : debited[p][x] = Taken(proposals[p], x)
    /\ \A i \in OpenExecutions(p) : ExecutionExact(p, i)
DebitsExact == \A p \in ProposalIds : DebitExact(p)

SavedExact ==
    /\ saved.debited \in [ProposalIds -> [Assets -> Nat]]
    /\ \A p \in ProposalIds, x \in Assets :
         saved.debited[p][x] = Taken(saved.proposals[p], x)

CallbackInv ==
    /\ TypeOK /\ LedgerBalanced
    /\ FramesTyped /\ AllowancesHeld /\ DebitsExact
    /\ ~Idle => Saved!TypeOK /\ Saved!LedgerBalanced /\ SavedExact

-----------------------------------------------------------------------------
(* Frames                                                                  *)

Frames == Joining \cup Executing

LEMMA TopFrame ==
    ASSUME FramesTyped, ~Idle
    PROVE  /\ DOMAIN stack = 1 .. Len(stack) /\ Len(stack) \in Nat \ {0}
           /\ Len(stack) \in DOMAIN stack /\ IsFiniteSet(DOMAIN stack)
           /\ Top = stack[Len(stack)] /\ Top \in Frames
           /\ Top.call = "join" => Top \in Joining
           /\ Top.call = "execute" => Top \in Executing
  <1>1. stack \in Seq(Frames) /\ stack # <<>>
    BY DEF FramesTyped, Frames, Idle
  <1>2. DOMAIN stack = 1 .. Len(stack) /\ Len(stack) \in Nat \ {0}
    BY <1>1
  <1>3. Len(stack) \in DOMAIN stack
    BY <1>2
  <1>4. IsFiniteSet(DOMAIN stack)
    BY <1>2, FS_Interval
  <1>5. Top = stack[Len(stack)] /\ Top \in Frames
    BY <1>1, <1>3 DEF Top
  <1>6. /\ Top.call = "join" => Top \in Joining
        /\ Top.call = "execute" => Top \in Executing
    BY <1>5 DEF Frames, Joining, Executing
  <1> QED BY <1>2, <1>3, <1>4, <1>5, <1>6

LEMMA FrameTyped ==
    ASSUME FramesTyped, NEW i \in DOMAIN stack
    PROVE  /\ stack[i] \in Frames /\ i \in Nat /\ ~Idle
           /\ stack[i].call = "execute" => stack[i] \in Executing
           /\ stack[i].call = "join" => stack[i] \in Joining
           /\ \A x \in Assets : Drawable(stack[i], x) \in Nat
  <1>1. stack \in Seq(Frames)
    BY DEF FramesTyped, Frames
  <1>2. stack[i] \in Frames /\ i \in Nat /\ ~Idle
    BY <1>1 DEF Idle
  <1>3. /\ stack[i].call = "execute" => stack[i] \in Executing
        /\ stack[i].call = "join" => stack[i] \in Joining
    BY <1>2 DEF Frames, Joining, Executing
  <1>4. \A x \in Assets : Drawable(stack[i], x) \in Nat
    BY <1>3 DEF Drawable, Executing
  <1> QED BY <1>2, <1>3, <1>4

LEMMA DrawableTyped ==
    ASSUME FramesTyped, NEW x \in Assets
    PROVE  /\ IsFiniteSet(DOMAIN stack)
           /\ \A i \in DOMAIN stack : DrawableOf(x)[i] \in Nat
           /\ \A i \in DOMAIN stack : DrawableOf(x)[i] = Drawable(stack[i], x)
           /\ SumFunctionOnSet(DrawableOf(x), DOMAIN stack) \in Nat
  <1>1. IsFiniteSet(DOMAIN stack)
    <2>1. DOMAIN stack = 1 .. Len(stack) /\ Len(stack) \in Nat
      BY DEF FramesTyped
    <2> QED BY <2>1, FS_Interval
  <1>2. \A i \in DOMAIN stack : DrawableOf(x)[i] = Drawable(stack[i], x)
    BY DEF DrawableOf
  <1>3. \A i \in DOMAIN stack : DrawableOf(x)[i] \in Nat
    BY <1>2, FrameTyped
  <1> QED BY <1>1, <1>2, <1>3, SumIsNat

\* A frame is put on the stack.
LEMMA FrameOpened ==
    ASSUME FramesTyped, NEW frame \in Frames, stack' = Append(stack, frame)
    PROVE  /\ stack' \in Seq(Frames)
           /\ DOMAIN stack' = DOMAIN stack \cup {Len(stack) + 1}
           /\ Len(stack) + 1 \notin DOMAIN stack
           /\ stack'[Len(stack) + 1] = frame
           /\ \A i \in DOMAIN stack : stack'[i] = stack[i]
           /\ stack' # <<>>
  <1>1. stack \in Seq(Frames)
    BY DEF FramesTyped, Frames
  <1>2. stack' \in Seq(Frames) /\ Len(stack') = Len(stack) + 1 /\ stack' # <<>>
    BY <1>1
  <1>3. /\ DOMAIN stack = 1 .. Len(stack) /\ DOMAIN stack' = 1 .. Len(stack')
        /\ Len(stack) \in Nat
    BY <1>1, <1>2
  <1> QED BY <1>1, <1>2, <1>3

\* The innermost frame is taken off.
LEMMA FrameClosed ==
    ASSUME FramesTyped, ~Idle, Close
    PROVE  /\ stack' \in Seq(Frames)
           /\ DOMAIN stack' = DOMAIN stack \ {Len(stack)}
           /\ \A i \in DOMAIN stack' : stack'[i] = stack[i]
           /\ stack' # <<>> => saved' = saved
  <1>1. stack \in Seq(Frames) /\ Len(stack) \in Nat \ {0} /\ DOMAIN stack = 1 .. Len(stack)
    BY TopFrame DEF FramesTyped, Frames
  <1>2. stack' = SubSeq(stack, 1, Len(stack) - 1)
    BY DEF Close
  <1>3. /\ Len(stack') = Len(stack) - 1 /\ stack' \in Seq(Frames)
        /\ \A i \in 1 .. Len(stack) - 1 : stack'[i] = stack[i]
    BY <1>1, <1>2
  <1>4. DOMAIN stack' = 1 .. Len(stack) - 1
    BY <1>3
  <1>5. stack' # <<>> => Len(stack) # 1
    BY <1>1, <1>3
  <1> QED BY <1>1, <1>3, <1>4, <1>5 DEF Close

\* The innermost frame is changed.
LEMMA FrameChanged ==
    ASSUME FramesTyped, ~Idle, NEW frame \in Frames,
           stack' = [stack EXCEPT ![Len(stack)] = frame]
    PROVE  /\ stack' \in Seq(Frames)
           /\ DOMAIN stack' = DOMAIN stack
           /\ stack'[Len(stack)] = frame
           /\ \A i \in DOMAIN stack \ {Len(stack)} : stack'[i] = stack[i]
           /\ stack' # <<>>
  <1>1. stack \in Seq(Frames) /\ Len(stack) \in DOMAIN stack
    BY TopFrame DEF FramesTyped, Frames
  <1> QED BY <1>1

-----------------------------------------------------------------------------
(* Which steps are steps of Governance                                     *)

\* The executed proposals stay executed and keep their outcome.
ExecutedKept ==
    \A p \in ProposalIds :
        /\ proposals'[p].state = "executed" <=> proposals[p].state = "executed"
        /\ proposals[p].state = "executed" =>
               proposals'[p].outcome = proposals[p].outcome

\* Nobody becomes a member, and no member gets an approval.
NobodyEnters ==
    /\ members' \subseteq members
    /\ \A a \in members' : a \in whitelist' => a \in whitelist

\* An entry point other than a join or an execution, used by anyone.
PlainEntry ==
    /\ [Next]_vars
    /\ ExecutedKept /\ NobodyEnters /\ cfg' = cfg
    /\ UNCHANGED <<callVars, debited>>

LEMMA ProjectEntryIsStep ==
    ASSUME NEW a \in Accounts, ProjectEntry(a), UNCHANGED governanceVars
    PROVE  [Next]_vars /\ ExecutedKept /\ NobodyEnters /\ cfg' = cfg
  <1>1. ProjectNext
    BY DEF ProjectEntry, ProjectNext
  <1>2. cfg' = cfg
    BY DEF ProjectEntry, RequestLeave, FinishLeave, RequestUnstake, FinishUnstake,
           AddFundsToStake, AddFundsToTreasury, WhitelistMembers, RemoveWhitelistedMembers,
           TransferProjectOwnership, EmergencyPauseImmediate, LeaveAllowed, UnstakeAllowed
  <1>3. members' = members \/ members' = members \ {a}
    BY DEF ProjectEntry, RequestLeave, FinishLeave, RequestUnstake, FinishUnstake,
           AddFundsToStake, AddFundsToTreasury, WhitelistMembers, RemoveWhitelistedMembers,
           TransferProjectOwnership, EmergencyPauseImmediate, LeaveAllowed, UnstakeAllowed,
           RemoveMembers, memberVars
  <1>4. \A b \in members' : b \in whitelist' => b \in whitelist
    <2>1. CASE whitelist' = whitelist
      BY <2>1
    <2>2. ASSUME NEW S \in AddressLists,
                 WhitelistMembers(a, S) \/ RemoveWhitelistedMembers(a, S)
          PROVE  \A b \in members' : b \in whitelist' => b \in whitelist
      BY <2>2 DEF WhitelistMembers, RemoveWhitelistedMembers, Approve, Disapprove, memberVars,
                  CallerIsOwner
    <2> QED
      BY <2>1, <2>2
      DEF ProjectEntry, RequestLeave, FinishLeave, RequestUnstake, FinishUnstake,
          AddFundsToStake, AddFundsToTreasury, TransferProjectOwnership,
          EmergencyPauseImmediate, LeaveAllowed, UnstakeAllowed
  <1> QED BY <1>1, <1>2, <1>3, <1>4 DEF Next, ExecutedKept, NobodyEnters, governanceVars

LEMMA ReplacedKept ==
    ASSUME TypeOK, NEW k \in ProposalIds, NEW q,
           proposals' = [proposals EXCEPT ![k] = q],
           proposals[k].state # "executed", q.state # "executed"
    PROVE  ExecutedKept
  BY DEF TypeOK, ExecutedKept

LEMMA CreateKeepsExecuted ==
    ASSUME TypeOK, NEW a \in Accounts, NEW o \in Outcomes, NEW form \in Forms,
           NEW d \in Durations, CreateProposal(a, o, form, d)
    PROVE  ExecutedKept
  <1> DEFINE q == NewProposal(a, o, form, d)
  <1>1. PICK k \in ProposalIds : k = proposalCount
    BY GovernanceConstants DEF GovernanceConstants, CreateProposal, TypeOK, ProposalIds
  <1>2. proposals' = [proposals EXCEPT ![k] = q]
    BY <1>1 DEF CreateProposal
  <1>3. proposals[k].state = "none"
    BY <1>1 DEF TypeOK, ProposalIds
  <1>4. q.state = "active"
    BY DEF NewProposal
  <1> HIDE DEF q
  <1> QED BY <1>2, <1>3, <1>4, ReplacedKept

LEMMA VoteKeepsExecuted ==
    ASSUME TypeOK, NEW a \in Accounts, NEW p \in ProposalIds, NEW choices \in ChoiceSets,
           VoteProposal(a, p, choices)
    PROVE  ExecutedKept
  <1>1. proposals' = proposals \/ proposals' = [proposals EXCEPT ![p].voterCount = @ + 1]
    BY DEF VoteProposal
  <1> QED BY <1>1 DEF ExecutedKept, TypeOK, Proposal

LEMMA TallyKeepsExecuted ==
    ASSUME TypeOK, NEW p \in ProposalIds, TallyProposal(p)
    PROVE  ExecutedKept
  <1>1. /\ proposals' = [proposals EXCEPT ![p] = Decided(proposals[p], p)]
        /\ proposals[p].state = "active" /\ proposals[p] \in Proposal
    BY DEF TallyProposal, VotingOver, TypeOK
  <1>2. Verdict(p) # "executed"
    BY DEF Verdict
  <1>3. Decided(proposals[p], p).state # "executed"
    BY <1>1, <1>2 DEF Decided, Proposal
  <1> QED BY <1>1, <1>3, ReplacedKept

LEMMA CancelKeepsExecuted ==
    ASSUME TypeOK, NEW a \in Accounts, NEW p \in ProposalIds, CancelProposal(a, p)
    PROVE  ExecutedKept
  <1>1. /\ proposals' = [proposals EXCEPT ![p] = Cancelled(proposals[p])]
        /\ proposals[p].state = "active" /\ proposals[p] \in Proposal
    BY DEF CancelProposal, TypeOK
  <1>2. Cancelled(proposals[p]).state # "executed"
    BY <1>1 DEF Cancelled, Proposal
  <1> QED BY <1>1, <1>2, ReplacedKept

LEMMA ProposalEntryIsStep ==
    ASSUME TypeOK, NEW a \in Accounts, ProposalEntry(a)
    PROVE  [Next]_vars /\ ExecutedKept /\ NobodyEnters /\ cfg' = cfg
  <1>1. GovernanceNext
    BY DEF ProposalEntry, GovernanceNext
  <1>2. ExecutedKept
    BY CreateKeepsExecuted, VoteKeepsExecuted, TallyKeepsExecuted, CancelKeepsExecuted
    DEF ProposalEntry
  <1>3. UNCHANGED <<members, whitelist, cfg>>
    BY DEF ProposalEntry, CreateProposal, VoteProposal, TakesVotes, TallyProposal, VotingOver,
           CancelProposal, memberVars
  <1> QED BY <1>1, <1>2, <1>3 DEF Next, NobodyEnters

LEMMA ExecuteAtOnceIsStep ==
    ASSUME TypeOK, NEW a \in Accounts, NEW p \in ProposalIds, ExecuteAtOnce(a, p)
    PROVE  [Next]_vars
  <1> DEFINE o == proposals[p].outcome
  <1>1. IsOutcome(o)
    BY OutcomeOfProposal
  <1>2. \A x \in Assets : Allowed(o, x) \in Nat
    BY <1>1, SpentTyped
  <1>3. NoDraw \in [Assets -> 0 .. MaxHolding]
    BY ProjectConstants DEF ProjectConstants, NoDraw
  <1>4. NoDraw \in Draws(o)
    BY <1>2, <1>3 DEF Draws, NoDraw
  <1>5. ExecuteProposal(a, p, NoDraw)
    BY DEF ExecuteAtOnce
  <1>6. GovernanceNext
    BY <1>4, <1>5 DEF GovernanceNext
  <1> QED BY <1>6 DEF Next

\* Asking the NFT contract, and returning from the last call, change nothing.
LEMMA BeginJoinIsStep ==
    ASSUME NEW a \in Accounts, BeginJoin(a)
    PROVE  UNCHANGED vars /\ debited' = debited
  <1>1. whitelist' = whitelist
    BY DEF BeginJoin, ListAfter, DeletedWhen
  <1> QED BY <1>1 DEF BeginJoin, vars, projectVars, governanceVars

LEMMA FinishExecuteIsStep ==
    ASSUME FinishExecute
    PROVE  UNCHANGED vars /\ debited' = debited
  BY DEF FinishExecute, ProjectAfterCalls, vars, projectVars, governanceVars, metaVars,
         memberVars

\* What a step is: an entry point used by a caller of the DAO or by a contract
\* it called, the beginning or the end of a call that waits, or an abort.
LEMMA StepCases ==
    ASSUME TypeOK, [CallbackNext]_allVars
    PROVE  \/ PlainEntry
           \/ \E a \in Accounts, p \in ProposalIds :
                ExecuteAtOnce(a, p) /\ UNCHANGED callVars
           \/ \E a \in Accounts : BeginJoin(a)
           \/ \E a \in Accounts, p \in ProposalIds : BeginExecute(a, p)
           \/ \E d \in Deposits : FinishJoin(d)
           \/ \E x \in Assets, n \in 1 .. MaxHolding : DrawAllowance(x, n)
           \/ NextCall \/ FinishExecute \/ Abort
  <1>1. ASSUME NEW a \in Accounts, ProjectEntry(a), UNCHANGED <<governanceVars, callVars, debited>>
        PROVE  PlainEntry
    BY <1>1, ProjectEntryIsStep DEF PlainEntry
  <1>2. ASSUME NEW a \in Accounts, ProposalEntry(a), UNCHANGED <<callVars, debited>>
        PROVE  PlainEntry
    BY <1>2, ProposalEntryIsStep DEF PlainEntry
  <1>3. ASSUME Tick, UNCHANGED <<governanceVars, callVars, debited>>
        PROVE  PlainEntry
    BY <1>3 DEF PlainEntry, Next, ProjectNext, ExecutedKept, NobodyEnters, governanceVars, Tick,
                memberVars
  <1>4. ASSUME UNCHANGED allVars
        PROVE  PlainEntry
    BY <1>4 DEF PlainEntry, ExecutedKept, NobodyEnters, allVars, vars, projectVars, memberVars,
                governanceVars
  <1> QED BY <1>1, <1>2, <1>3, <1>4 DEF CallbackNext

-----------------------------------------------------------------------------
(* Types                                                                   *)

LEMMA SameVars ==
    ASSUME TypeOK, UNCHANGED vars
    PROVE  TypeOK'
  BY StepTyped

LEMMA FinishJoinTyped ==
    ASSUME TypeOK, FramesTyped, NEW d \in Deposits, FinishJoin(d)
    PROVE  TypeOK'
  <1>1. Top.caller \in Accounts
    BY TopFrame DEF FinishJoin, Waiting, Joining
  <1>2. ProjectTypeOK /\ whitelist' \subseteq Accounts
    BY DEF FinishJoin, ListAfter, TypeOK, ProjectTypeOK
  <1>3. AdmitMember(Top.caller, d) /\ UNCHANGED <<now, metaVars, cfg, treasury, unspent, locks>>
    BY DEF FinishJoin
  <1>4. ProjectTypeOK'
    BY <1>1, <1>2, <1>3, AdmissionTyped
  <1> QED BY <1>4 DEF FinishJoin, TypeOK, governanceVars, ballotVars

\* An outcome with calls, the funds its beginning takes, and its first frame.
LEMMA BeginExecuteTaken ==
    ASSUME TypeOK, NEW a \in Accounts, NEW p \in ProposalIds, BeginExecute(a, p)
    PROVE  LET o == proposals[p].outcome IN
           /\ IsOutcome(o) /\ o.calls \in Seq([Assets -> Nat]) /\ 1 \in 1 .. Len(o.calls)
           /\ o.calls[1] \in [Assets -> Nat]
           /\ \A x \in Assets :
                /\ PaidOut(o, x) \in Nat /\ o.calls[1][x] \in Nat
                /\ PaidOut(o, x) + o.calls[1][x] <= treasury[x]
                /\ treasury'[x] = treasury[x] - (PaidOut(o, x) + o.calls[1][x])
                /\ Outflow(o, NoDraw, x) <= vault[x]
                /\ vault'[x] = vault[x] - Outflow(o, NoDraw, x)
                /\ unspent'[x] = unspent[x] + o.calls[1][x]
           /\ RemoveMembers(Kicked(o)) /\ StakeOf(Kicked(o)) \in 0 .. stakeTotal
           /\ ApplyOutcome(o) /\ now' = now
           /\ treasury' = [x \in Assets |-> treasury[x] - PaidOutAnd(o, o.calls[1])[x]]
           /\ vault' = [x \in Assets |-> vault[x] - Outflow(o, NoDraw, x)]
           /\ unspent' = [x \in Assets |-> unspent[x] + o.calls[1][x]]
  <1> DEFINE o == proposals[p].outcome
  <1>1. IsOutcome(o)
    BY OutcomeOfProposal
  <1>2. o.calls \in Seq([Assets -> Nat]) /\ o.calls # <<>>
    BY <1>1 DEF IsOutcome, AreCalls, BeginExecute
  <1>3. 1 \in 1 .. Len(o.calls) /\ o.calls[1] \in [Assets -> Nat]
    <2> HIDE DEF o
    <2> QED BY <1>2
  <1>4. /\ Debit(p, PaidOutAnd(o, o.calls[1])) /\ ApplyOutcome(o) /\ now' = now
        /\ \A x \in Assets : Outflow(o, NoDraw, x) <= vault[x]
        /\ vault' = [x \in Assets |-> vault[x] - Outflow(o, NoDraw, x)]
        /\ unspent' = [x \in Assets |-> unspent[x] + o.calls[1][x]]
    BY DEF BeginExecute, Granted
  <1>5. RemoveMembers(Kicked(o)) /\ StakeOf(Kicked(o)) \in 0 .. stakeTotal
    BY <1>4 DEF ApplyOutcome, RemoveMembers
  <1> HIDE DEF o
  <1>6. /\ treasury' = [x \in Assets |-> treasury[x] - PaidOutAnd(o, o.calls[1])[x]]
        /\ \A x \in Assets : PaidOutAnd(o, o.calls[1])[x] <= treasury[x]
    BY <1>4 DEF Debit
  <1>7. \A x \in Assets : PaidOutAnd(o, o.calls[1])[x] = PaidOut(o, x) + o.calls[1][x]
    BY DEF PaidOutAnd
  <1>8. \A x \in Assets : PaidOut(o, x) \in Nat /\ o.calls[1][x] \in Nat
    BY <1>1, <1>3, SpentTyped
  <1>9. ASSUME NEW x \in Assets
        PROVE  /\ PaidOut(o, x) + o.calls[1][x] <= treasury[x]
               /\ treasury'[x] = treasury[x] - (PaidOut(o, x) + o.calls[1][x])
               /\ vault'[x] = vault[x] - Outflow(o, NoDraw, x)
               /\ unspent'[x] = unspent[x] + o.calls[1][x]
    BY <1>4, <1>6, <1>7
  <1> QED BY <1>1, <1>2, <1>3, <1>4, <1>5, <1>6, <1>8, <1>9 DEF o

LEMMA BeginExecuteTyped ==
    ASSUME TypeOK, NEW a \in Accounts, NEW p \in ProposalIds, BeginExecute(a, p)
    PROVE  TypeOK'
  <1> DEFINE o == proposals[p].outcome
  <1>1. /\ IsOutcome(o) /\ ApplyOutcome(o) /\ now' = now
        /\ StakeOf(Kicked(o)) \in 0 .. stakeTotal
        /\ \A x \in Assets :
             /\ PaidOut(o, x) \in Nat /\ o.calls[1][x] \in Nat
             /\ PaidOut(o, x) + o.calls[1][x] <= treasury[x]
             /\ Outflow(o, NoDraw, x) <= vault[x]
        /\ treasury' = [x \in Assets |-> treasury[x] - PaidOutAnd(o, o.calls[1])[x]]
        /\ vault' = [x \in Assets |-> vault[x] - Outflow(o, NoDraw, x)]
        /\ unspent' = [x \in Assets |-> unspent[x] + o.calls[1][x]]
    BY BeginExecuteTaken
  <1>2. ProjectTypeOK
    BY DEF TypeOK
  <1> HIDE DEF o
  <1>3. ASSUME NEW x \in Assets
        PROVE  /\ treasury[x] - PaidOutAnd(o, o.calls[1])[x] \in Nat
               /\ vault[x] - Outflow(o, NoDraw, x) \in Nat
               /\ unspent[x] + o.calls[1][x] \in Nat
    <2>1. /\ treasury[x] \in Nat /\ vault[x] \in Nat /\ unspent[x] \in Nat
          /\ stakeTotal \in Nat
      BY <1>2, BalancesTyped
    <2>2. PaidOutAnd(o, o.calls[1])[x] = PaidOut(o, x) + o.calls[1][x]
      BY DEF PaidOutAnd
    <2>3. Outflow(o, NoDraw, x) \in Nat
      BY <1>1, <2>1 DEF Outflow, NoDraw
    <2> QED BY <1>1, <2>1, <2>2, <2>3
  <1>4. /\ treasury' \in [Assets -> Nat]
        /\ vault' \in [Assets -> Nat]
        /\ unspent' \in [Assets -> Nat]
    BY <1>1, <1>3
  <1>5. ProjectTypeOK'
    BY <1>1, <1>2, <1>4, ApplyTyped
  <1>6. /\ proposals' \in [ProposalIds -> Proposal]
        /\ \A k \in ProposalIds : proposals'[k].state = "none" <=> k >= proposalCount'
    BY ExecutedTyped DEF BeginExecute, Executable, StateDuringCalls
  <1> QED BY <1>5, <1>6 DEF BeginExecute, TypeOK, ballotVars

LEMMA DrawTaken ==
    ASSUME TypeOK, FramesTyped, NEW x \in Assets, NEW n \in 1 .. MaxHolding,
           DrawAllowance(x, n)
    PROVE  /\ Top \in Executing /\ ~Idle /\ n \in Nat /\ n <= Top.allowance[x]
           /\ n <= vault[x]
           /\ vault' = [vault EXCEPT ![x] = @ - n]
           /\ unspent' = [unspent EXCEPT ![x] = @ - n]
           /\ stack' = [stack EXCEPT ![Len(stack)] = [Top EXCEPT !.allowance[x] = @ - n]]
           /\ [Top EXCEPT !.allowance[x] = @ - n] \in Executing
  <1>1. Top \in Executing /\ ~Idle /\ Top = stack[Len(stack)]
    BY TopFrame DEF DrawAllowance, Waiting
  <1>2. Top.allowance \in [Assets -> Nat]
    BY <1>1 DEF Executing
  <1>3. n \in Nat /\ n <= Top.allowance[x] /\ n <= vault[x]
    BY <1>2 DEF DrawAllowance
  <1>4. [Top.allowance EXCEPT ![x] = @ - n] \in [Assets -> Nat]
    BY <1>2, <1>3
  <1>5. [Top EXCEPT !.allowance[x] = @ - n] \in Executing
    BY <1>1, <1>4 DEF Executing
  <1>6. stack' = [stack EXCEPT ![Len(stack)] = [Top EXCEPT !.allowance[x] = @ - n]]
    BY <1>1 DEF DrawAllowance
  <1> QED BY <1>1, <1>3, <1>5, <1>6 DEF DrawAllowance

\* Nothing is drawn that is not held: what the innermost contract may still draw
\* is part of what all of them may.
LEMMA TopHeld ==
    ASSUME TypeOK, FramesTyped, AllowancesHeld, Waiting("execute"), NEW x \in Assets
    PROVE  Top.allowance[x] \in Nat /\ Top.allowance[x] <= unspent[x]
  <1> DEFINE D == DOMAIN stack
             f == DrawableOf(x)
             n == Len(stack)
  <1>1. /\ n \in D /\ IsFiniteSet(D) /\ Top = stack[n] /\ Top \in Executing
    BY TopFrame DEF Waiting
  <1>2. \A i \in D : f[i] \in Nat
    BY DrawableTyped
  <1>3. f[n] = Top.allowance[x]
    BY <1>1 DEF DrawableOf, Drawable, Executing
  <1>4. SumFunctionOnSet(f, D) = f[n] + SumFunctionOnSet(f, D \ {n})
    <2> HIDE DEF D, f, n
    <2> QED BY <1>1, <1>2, SumWithout
  <1>5. SumFunctionOnSet(f, D \ {n}) \in Nat
    <2>1. IsFiniteSet(D \ {n})
      BY <1>1, FS_RemoveElement
    <2> HIDE DEF D, f, n
    <2> QED BY <1>2, <2>1, SumIsNat
  <1>6. SumFunctionOnSet(f, D) <= unspent[x] /\ unspent[x] \in Nat
    BY DEF AllowancesHeld, TypeOK, ProjectTypeOK
  <1> HIDE DEF D, f, n
  <1>7. f[n] \in Nat
    BY <1>1, <1>2
  <1> QED BY <1>3, <1>4, <1>5, <1>6, <1>7

LEMMA DrawTyped ==
    ASSUME TypeOK, FramesTyped, AllowancesHeld, NEW x \in Assets, NEW n \in 1 .. MaxHolding,
           DrawAllowance(x, n)
    PROVE  TypeOK'
  <1>1. /\ n \in Nat /\ n <= vault[x] /\ n <= unspent[x]
        /\ vault' = [vault EXCEPT ![x] = @ - n] /\ unspent' = [unspent EXCEPT ![x] = @ - n]
    <2>1. Top.allowance[x] \in Nat /\ Top.allowance[x] <= unspent[x] /\ unspent[x] \in Nat
      BY TopHeld DEF DrawAllowance, TypeOK, ProjectTypeOK
    <2>2. /\ n \in Nat /\ n <= Top.allowance[x] /\ n <= vault[x]
          /\ vault' = [vault EXCEPT ![x] = @ - n] /\ unspent' = [unspent EXCEPT ![x] = @ - n]
      BY DrawTaken
    <2> QED BY <2>1, <2>2
  <1>2. vault \in [Assets -> Nat] /\ unspent \in [Assets -> Nat]
    BY DEF TypeOK, ProjectTypeOK
  <1>3. vault' \in [Assets -> Nat] /\ unspent' \in [Assets -> Nat]
    BY <1>1, <1>2
  <1> QED
    BY <1>3 DEF DrawAllowance, TypeOK, ProjectTypeOK, metaVars, memberVars, governanceVars,
                ballotVars

\* The next call of the innermost execution, and what it takes.
LEMMA NextCallTaken ==
    ASSUME TypeOK, FramesTyped, NextCall
    PROVE  LET calls == proposals[Top.proposal].outcome.calls
               i == Top.made + 1
           IN /\ ~Idle /\ Top \in Executing /\ Top.proposal \in ProposalIds
              /\ i \in 1 .. Len(calls) /\ calls \in Seq([Assets -> Nat])
              /\ calls[i] \in [Assets -> Nat]
              /\ \A x \in Assets : calls[i][x] \in Nat /\ calls[i][x] <= treasury[x]
              /\ treasury' = [x \in Assets |-> treasury[x] - calls[i][x]]
              /\ unspent' = [x \in Assets |-> unspent[x] + calls[i][x]]
              /\ debited' = [debited EXCEPT ![Top.proposal] =
                                [x \in Assets |-> @[x] + calls[i][x]]]
              /\ stack' = [stack EXCEPT ![Len(stack)] =
                              [Top EXCEPT !.made = i, !.allowance = calls[i]]]
              /\ [Top EXCEPT !.made = i, !.allowance = calls[i]] \in Executing
              /\ UNCHANGED <<vault, stakeTotal, proposals, members>>
  <1> DEFINE calls == proposals[Top.proposal].outcome.calls
             i == Top.made + 1
  <1>1. ~Idle /\ Top \in Executing /\ Top = stack[Len(stack)]
    BY TopFrame DEF NextCall, Waiting
  <1>2. Top.proposal \in ProposalIds /\ Top.made \in Nat
    BY <1>1 DEF Executing
  <1>3. calls \in Seq([Assets -> Nat])
    BY <1>2, OutcomeOfProposal DEF IsOutcome, AreCalls
  <1>4. i \in 1 .. Len(calls)
    <2>1. i <= Len(calls) /\ i \in Nat \ {0}
      BY <1>2 DEF NextCall
    <2>2. Len(calls) \in Nat
      BY <1>3
    <2> QED BY <2>1, <2>2
  <1>5. calls[i] \in [Assets -> Nat]
    <2> HIDE DEF calls, i
    <2> QED BY <1>3, <1>4
  <1>6. /\ Debit(Top.proposal, calls[i])
        /\ unspent' = [x \in Assets |-> unspent[x] + calls[i][x]]
        /\ stack' = [stack EXCEPT ![Len(stack)].made = i,
                                  ![Len(stack)].allowance = calls[i]]
        /\ UNCHANGED <<vault, stakeTotal, proposals, members>>
    BY DEF NextCall, Granted, memberVars, governanceVars
  <1>7. /\ \A x \in Assets : calls[i][x] <= treasury[x]
        /\ treasury' = [x \in Assets |-> treasury[x] - calls[i][x]]
        /\ debited' = [debited EXCEPT ![Top.proposal] = [x \in Assets |-> @[x] + calls[i][x]]]
    BY <1>6 DEF Debit
  <1>8. i \in Nat
    BY <1>2
  <1> HIDE DEF calls, i
  <1>9. stack' = [stack EXCEPT ![Len(stack)] =
                     [Top EXCEPT !.made = i, !.allowance = calls[i]]]
    <2>1. stack \in Seq(Frames) /\ Len(stack) \in DOMAIN stack
      BY <1>1, TopFrame DEF FramesTyped, Frames
    <2> QED BY <1>1, <1>6, <2>1
  <1>10. [Top EXCEPT !.made = i, !.allowance = calls[i]] \in Executing
    BY <1>1, <1>5, <1>8 DEF Executing
  <1>11. \A x \in Assets : calls[i][x] \in Nat
    BY <1>5
  <1> QED BY <1>1, <1>2, <1>3, <1>4, <1>5, <1>6, <1>7, <1>9, <1>10, <1>11 DEF calls, i

LEMMA NextCallTyped ==
    ASSUME TypeOK, FramesTyped, NextCall
    PROVE  TypeOK'
  <1> DEFINE c == proposals[Top.proposal].outcome.calls[Top.made + 1]
  <1>1. /\ \A x \in Assets : c[x] \in Nat /\ c[x] <= treasury[x]
        /\ treasury' = [x \in Assets |-> treasury[x] - c[x]]
        /\ unspent' = [x \in Assets |-> unspent[x] + c[x]]
    BY NextCallTaken
  <1>2. \A x \in Assets : treasury[x] \in Nat /\ unspent[x] \in Nat
    BY BalancesTyped DEF TypeOK
  <1> HIDE DEF c
  <1>3. treasury' \in [Assets -> Nat] /\ unspent' \in [Assets -> Nat]
    BY <1>1, <1>2
  <1> QED
    BY <1>3 DEF NextCall, TypeOK, ProjectTypeOK, metaVars, memberVars, governanceVars,
                ballotVars

LEMMA TypeKept ==
    ASSUME CallbackInv, [CallbackNext]_allVars
    PROVE  TypeOK'
  <1>1. TypeOK /\ FramesTyped /\ AllowancesHeld
    BY DEF CallbackInv
  <1>2. CASE PlainEntry
    BY <1>1, <1>2, StepTyped DEF PlainEntry
  <1>3. ASSUME NEW a \in Accounts, NEW p \in ProposalIds, ExecuteAtOnce(a, p)
        PROVE  TypeOK'
    BY <1>1, <1>3, StepTyped, ExecuteAtOnceIsStep
  <1>4. ASSUME NEW a \in Accounts, BeginJoin(a)
        PROVE  TypeOK'
    BY <1>1, <1>4, SameVars, BeginJoinIsStep
  <1>5. CASE FinishExecute
    BY <1>1, <1>5, SameVars, FinishExecuteIsStep
  <1>6. CASE Abort
    BY <1>6, RestoredTyped DEF CallbackInv, Abort
  <1> QED
    BY <1>1, <1>2, <1>3, <1>4, <1>5, <1>6, StepCases, BeginExecuteTyped, FinishJoinTyped,
       DrawTyped, NextCallTyped

-----------------------------------------------------------------------------
(* The host ledger                                                         *)

LEMMA FinishJoinLedger ==
    ASSUME TypeOK, LedgerBalanced, FramesTyped, NEW d \in Deposits, FinishJoin(d)
    PROVE  LedgerBalanced'
  <1>1. Top.caller \in Accounts /\ ProjectTypeOK
    BY TopFrame DEF FinishJoin, Waiting, Joining, TypeOK
  <1>2. AdmitMember(Top.caller, d) /\ UNCHANGED <<treasury, unspent>>
    BY DEF FinishJoin
  <1> QED BY <1>1, <1>2, AdmissionLedger

LEMMA BeginExecuteLedger ==
    ASSUME TypeOK, LedgerBalanced, NEW a \in Accounts, NEW p \in ProposalIds,
           BeginExecute(a, p)
    PROVE  LedgerBalanced'
  <1> DEFINE o == proposals[p].outcome
             refund == StakeOf(Kicked(o))
             granted == o.calls[1]
  <1>1. ProjectTypeOK
    BY DEF TypeOK
  <1>2. refund \in Nat /\ stakeTotal' = stakeTotal - refund
    BY <1>1, BeginExecuteTaken DEF RemoveMembers, ProjectTypeOK
  <1>3. ASSUME NEW x \in Assets
        PROVE  vault'[x] = treasury'[x] + unspent'[x]
                             + (IF x = FundsAsset THEN stakeTotal' ELSE 0)
    <2>1. /\ PaidOut(o, x) \in Nat /\ granted[x] \in Nat
          /\ treasury'[x] = treasury[x] - (PaidOut(o, x) + granted[x])
          /\ vault'[x] = vault[x] - Outflow(o, NoDraw, x)
          /\ unspent'[x] = unspent[x] + granted[x]
      BY BeginExecuteTaken
    <2>2. NoDraw[x] = 0 /\ NoDraw[x] \in Nat
      BY DEF NoDraw
    <2>3. Outflow(o, NoDraw, x) = PaidOut(o, x) + NoDraw[x]
                                    + (IF x = FundsAsset THEN refund ELSE 0)
      BY DEF Outflow
    <2>4. unspent[x] \in Nat
      BY <1>1, BalancesTyped
    <2> HIDE DEF o, refund, granted
    <2>5. unspent'[x] = unspent[x] + granted[x] - NoDraw[x]
      BY <2>1, <2>2, <2>4
    <2> QED BY <1>1, <1>2, <2>1, <2>2, <2>3, <2>5, OutflowBalanced
  <1> QED BY <1>3 DEF LedgerBalanced

LEMMA DrawLedger ==
    ASSUME TypeOK, LedgerBalanced, FramesTyped, NEW x \in Assets, NEW n \in 1 .. MaxHolding,
           DrawAllowance(x, n)
    PROVE  LedgerBalanced'
  <1>1. /\ vault' = [vault EXCEPT ![x] = @ - n] /\ unspent' = [unspent EXCEPT ![x] = @ - n]
        /\ n \in Nat /\ treasury' = treasury /\ stakeTotal' = stakeTotal
    BY DrawTaken DEF DrawAllowance, memberVars
  <1>2. /\ vault \in [Assets -> Nat] /\ unspent \in [Assets -> Nat]
        /\ \A y \in Assets : treasury[y] \in Nat
        /\ stakeTotal \in Nat
    BY DEF TypeOK, ProjectTypeOK
  <1> QED BY <1>1, <1>2 DEF LedgerBalanced

LEMMA NextCallLedger ==
    ASSUME TypeOK, LedgerBalanced, FramesTyped, NextCall
    PROVE  LedgerBalanced'
  <1> DEFINE c == proposals[Top.proposal].outcome.calls[Top.made + 1]
  <1>1. /\ \A x \in Assets : c[x] \in Nat
        /\ treasury' = [x \in Assets |-> treasury[x] - c[x]]
        /\ unspent' = [x \in Assets |-> unspent[x] + c[x]]
        /\ UNCHANGED <<vault, stakeTotal>>
    BY NextCallTaken
  <1>2. \A x \in Assets : vault[x] \in Nat /\ treasury[x] \in Nat /\ unspent[x] \in Nat
    BY BalancesTyped DEF TypeOK
  <1>3. stakeTotal \in Nat
    BY BalancesTyped DEF TypeOK
  <1> HIDE DEF c
  <1> QED BY <1>1, <1>2, <1>3 DEF LedgerBalanced

LEMMA AbortLedger ==
    ASSUME Saved!LedgerBalanced, Abort
    PROVE  LedgerBalanced'
  BY DEF Abort, LedgerBalanced, Saved!LedgerBalanced

LEMMA LedgerOfStep ==
    ASSUME CallbackInv, [CallbackNext]_allVars
    PROVE  LedgerBalanced'
  <1>1. TypeOK /\ LedgerBalanced /\ FramesTyped
    BY DEF CallbackInv
  <1>2. CASE PlainEntry
    BY <1>1, <1>2, LedgerKept DEF PlainEntry
  <1>3. ASSUME NEW a \in Accounts, NEW p \in ProposalIds, ExecuteAtOnce(a, p)
        PROVE  LedgerBalanced'
    BY <1>1, <1>3, LedgerKept, ExecuteAtOnceIsStep
  <1>4. ASSUME NEW a \in Accounts, BeginJoin(a)
        PROVE  LedgerBalanced'
    BY <1>1, <1>4, LedgerKept, BeginJoinIsStep
  <1>5. CASE FinishExecute
    BY <1>1, <1>5, LedgerKept, FinishExecuteIsStep
  <1>6. CASE Abort
    BY <1>6, AbortLedger DEF CallbackInv, Abort
  <1> QED
    BY <1>1, <1>2, <1>3, <1>4, <1>5, <1>6, StepCases, BeginExecuteLedger, FinishJoinLedger,
       DrawLedger, NextCallLedger

-----------------------------------------------------------------------------
(* The frames stay typed                                                   *)

LEMMA DebitTyped ==
    ASSUME FramesTyped, NEW p \in ProposalIds, NEW taken \in [Assets -> Nat],
           debited' = [debited EXCEPT ![p] = [x \in Assets |-> @[x] + taken[x]]]
    PROVE  debited' \in [ProposalIds -> [Assets -> Nat]]
  <1>1. debited \in [ProposalIds -> [Assets -> Nat]]
    BY DEF FramesTyped
  <1>2. [x \in Assets |-> debited[p][x] + taken[x]] \in [Assets -> Nat]
    BY <1>1
  <1> QED BY <1>1, <1>2

LEMMA ExecuteAtOnceTaken ==
    ASSUME TypeOK, FramesTyped, NEW a \in Accounts, NEW p \in ProposalIds,
           ExecuteAtOnce(a, p)
    PROVE  LET o == proposals[p].outcome IN
           /\ debited' \in [ProposalIds -> [Assets -> Nat]]
           /\ \A x \in Assets : debited'[p][x] = debited[p][x] + Spent(o, x)
           /\ \A k \in ProposalIds \ {p} :
                debited'[k] = debited[k] /\ proposals'[k] = proposals[k]
           /\ proposals[p].state = "passed"
           /\ proposals'[p].state = "executed" /\ proposals'[p].outcome = o
           /\ \A x \in Assets : Spent(o, x) \in Nat
  <1> DEFINE o == proposals[p].outcome
             taken == [x \in Assets |-> Spent(o, x)]
  <1>1. \A x \in Assets : Spent(o, x) \in Nat
    BY OutcomeOfProposal, SpentTyped
  <1>2. debited' = [debited EXCEPT ![p] = [x \in Assets |-> @[x] + Spent(o, x)]]
    BY DEF ExecuteAtOnce
  <1>3. /\ proposals' = [proposals EXCEPT ![p].state = "executed"]
        /\ proposals[p].state = "passed" /\ proposals \in [ProposalIds -> Proposal]
    BY DEF ExecuteAtOnce, ExecuteProposal, Executable, TypeOK
  <1>4. /\ proposals'[p].state = "executed" /\ proposals'[p].outcome = o
        /\ \A k \in ProposalIds \ {p} : proposals'[k] = proposals[k]
    BY <1>3 DEF Proposal
  <1> HIDE DEF o
  <1>5. taken \in [Assets -> Nat]
    BY <1>1
  <1>6. debited' = [debited EXCEPT ![p] = [x \in Assets |-> @[x] + taken[x]]]
    BY <1>2
  <1>7. debited' \in [ProposalIds -> [Assets -> Nat]]
    <2> HIDE DEF taken
    <2> QED BY <1>5, <1>6, DebitTyped
  <1>8. debited \in [ProposalIds -> [Assets -> Nat]]
    BY DEF FramesTyped
  <1>9. /\ \A x \in Assets : debited'[p][x] = debited[p][x] + Spent(o, x)
        /\ \A k \in ProposalIds \ {p} : debited'[k] = debited[k]
    BY <1>2, <1>8
  <1> QED BY <1>1, <1>3, <1>4, <1>7, <1>9 DEF o

\* The frame an execution opens, and what it books for its proposal.
LEMMA BeginExecuteFrame ==
    ASSUME TypeOK, FramesTyped, NEW a \in Accounts, NEW p \in ProposalIds,
           BeginExecute(a, p)
    PROVE  LET o == proposals[p].outcome IN
           /\ debited' \in [ProposalIds -> [Assets -> Nat]]
           /\ \A x \in Assets :
                debited'[p][x] = debited[p][x] + (PaidOut(o, x) + o.calls[1][x])
           /\ \A k \in ProposalIds \ {p} :
                debited'[k] = debited[k] /\ proposals'[k] = proposals[k]
           /\ proposals[p].state = "passed"
           /\ proposals'[p].state = "executed" /\ proposals'[p].outcome = o
           /\ \E f \in Executing :
                /\ stack' = Append(stack, f)
                /\ f.call = "execute" /\ f.proposal = p /\ f.made = 1
                /\ f.allowance = o.calls[1]
  <1> DEFINE o == proposals[p].outcome
             taken == PaidOutAnd(o, o.calls[1])
             prj == [owner |-> owner', memberCount |-> memberCount',
                     stakeTotal |-> stakeTotal']
             f == [call |-> "execute", caller |-> a, proposal |-> p, made |-> 1,
                   allowance |-> o.calls[1], prj |-> prj]
  <1>1. /\ o.calls[1] \in [Assets -> Nat]
        /\ \A x \in Assets : PaidOut(o, x) \in Nat
    BY BeginExecuteTaken
  <1>2. /\ debited' = [debited EXCEPT ![p] = [x \in Assets |-> @[x] + taken[x]]]
        /\ stack' = Append(stack, f)
    BY DEF BeginExecute, Debit, Open
  <1>3. /\ proposals' = [proposals EXCEPT ![p].state = "executed"]
        /\ proposals[p].state = "passed" /\ proposals \in [ProposalIds -> Proposal]
    BY DEF BeginExecute, StateDuringCalls, Executable, TypeOK
  <1>4. /\ proposals'[p].state = "executed" /\ proposals'[p].outcome = o
        /\ \A k \in ProposalIds \ {p} : proposals'[k] = proposals[k]
    BY <1>3 DEF Proposal
  <1>5. /\ owner' \in Accounts \cup {NoAccount} /\ memberCount' \in Nat
        /\ stakeTotal' \in Nat
    BY BeginExecuteTyped DEF TypeOK, ProjectTypeOK
  <1> HIDE DEF o
  <1>6. f \in Executing
    BY <1>1, <1>5 DEF Executing
  <1>7. taken \in [Assets -> Nat] /\ \A x \in Assets : taken[x] = PaidOut(o, x) + o.calls[1][x]
    BY <1>1 DEF PaidOutAnd
  <1>8. debited \in [ProposalIds -> [Assets -> Nat]]
    BY DEF FramesTyped
  <1> HIDE DEF taken
  <1>9. debited' \in [ProposalIds -> [Assets -> Nat]]
    BY <1>2, <1>7, DebitTyped
  <1>10. /\ \A x \in Assets :
              debited'[p][x] = debited[p][x] + (PaidOut(o, x) + o.calls[1][x])
         /\ \A k \in ProposalIds \ {p} : debited'[k] = debited[k]
    BY <1>2, <1>7, <1>8
  <1>11. /\ stack' = Append(stack, f)
         /\ f.call = "execute" /\ f.proposal = p /\ f.made = 1
         /\ f.allowance = o.calls[1]
    BY <1>2
  <1> HIDE DEF f
  <1> QED BY <1>3, <1>4, <1>6, <1>9, <1>10, <1>11 DEF o

\* The frame a join opens, and what it keeps.
LEMMA BeginJoinFrame ==
    ASSUME NEW a \in Accounts, BeginJoin(a)
    PROVE  \E f \in Joining :
              /\ stack' = Append(stack, f)
              /\ f.call = "join" /\ f.caller = a
              /\ f.listOnly <=> cfg["whitelistOnly"] = 1
  <1> DEFINE f == [call |-> "join", caller |-> a, approved |-> Approved(a),
                   listOnly |-> cfg["whitelistOnly"] = 1]
  <1>1. stack' = Append(stack, f)
    BY DEF BeginJoin, Open
  <1>2. f \in Joining
    BY DEF Approved, Joining
  <1>3. f.call = "join" /\ f.caller = a
    OBVIOUS
  <1>4. f.listOnly = (cfg["whitelistOnly"] = 1)
    OBVIOUS
  <1> HIDE DEF f
  <1> QED BY <1>1, <1>2, <1>3, <1>4

LEMMA FramesStep ==
    ASSUME CallbackInv, [CallbackNext]_allVars
    PROVE  FramesTyped'
  <1>1. TypeOK /\ FramesTyped
    BY DEF CallbackInv
  <1>2. stack \in Seq(Frames) /\ debited \in [ProposalIds -> [Assets -> Nat]]
    BY <1>1 DEF FramesTyped, Frames
  <1> SUFFICES stack' \in Seq(Frames) /\ debited' \in [ProposalIds -> [Assets -> Nat]]
    BY DEF FramesTyped, Frames
  <1>3. CASE PlainEntry
    BY <1>2, <1>3 DEF PlainEntry, callVars
  <1>4. ASSUME NEW a \in Accounts, NEW p \in ProposalIds, ExecuteAtOnce(a, p),
               UNCHANGED callVars
        PROVE  stack' \in Seq(Frames) /\ debited' \in [ProposalIds -> [Assets -> Nat]]
    BY <1>1, <1>2, <1>4, ExecuteAtOnceTaken DEF callVars
  <1>5. ASSUME NEW a \in Accounts, BeginJoin(a)
        PROVE  stack' \in Seq(Frames) /\ debited' \in [ProposalIds -> [Assets -> Nat]]
    <2>1. PICK f \in Joining : stack' = Append(stack, f)
      BY <1>5, BeginJoinFrame
    <2>2. f \in Frames /\ debited' = debited
      BY <1>5, BeginJoinIsStep DEF Frames
    <2> QED BY <1>1, <1>2, <2>1, <2>2, FrameOpened
  <1>6. ASSUME NEW a \in Accounts, NEW p \in ProposalIds, BeginExecute(a, p)
        PROVE  stack' \in Seq(Frames) /\ debited' \in [ProposalIds -> [Assets -> Nat]]
    <2>1. /\ debited' \in [ProposalIds -> [Assets -> Nat]]
          /\ \E f \in Executing : stack' = Append(stack, f)
      BY <1>1, <1>6, BeginExecuteFrame
    <2> QED BY <1>1, <2>1, FrameOpened DEF Frames
  <1>7. ASSUME NEW d \in Deposits, FinishJoin(d)
        PROVE  stack' \in Seq(Frames) /\ debited' \in [ProposalIds -> [Assets -> Nat]]
    BY <1>1, <1>2, <1>7, FrameClosed DEF FinishJoin, Waiting
  <1>8. ASSUME NEW x \in Assets, NEW n \in 1 .. MaxHolding, DrawAllowance(x, n)
        PROVE  stack' \in Seq(Frames) /\ debited' \in [ProposalIds -> [Assets -> Nat]]
    <2> DEFINE f == [Top EXCEPT !.allowance[x] = @ - n]
    <2>1. ~Idle /\ f \in Frames /\ stack' = [stack EXCEPT ![Len(stack)] = f]
      BY <1>1, <1>8, DrawTaken DEF Frames
    <2>2. debited' = debited
      BY <1>8 DEF DrawAllowance
    <2> HIDE DEF f
    <2> QED BY <1>1, <1>2, <2>1, <2>2, FrameChanged
  <1>9. CASE NextCall
    <2> DEFINE c == proposals[Top.proposal].outcome.calls[Top.made + 1]
               f == [Top EXCEPT !.made = Top.made + 1, !.allowance = c]
    <2>1. /\ ~Idle /\ f \in Frames /\ stack' = [stack EXCEPT ![Len(stack)] = f]
          /\ Top.proposal \in ProposalIds /\ c \in [Assets -> Nat]
          /\ debited' = [debited EXCEPT ![Top.proposal] = [x \in Assets |-> @[x] + c[x]]]
      BY <1>1, <1>9, NextCallTaken DEF Frames
    <2> HIDE DEF c, f
    <2>2. debited' \in [ProposalIds -> [Assets -> Nat]]
      BY <1>1, <2>1, DebitTyped
    <2> QED BY <1>1, <2>1, <2>2, FrameChanged
  <1>10. CASE FinishExecute
    BY <1>1, <1>2, <1>10, FrameClosed, FinishExecuteIsStep DEF FinishExecute, Waiting
  <1>11. CASE Abort
    BY <1>11 DEF Abort, CallbackInv, SavedExact
  <1> QED
    BY <1>1, <1>3, <1>4, <1>5, <1>6, <1>7, <1>8, <1>9, <1>10, <1>11, StepCases

-----------------------------------------------------------------------------
(* The allowances stay held                                                *)

LEMMA HeldOpened ==
    ASSUME TypeOK, FramesTyped, AllowancesHeld, NEW frame \in Frames,
           stack' = Append(stack, frame),
           \A x \in Assets : unspent'[x] = unspent[x] + Drawable(frame, x)
    PROVE  AllowancesHeld'
  <1> SUFFICES ASSUME NEW x \in Assets
               PROVE  SumFunctionOnSet(DrawableOf(x)', DOMAIN stack') <= unspent'[x]
    BY DEF AllowancesHeld
  <1> DEFINE D == DOMAIN stack
             n == Len(stack) + 1
             f == DrawableOf(x)
             e == [i \in DOMAIN stack' |-> Drawable(stack'[i], x)]
  <1>1. e = DrawableOf(x)'
    BY DEF DrawableOf, Drawable
  <1>2. /\ DOMAIN stack' = D \cup {n} /\ n \notin D /\ stack'[n] = frame
        /\ \A i \in D : stack'[i] = stack[i]
    BY FrameOpened
  <1>3. IsFiniteSet(D) /\ \A i \in D : f[i] = Drawable(stack[i], x) /\ f[i] \in Nat
    BY DrawableTyped
  <1>4. Drawable(frame, x) \in Nat
    BY DEF Drawable, Frames, Joining, Executing
  <1>5. e[n] = Drawable(frame, x) /\ \A i \in D : e[i] = f[i]
    BY <1>2, <1>3
  <1>6. SumFunctionOnSet(f, D) <= unspent[x] /\ unspent[x] \in Nat
    BY DEF AllowancesHeld, TypeOK, ProjectTypeOK
  <1>7. SumFunctionOnSet(f, D) \in Nat
    BY DrawableTyped
  <1>8. unspent'[x] = unspent[x] + Drawable(frame, x)
    OBVIOUS
  <1> HIDE DEF D, n, f, e
  <1>9. SumFunctionOnSet(e, D \cup {n}) = SumFunctionOnSet(e, D) + e[n]
    BY <1>2, <1>3, <1>4, <1>5, SumWith
  <1>10. SumFunctionOnSet(e, D) = SumFunctionOnSet(f, D)
    BY <1>3, <1>5, SumOfEqual
  <1> QED BY <1>1, <1>2, <1>4, <1>5, <1>6, <1>7, <1>8, <1>9, <1>10

LEMMA HeldClosed ==
    ASSUME TypeOK, FramesTyped, AllowancesHeld, ~Idle, Close, unspent' = unspent
    PROVE  AllowancesHeld'
  <1> SUFFICES ASSUME NEW x \in Assets
               PROVE  SumFunctionOnSet(DrawableOf(x)', DOMAIN stack') <= unspent'[x]
    BY DEF AllowancesHeld
  <1> DEFINE D == DOMAIN stack
             E == DOMAIN stack'
             f == DrawableOf(x)
             e == [i \in DOMAIN stack' |-> Drawable(stack'[i], x)]
  <1>1. e = DrawableOf(x)'
    BY DEF DrawableOf, Drawable
  <1>2. E \subseteq D /\ \A i \in E : stack'[i] = stack[i]
    BY FrameClosed
  <1>3. IsFiniteSet(D) /\ \A i \in D : f[i] = Drawable(stack[i], x) /\ f[i] \in Nat
    BY DrawableTyped
  <1>4. \A i \in E : e[i] = f[i]
    BY <1>2, <1>3
  <1>5. SumFunctionOnSet(f, D) <= unspent[x] /\ unspent[x] \in Nat
    BY DEF AllowancesHeld, TypeOK, ProjectTypeOK
  <1> HIDE DEF D, E, f, e
  <1>6. IsFiniteSet(E)
    BY <1>2, <1>3, FS_Subset
  <1>7. SumFunctionOnSet(e, E) = SumFunctionOnSet(f, E)
    BY <1>4, <1>6, SumOfEqual
  <1>8. SumFunctionOnSet(f, E) <= SumFunctionOnSet(f, D)
    BY <1>2, <1>3, SumOfSubset
  <1>9. SumFunctionOnSet(f, E) \in Nat /\ SumFunctionOnSet(f, D) \in Nat
    BY <1>2, <1>3, <1>6, SumIsNat
  <1> QED BY <1>1, <1>5, <1>7, <1>8, <1>9 DEF E

LEMMA HeldChanged ==
    ASSUME TypeOK, TypeOK', FramesTyped, AllowancesHeld, ~Idle, NEW frame \in Frames,
           stack' = [stack EXCEPT ![Len(stack)] = frame],
           \A x \in Assets :
               unspent'[x] + Drawable(Top, x) >= unspent[x] + Drawable(frame, x)
    PROVE  AllowancesHeld'
  <1> SUFFICES ASSUME NEW x \in Assets
               PROVE  SumFunctionOnSet(DrawableOf(x)', DOMAIN stack') <= unspent'[x]
    BY DEF AllowancesHeld
  <1> DEFINE D == DOMAIN stack
             n == Len(stack)
             f == DrawableOf(x)
             e == [i \in DOMAIN stack' |-> Drawable(stack'[i], x)]
  <1>1. e = DrawableOf(x)'
    BY DEF DrawableOf, Drawable
  <1>2. /\ DOMAIN stack' = D /\ stack'[n] = frame
        /\ \A i \in D \ {n} : stack'[i] = stack[i]
    BY FrameChanged
  <1>3. n \in D /\ Top = stack[n]
    BY TopFrame
  <1>4. IsFiniteSet(D) /\ \A i \in D : f[i] = Drawable(stack[i], x) /\ f[i] \in Nat
    BY DrawableTyped
  <1>5. Drawable(frame, x) \in Nat
    BY DEF Drawable, Frames, Joining, Executing
  <1>6. /\ f[n] = Drawable(Top, x) /\ e[n] = Drawable(frame, x)
        /\ \A i \in D \ {n} : e[i] = f[i]
    BY <1>2, <1>3, <1>4
  <1>7. /\ SumFunctionOnSet(f, D) <= unspent[x] /\ unspent[x] \in Nat
        /\ unspent'[x] \in Nat
    BY DEF AllowancesHeld, TypeOK, ProjectTypeOK
  <1>8. unspent'[x] + Drawable(Top, x) >= unspent[x] + Drawable(frame, x)
    OBVIOUS
  <1>9. SumFunctionOnSet(f, D) \in Nat
    BY DrawableTyped
  <1> HIDE DEF D, n, f, e
  <1>10. \A i \in D : e[i] \in Nat
    BY <1>4, <1>5, <1>6
  <1>11. SumFunctionOnSet(e, D) = SumFunctionOnSet(f, D) - f[n] + e[n]
    BY <1>3, <1>4, <1>6, <1>10, SumChangedAt
  <1>12. f[n] \in Nat /\ e[n] \in Nat
    BY <1>3, <1>4, <1>10
  <1> QED BY <1>1, <1>2, <1>6, <1>7, <1>8, <1>9, <1>11, <1>12

LEMMA HeldSame ==
    ASSUME TypeOK, TypeOK', FramesTyped, AllowancesHeld, stack' = stack,
           \A x \in Assets : unspent'[x] >= unspent[x]
    PROVE  AllowancesHeld'
  <1> SUFFICES ASSUME NEW x \in Assets
               PROVE  SumFunctionOnSet(DrawableOf(x)', DOMAIN stack') <= unspent'[x]
    BY DEF AllowancesHeld
  <1>1. DrawableOf(x)' = DrawableOf(x)
    BY DEF DrawableOf, Drawable
  <1>2. SumFunctionOnSet(DrawableOf(x), DOMAIN stack) <= unspent[x]
    BY DEF AllowancesHeld
  <1>3. unspent[x] \in Nat /\ unspent'[x] \in Nat
    BY DEF TypeOK, ProjectTypeOK
  <1>4. SumFunctionOnSet(DrawableOf(x), DOMAIN stack) \in Nat
    BY DrawableTyped
  <1> QED BY <1>1, <1>2, <1>3, <1>4

\* Only what a called contract draws takes an allowance away.
LEMMA UnspentGrows ==
    ASSUME TypeOK, [Next]_vars
    PROVE  \A x \in Assets : unspent'[x] >= unspent[x]
  <1>1. \A x \in Assets : unspent[x] \in Nat
    BY BalancesTyped DEF TypeOK
  <1>2. CASE unspent' = unspent
    BY <1>1, <1>2
  <1>3. ASSUME NEW a \in Accounts, NEW p \in ProposalIds,
               NEW drawn \in Draws(proposals[p].outcome), ExecuteProposal(a, p, drawn)
        PROVE  \A x \in Assets : unspent'[x] >= unspent[x]
    <2> TAKE x \in Assets
    <2>1. Allowed(proposals[p].outcome, x) \in Nat
      BY OutcomeOfProposal, SpentTyped
    <2>2. /\ unspent'[x] = unspent[x] + Allowed(proposals[p].outcome, x) - drawn[x]
          /\ drawn[x] \in 0 .. Allowed(proposals[p].outcome, x)
      BY <1>3 DEF ExecuteProposal
    <2> QED BY <1>1, <2>1, <2>2
  <1>4. CASE GovernanceNext
    BY <1>2, <1>3, <1>4
    DEF GovernanceNext, CreateProposal, VoteProposal, CancelProposal, TallyProposal, VotingOver,
        TakesVotes, fundVars
  <1>5. CASE ProjectNext
    BY <1>2, <1>5
    DEF ProjectNext, JoinProject, RequestLeave, FinishLeave, RequestUnstake, FinishUnstake,
        AddFundsToStake, WhitelistMembers, RemoveWhitelistedMembers, TransferProjectOwnership,
        EmergencyPauseImmediate, AddFundsToTreasury, Tick, LeaveAllowed, UnstakeAllowed, fundVars
  <1>6. CASE UNCHANGED vars
    BY <1>2, <1>6 DEF vars, projectVars, fundVars
  <1> QED BY <1>4, <1>5, <1>6 DEF Next

LEMMA AllowancesStep ==
    ASSUME CallbackInv, [CallbackNext]_allVars
    PROVE  AllowancesHeld'
  <1>1. TypeOK /\ FramesTyped /\ AllowancesHeld /\ TypeOK'
    BY TypeKept DEF CallbackInv
  <1>2. \A x \in Assets : unspent[x] \in Nat
    BY <1>1, BalancesTyped DEF TypeOK
  <1>3. CASE PlainEntry
    BY <1>1, <1>3, UnspentGrows, HeldSame DEF PlainEntry, callVars
  <1>4. ASSUME NEW a \in Accounts, NEW p \in ProposalIds, ExecuteAtOnce(a, p),
               UNCHANGED callVars
        PROVE  AllowancesHeld'
    BY <1>1, <1>4, ExecuteAtOnceIsStep, UnspentGrows, HeldSame DEF callVars
  <1>5. ASSUME NEW a \in Accounts, BeginJoin(a)
        PROVE  AllowancesHeld'
    <2>1. PICK f \in Joining : stack' = Append(stack, f)
      BY <1>5, BeginJoinFrame
    <2>2. \A x \in Assets : unspent'[x] = unspent[x] + Drawable(f, x)
      <3>1. f.call = "join" /\ unspent' = unspent
        BY <1>5 DEF Joining, BeginJoin, fundVars
      <3> QED BY <1>2, <3>1 DEF Drawable
    <2> QED BY <1>1, <2>1, <2>2, HeldOpened DEF Frames
  <1>6. ASSUME NEW a \in Accounts, NEW p \in ProposalIds, BeginExecute(a, p)
        PROVE  AllowancesHeld'
    <2>1. PICK f \in Executing :
              /\ stack' = Append(stack, f)
              /\ f.call = "execute" /\ f.allowance = proposals[p].outcome.calls[1]
      BY <1>1, <1>6, BeginExecuteFrame
    <2>2. \A x \in Assets : unspent'[x] = unspent[x] + Drawable(f, x)
      BY <1>1, <1>6, <2>1, BeginExecuteTaken DEF Drawable
    <2> QED BY <1>1, <2>1, <2>2, HeldOpened DEF Frames
  <1>7. ASSUME NEW d \in Deposits, FinishJoin(d)
        PROVE  AllowancesHeld'
    BY <1>1, <1>7, HeldClosed DEF FinishJoin, Waiting
  <1>8. ASSUME NEW y \in Assets, NEW n \in 1 .. MaxHolding, DrawAllowance(y, n)
        PROVE  AllowancesHeld'
    <2> DEFINE f == [Top EXCEPT !.allowance[y] = @ - n]
    <2>1. /\ ~Idle /\ f \in Executing /\ Top \in Executing
          /\ stack' = [stack EXCEPT ![Len(stack)] = f]
          /\ unspent' = [unspent EXCEPT ![y] = @ - n] /\ n \in Nat
      BY <1>1, <1>8, DrawTaken
    <2>2. f \in Frames
      BY <2>1 DEF Frames
    <2>3. ASSUME NEW x \in Assets
          PROVE  unspent'[x] + Drawable(Top, x) >= unspent[x] + Drawable(f, x)
      <3>1. /\ Drawable(Top, x) = Top.allowance[x]
            /\ Drawable(f, x) = IF x = y THEN Top.allowance[x] - n ELSE Top.allowance[x]
            /\ Top.allowance[x] \in Nat
        BY <2>1 DEF Drawable, Executing
      <3>2. unspent'[x] = IF x = y THEN unspent[x] - n ELSE unspent[x]
        BY <1>1, <2>1 DEF TypeOK, ProjectTypeOK
      <3> QED BY <1>2, <2>1, <3>1, <3>2
    <2> HIDE DEF f
    <2> QED BY <1>1, <2>1, <2>2, <2>3, HeldChanged
  <1>9. CASE NextCall
    <2> DEFINE c == proposals[Top.proposal].outcome.calls[Top.made + 1]
               f == [Top EXCEPT !.made = Top.made + 1, !.allowance = c]
    <2>1. /\ ~Idle /\ f \in Executing /\ Top \in Executing
          /\ stack' = [stack EXCEPT ![Len(stack)] = f]
          /\ \A x \in Assets : c[x] \in Nat /\ unspent'[x] = unspent[x] + c[x]
      BY <1>1, <1>9, NextCallTaken
    <2>2. f \in Frames
      BY <2>1 DEF Frames
    <2>3. ASSUME NEW x \in Assets
          PROVE  unspent'[x] + Drawable(Top, x) >= unspent[x] + Drawable(f, x)
      <3>1. /\ Drawable(Top, x) \in Nat
            /\ Drawable(f, x) = c[x]
        BY <2>1 DEF Drawable, Executing
      <3> HIDE DEF c, f
      <3> QED BY <1>2, <2>1, <3>1
    <2> HIDE DEF c, f
    <2> QED BY <1>1, <2>1, <2>2, <2>3, HeldChanged
  <1>10. CASE FinishExecute
    BY <1>1, <1>10, HeldClosed DEF FinishExecute, Waiting, fundVars
  <1>11. CASE Abort
    <2>1. stack' = <<>>
      BY <1>11 DEF Abort
    <2>2. \A x \in Assets : SumFunctionOnSet(DrawableOf(x)', DOMAIN stack') = 0
      BY <2>1, SumOfNone
    <2>3. \A x \in Assets : unspent'[x] \in Nat
      BY <1>1 DEF TypeOK, ProjectTypeOK
    <2> QED BY <2>2, <2>3 DEF AllowancesHeld
  <1> QED
    BY <1>1, <1>3, <1>4, <1>5, <1>6, <1>7, <1>8, <1>9, <1>10, <1>11, StepCases

-----------------------------------------------------------------------------
(* What a proposal takes from the treasury                                 *)

\* A proposal whose executions, record and bookings a step leaves alone.
Untouched(p) ==
    /\ OpenExecutions(p)' = OpenExecutions(p)
    /\ \A i \in OpenExecutions(p) : stack'[i].made = stack[i].made
    /\ debited'[p] = debited[p]
    /\ proposals'[p].state = "executed" <=> proposals[p].state = "executed"
    /\ proposals[p].state = "executed" => proposals'[p].outcome = proposals[p].outcome

LEMMA UntouchedExact ==
    ASSUME NEW p \in ProposalIds, DebitExact(p), Untouched(p)
    PROVE  DebitExact(p)'
  <1>1. \A x \in Assets : Taken(proposals'[p], x) = Taken(proposals[p], x)
    BY DEF Untouched, Taken
  <1>2. CASE OpenExecutions(p) = {}
    BY <1>1, <1>2 DEF Untouched, DebitExact, Taken
  <1>3. ASSUME NEW i \in OpenExecutions(p)
        PROVE  DebitExact(p)'
    <2>1. OpenExecutions(p) = {i} /\ ExecutionExact(p, i)
      BY <1>3 DEF DebitExact, ExecutionExact
    <2>2. proposals'[p].state = "executed" /\ proposals'[p].outcome = proposals[p].outcome
          /\ stack'[i].made = stack[i].made /\ OpenExecutions(p)' = {i}
      BY <2>1 DEF Untouched, ExecutionExact
    <2>3. ExecutionExact(p, i)'
      BY <2>1, <2>2 DEF Untouched, ExecutionExact
    <2> QED BY <2>2, <2>3 DEF DebitExact
  <1> QED BY <1>2, <1>3

\* Before it is executed a proposal has no execution open and has taken nothing.
LEMMA NotExecutedYet ==
    ASSUME NEW p \in ProposalIds, DebitExact(p), proposals[p].state # "executed"
    PROVE  OpenExecutions(p) = {} /\ \A x \in Assets : debited[p][x] = 0
  BY DEF DebitExact, ExecutionExact, Taken

\* The executions that are open after a frame is opened, closed or changed.
LEMMA OpenedExecutions ==
    ASSUME FramesTyped, NEW frame \in Frames, stack' = Append(stack, frame), NEW p
    PROVE  /\ OpenExecutions(p)' =
                IF frame.call = "execute" /\ frame.proposal = p
                THEN OpenExecutions(p) \cup {Len(stack) + 1} ELSE OpenExecutions(p)
           /\ \A i \in OpenExecutions(p) : stack'[i].made = stack[i].made
  <1>1. /\ DOMAIN stack' = DOMAIN stack \cup {Len(stack) + 1}
        /\ Len(stack) + 1 \notin DOMAIN stack
        /\ stack'[Len(stack) + 1] = frame
        /\ \A i \in DOMAIN stack : stack'[i] = stack[i]
    BY FrameOpened
  <1>2. OpenExecutions(p)' = {i \in DOMAIN stack' : stack'[i].call = "execute"
                                                      /\ stack'[i].proposal = p}
    BY DEF OpenExecutions
  <1> QED BY <1>1, <1>2 DEF OpenExecutions

LEMMA ClosedExecutions ==
    ASSUME FramesTyped, ~Idle, Close, NEW p
    PROVE  /\ OpenExecutions(p)' = OpenExecutions(p) \ {Len(stack)}
           /\ \A i \in OpenExecutions(p)' : stack'[i].made = stack[i].made
  <1>1. /\ DOMAIN stack' = DOMAIN stack \ {Len(stack)}
        /\ \A i \in DOMAIN stack' : stack'[i] = stack[i]
    BY FrameClosed
  <1>2. OpenExecutions(p)' = {i \in DOMAIN stack' : stack'[i].call = "execute"
                                                      /\ stack'[i].proposal = p}
    BY DEF OpenExecutions
  <1> QED BY <1>1, <1>2 DEF OpenExecutions

LEMMA ChangedExecutions ==
    ASSUME FramesTyped, ~Idle, NEW frame \in Frames,
           stack' = [stack EXCEPT ![Len(stack)] = frame],
           frame.call = "execute", Top.call = "execute", frame.proposal = Top.proposal,
           NEW p
    PROVE  /\ OpenExecutions(p)' = OpenExecutions(p)
           /\ \A i \in OpenExecutions(p) \ {Len(stack)} : stack'[i].made = stack[i].made
  <1>1. /\ DOMAIN stack' = DOMAIN stack
        /\ stack'[Len(stack)] = frame /\ Top = stack[Len(stack)]
        /\ \A i \in DOMAIN stack \ {Len(stack)} : stack'[i] = stack[i]
    BY FrameChanged, TopFrame
  <1>2. OpenExecutions(p)' = {i \in DOMAIN stack' : stack'[i].call = "execute"
                                                      /\ stack'[i].proposal = p}
    BY DEF OpenExecutions
  <1> QED BY <1>1, <1>2 DEF OpenExecutions

\* The allowances of the calls made so far.
LEMMA AllowedFirstFacts ==
    ASSUME NEW o, IsOutcome(o), NEW x \in Assets
    PROVE  /\ 1 \in 1 .. Len(o.calls) => AllowedFirst(o, 1, x) = o.calls[1][x]
           /\ \A n \in 1 .. Len(o.calls) :
                /\ AllowedFirst(o, n, x) \in Nat /\ AllowedFirst(o, n, x) <= Allowed(o, x)
                /\ n + 1 \in 1 .. Len(o.calls) =>
                     AllowedFirst(o, n + 1, x) = AllowedFirst(o, n, x) + o.calls[n + 1][x]
           /\ AllowedFirst(o, Len(o.calls), x) = Allowed(o, x)
  <1> DEFINE c == o.calls
             f == [i \in DOMAIN c |-> c[i][x]]
  <1>1. c \in Seq([Assets -> Nat])
    BY DEF IsOutcome, AreCalls
  <1>2. \A n : AllowedFirst(o, n, x) = SumFunctionOnSet(f, 1 .. n)
    BY DEF AllowedFirst
  <1>3. Allowed(o, x) = SumFunctionOnSet(f, DOMAIN c)
    BY DEF Allowed
  <1> HIDE DEF c
  <1>4. DOMAIN c = 1 .. Len(c) /\ Len(c) \in Nat
    BY <1>1
  <1>5. \A i \in DOMAIN c : f[i] = c[i][x] /\ f[i] \in Nat
    <2> SUFFICES ASSUME NEW i \in DOMAIN c PROVE c[i][x] \in Nat
      OBVIOUS
    <2>1. c[i] \in [Assets -> Nat]
      BY <1>1
    <2> QED BY <2>1
  <1>6. IsFiniteSet(DOMAIN c)
    BY <1>4, FS_Interval
  <1> HIDE DEF f
  <1>7. ASSUME 1 \in 1 .. Len(c)
        PROVE  SumFunctionOnSet(f, 1 .. 1) = c[1][x]
    <2>1. 1 .. 1 = {1} /\ f[1] = c[1][x] /\ f[1] \in Nat
      BY <1>4, <1>5, <1>7
    <2> QED BY <2>1, SumOfOne
  <1>8. ASSUME NEW n \in 1 .. Len(c)
        PROVE  /\ SumFunctionOnSet(f, 1 .. n) \in Nat
               /\ SumFunctionOnSet(f, 1 .. n) <= SumFunctionOnSet(f, DOMAIN c)
               /\ n + 1 \in 1 .. Len(c) =>
                    SumFunctionOnSet(f, 1 .. (n + 1)) = SumFunctionOnSet(f, 1 .. n) + c[n + 1][x]
    <2>1. 1 .. n \subseteq DOMAIN c /\ n \in Nat
      BY <1>4
    <2>2. IsFiniteSet(1 .. n)
      BY <1>6, <2>1, FS_Subset
    <2>3. SumFunctionOnSet(f, 1 .. n) \in Nat
      BY <1>5, <2>1, <2>2, SumIsNat
    <2>4. SumFunctionOnSet(f, 1 .. n) <= SumFunctionOnSet(f, DOMAIN c)
      BY <1>5, <1>6, <2>1, SumOfSubset
    <2>5. ASSUME n + 1 \in 1 .. Len(c)
          PROVE  SumFunctionOnSet(f, 1 .. (n + 1)) = SumFunctionOnSet(f, 1 .. n) + c[n + 1][x]
      <3>1. 1 .. (n + 1) = (1 .. n) \cup {n + 1} /\ n + 1 \notin 1 .. n
        BY <2>1
      <3>2. f[n + 1] = c[n + 1][x] /\ \A i \in (1 .. n) \cup {n + 1} : f[i] \in Nat
        BY <1>4, <1>5, <2>1, <2>5
      <3> DEFINE S == 1 .. n
                 m == n + 1
      <3>3. IsFiniteSet(S) /\ m \notin S /\ \A i \in S \cup {m} : f[i] \in Nat
        BY <2>2, <3>1, <3>2
      <3>4. SumFunctionOnSet(f, S \cup {m}) = SumFunctionOnSet(f, S) + f[m]
        <4> HIDE DEF S, m
        <4> QED BY <3>3, SumWith
      <3> QED BY <3>1, <3>2, <3>4
    <2> QED BY <2>3, <2>4, <2>5
  <1>9. SumFunctionOnSet(f, 1 .. Len(c)) = SumFunctionOnSet(f, DOMAIN c)
    BY <1>4
  <1> QED BY <1>2, <1>3, <1>7, <1>8, <1>9 DEF c

LEMMA BeginExecuteExact ==
    ASSUME TypeOK, FramesTyped, DebitsExact, NEW a \in Accounts, NEW k \in ProposalIds,
           BeginExecute(a, k), NEW p \in ProposalIds
    PROVE  DebitExact(p)'
  <1> DEFINE o == proposals[k].outcome
  <1>1. PICK f \in Executing :
            /\ stack' = Append(stack, f)
            /\ f.call = "execute" /\ f.proposal = k /\ f.made = 1
            /\ f.allowance = o.calls[1]
    BY BeginExecuteFrame
  <1>2. /\ \A x \in Assets :
             debited'[k][x] = debited[k][x] + (PaidOut(o, x) + o.calls[1][x])
        /\ \A j \in ProposalIds \ {k} :
             debited'[j] = debited[j] /\ proposals'[j] = proposals[j]
        /\ proposals[k].state = "passed"
        /\ proposals'[k].state = "executed" /\ proposals'[k].outcome = o
    BY BeginExecuteFrame
  <1>3. f \in Frames
    BY DEF Frames
  <1>4. CASE p # k
    <2>1. OpenExecutions(p)' = OpenExecutions(p)
          /\ \A i \in OpenExecutions(p) : stack'[i].made = stack[i].made
      BY <1>1, <1>3, <1>4, OpenedExecutions
    <2>2. Untouched(p)
      BY <1>2, <1>4, <2>1 DEF Untouched
    <2> QED BY <2>2, UntouchedExact DEF DebitsExact
  <1>5. CASE p = k
    <2>0. PICK n : n = Len(stack) + 1
      OBVIOUS
    <2>1. OpenExecutions(k) = {} /\ \A x \in Assets : debited[k][x] = 0
      BY <1>2, NotExecutedYet DEF DebitsExact
    <2>2. OpenExecutions(k)' = {n}
      BY <1>1, <1>3, <2>0, <2>1, OpenedExecutions
    <2>3. stack'[n] = f
      BY <1>1, <1>3, <2>0, FrameOpened
    <2>4. IsOutcome(o) /\ 1 \in 1 .. Len(o.calls)
      BY BeginExecuteTaken
    <2>5. ASSUME NEW x \in Assets
          PROVE  debited'[k][x] = PaidOut(o, x) + AllowedFirst(o, 1, x)
      <3>1. AllowedFirst(o, 1, x) = o.calls[1][x]
        BY <2>4, AllowedFirstFacts
      <3>2. PaidOut(o, x) \in Nat /\ o.calls[1][x] \in Nat
        BY BeginExecuteTaken
      <3> QED BY <1>2, <2>1, <3>1, <3>2
    <2>6. stack'[n].made = 1
      BY <1>1, <2>3
    <2> HIDE DEF o
    <2>7. ExecutionExact(k, n)'
      BY <1>2, <2>2, <2>4, <2>5, <2>6 DEF ExecutionExact
    <2> QED BY <1>5, <2>2, <2>7 DEF DebitExact
  <1> QED BY <1>4, <1>5

LEMMA ExecuteAtOnceExact ==
    ASSUME TypeOK, FramesTyped, DebitsExact, NEW a \in Accounts, NEW k \in ProposalIds,
           ExecuteAtOnce(a, k), UNCHANGED callVars, NEW p \in ProposalIds
    PROVE  DebitExact(p)'
  <1> DEFINE o == proposals[k].outcome
  <1>1. /\ \A x \in Assets : debited'[k][x] = debited[k][x] + Spent(o, x)
        /\ \A j \in ProposalIds \ {k} :
             debited'[j] = debited[j] /\ proposals'[j] = proposals[j]
        /\ proposals[k].state = "passed"
        /\ proposals'[k].state = "executed" /\ proposals'[k].outcome = o
        /\ \A x \in Assets : Spent(o, x) \in Nat
    BY ExecuteAtOnceTaken
  <1>2. stack' = stack /\ OpenExecutions(p)' = OpenExecutions(p)
    BY DEF callVars, OpenExecutions
  <1>3. CASE p # k
    <2>1. Untouched(p)
      BY <1>1, <1>2, <1>3 DEF Untouched
    <2> QED BY <2>1, UntouchedExact DEF DebitsExact
  <1>4. CASE p = k
    <2>1. OpenExecutions(k) = {} /\ \A x \in Assets : debited[k][x] = 0
      BY <1>1, NotExecutedYet DEF DebitsExact
    <2>2. \A x \in Assets : debited'[k][x] = Spent(o, x)
      BY <1>1, <2>1
    <2>3. OpenExecutions(k)' = {}
      BY <1>2, <1>4, <2>1
    <2> HIDE DEF o
    <2>4. \A x \in Assets : Taken(proposals'[k], x) = Spent(o, x)
      BY <1>1 DEF Taken
    <2> QED BY <1>4, <2>2, <2>3, <2>4 DEF DebitExact, Taken
  <1> QED BY <1>3, <1>4

LEMMA NextCallExact ==
    ASSUME TypeOK, FramesTyped, DebitsExact, NextCall, NEW p \in ProposalIds
    PROVE  DebitExact(p)'
  <1>1. PICK k \in ProposalIds : k = Top.proposal
    BY NextCallTaken
  <1>2. PICK n \in DOMAIN stack : n = Len(stack)
    BY NextCallTaken, TopFrame
  <1>3. PICK i \in Nat : i = Top.made + 1 /\ Top.made \in Nat
    BY NextCallTaken DEF Executing
  <1> DEFINE o == proposals[k].outcome
             c == o.calls[i]
             f == [Top EXCEPT !.made = i, !.allowance = c]
  <1>4. /\ ~Idle /\ Top \in Executing /\ f \in Executing
        /\ i \in 1 .. Len(o.calls)
        /\ \A x \in Assets : c[x] \in Nat
        /\ debited' = [debited EXCEPT ![k] = [x \in Assets |-> @[x] + c[x]]]
        /\ stack' = [stack EXCEPT ![Len(stack)] = f]
        /\ proposals' = proposals
    BY <1>1, <1>3, NextCallTaken
  <1>5. /\ Top = stack[n] /\ Top.call = "execute" /\ f.call = "execute"
        /\ f.proposal = Top.proposal /\ f.made = i
    BY <1>2, <1>4, TopFrame DEF Executing
  <1>6. f \in Frames /\ IsOutcome(o)
    BY <1>4, OutcomeOfProposal DEF Frames
  <1> HIDE DEF c, f
  <1>7. /\ OpenExecutions(p)' = OpenExecutions(p)
        /\ \A j \in OpenExecutions(p) \ {n} : stack'[j].made = stack[j].made
    BY <1>2, <1>4, <1>5, <1>6, ChangedExecutions
  <1>8. stack'[n].made = i
    BY <1>2, <1>4, <1>5, <1>6, FrameChanged
  <1>9. debited \in [ProposalIds -> [Assets -> Nat]]
    BY DEF FramesTyped
  <1>10. CASE p # k
    <2>1. n \notin OpenExecutions(p)
      BY <1>1, <1>5, <1>10 DEF OpenExecutions
    <2>2. debited'[p] = debited[p]
      BY <1>4, <1>9, <1>10
    <2>3. Untouched(p)
      BY <1>4, <1>7, <2>1, <2>2 DEF Untouched
    <2> QED BY <2>3, UntouchedExact DEF DebitsExact
  <1>11. CASE p = k
    <2>1. n \in OpenExecutions(k)
      BY <1>1, <1>5 DEF OpenExecutions
    <2>2. ExecutionExact(k, n)
      BY <2>1 DEF DebitsExact, DebitExact
    <2>3. OpenExecutions(k)' = {n}
      BY <1>7, <1>11, <2>2 DEF ExecutionExact
    <2>4. ASSUME NEW x \in Assets
          PROVE  debited'[k][x] = PaidOut(o, x) + AllowedFirst(o, i, x)
      <3> DEFINE m == stack[n].made
      <3>1. /\ m \in 1 .. Len(o.calls)
            /\ debited[k][x] = PaidOut(o, x) + AllowedFirst(o, m, x)
        BY <2>2 DEF ExecutionExact
      <3>2. i = m + 1
        BY <1>3, <1>5
      <3>3. /\ AllowedFirst(o, m, x) \in Nat
            /\ AllowedFirst(o, i, x) = AllowedFirst(o, m, x) + c[x]
        <4> HIDE DEF m, o
        <4> QED BY <1>4, <1>6, <3>1, <3>2, AllowedFirstFacts DEF c
      <3>4. debited'[k][x] = debited[k][x] + c[x]
        BY <1>4, <1>9
      <3>5. PaidOut(o, x) \in Nat /\ c[x] \in Nat
        BY <1>4, <1>6, SpentTyped
      <3> HIDE DEF o, m
      <3> QED BY <3>1, <3>3, <3>4, <3>5
    <2>5. proposals'[k].state = "executed" /\ proposals'[k].outcome = o
      BY <1>4, <2>2 DEF ExecutionExact
    <2> HIDE DEF o
    <2>6. ExecutionExact(k, n)'
      BY <1>4, <1>8, <2>3, <2>4, <2>5 DEF ExecutionExact
    <2> QED BY <1>11, <2>3, <2>6 DEF DebitExact
  <1> QED BY <1>10, <1>11

LEMMA FinishExecuteExact ==
    ASSUME TypeOK, FramesTyped, DebitsExact, FinishExecute, NEW p \in ProposalIds
    PROVE  DebitExact(p)'
  <1>1. /\ ~Idle /\ Close /\ Top \in Executing /\ Top.call = "execute"
        /\ Top = stack[Len(stack)] /\ Len(stack) \in DOMAIN stack
    BY TopFrame DEF FinishExecute, Waiting
  <1>2. PICK n \in DOMAIN stack : n = Len(stack)
    BY <1>1
  <1>3. /\ OpenExecutions(p)' = OpenExecutions(p) \ {n}
        /\ \A i \in OpenExecutions(p)' : stack'[i].made = stack[i].made
    BY <1>1, <1>2, ClosedExecutions
  <1>4. proposals' = proposals /\ debited' = debited
    BY FinishExecuteIsStep DEF vars, governanceVars
  <1>5. CASE n \notin OpenExecutions(p)
    <2>1. Untouched(p)
      BY <1>3, <1>4, <1>5 DEF Untouched
    <2> QED BY <2>1, UntouchedExact DEF DebitsExact
  <1>6. CASE n \in OpenExecutions(p)
    <2> DEFINE o == proposals[p].outcome
    <2>1. ExecutionExact(p, n)
      BY <1>6 DEF DebitsExact, DebitExact
    <2>2. Top.proposal = p
      BY <1>1, <1>2, <1>6 DEF OpenExecutions
    <2>3. stack[n].made = Len(o.calls)
      BY <1>1, <1>2, <2>2 DEF FinishExecute
    <2>4. ASSUME NEW x \in Assets
          PROVE  debited[p][x] = Spent(o, x)
      <3>1. debited[p][x] = PaidOut(o, x) + AllowedFirst(o, Len(o.calls), x)
        BY <2>1, <2>3 DEF ExecutionExact
      <3>2. IsOutcome(o)
        BY OutcomeOfProposal
      <3> HIDE DEF o
      <3> QED BY <3>1, <3>2, AllowedFirstFacts DEF Spent
    <2>5. OpenExecutions(p)' = {} /\ proposals[p].state = "executed"
      BY <1>3, <2>1 DEF ExecutionExact
    <2> QED BY <1>4, <2>4, <2>5 DEF DebitExact, Taken
  <1> QED BY <1>5, <1>6

LEMMA AbortExact ==
    ASSUME SavedExact, Abort, NEW p \in ProposalIds
    PROVE  DebitExact(p)'
  <1>1. OpenExecutions(p)' = {}
    BY DEF Abort, OpenExecutions
  <1>2. \A x \in Assets : debited'[p][x] = Taken(proposals'[p], x)
    BY DEF SavedExact, Abort, Taken
  <1> QED BY <1>1, <1>2 DEF DebitExact, Taken

LEMMA DebitsStep ==
    ASSUME CallbackInv, [CallbackNext]_allVars
    PROVE  DebitsExact'
  <1>1. TypeOK /\ FramesTyped /\ DebitsExact
    BY DEF CallbackInv
  <1> SUFFICES ASSUME NEW p \in ProposalIds
               PROVE  DebitExact(p)'
    BY DEF DebitsExact
  <1>2. DebitExact(p)
    BY <1>1 DEF DebitsExact
  <1>3. CASE PlainEntry
    <2>1. OpenExecutions(p)' = OpenExecutions(p)
      BY <1>3 DEF PlainEntry, callVars, OpenExecutions
    <2>2. Untouched(p)
      BY <1>3, <2>1 DEF PlainEntry, callVars, ExecutedKept, Untouched
    <2> QED BY <1>2, <2>2, UntouchedExact
  <1>4. ASSUME NEW a \in Accounts, BeginJoin(a)
        PROVE  DebitExact(p)'
    <2>1. PICK f \in Joining : stack' = Append(stack, f)
      BY <1>4, BeginJoinFrame
    <2>2. f \in Frames /\ f.call # "execute"
      BY DEF Frames, Joining
    <2>3. /\ OpenExecutions(p)' = OpenExecutions(p)
          /\ \A i \in OpenExecutions(p) : stack'[i].made = stack[i].made
      BY <1>1, <2>1, <2>2, OpenedExecutions
    <2>4. Untouched(p)
      BY <1>4, <2>3, BeginJoinIsStep DEF Untouched, vars, governanceVars
    <2> QED BY <1>2, <2>4, UntouchedExact
  <1>5. ASSUME NEW d \in Deposits, FinishJoin(d)
        PROVE  DebitExact(p)'
    <2>1. ~Idle /\ Close /\ Top.call = "join" /\ Top = stack[Len(stack)]
      BY <1>1, <1>5, TopFrame DEF FinishJoin, Waiting
    <2>2. Len(stack) \notin OpenExecutions(p)
      BY <2>1 DEF OpenExecutions
    <2>3. /\ OpenExecutions(p)' = OpenExecutions(p)
          /\ \A i \in OpenExecutions(p) : stack'[i].made = stack[i].made
      BY <1>1, <2>1, <2>2, ClosedExecutions
    <2>4. proposals' = proposals /\ debited' = debited
      BY <1>5 DEF FinishJoin, governanceVars
    <2>5. Untouched(p)
      BY <2>3, <2>4 DEF Untouched
    <2> QED BY <1>2, <2>5, UntouchedExact
  <1>6. ASSUME NEW x \in Assets, NEW m \in 1 .. MaxHolding, DrawAllowance(x, m)
        PROVE  DebitExact(p)'
    <2> DEFINE f == [Top EXCEPT !.allowance[x] = @ - m]
    <2>1. /\ ~Idle /\ f \in Executing /\ Top \in Executing
          /\ stack' = [stack EXCEPT ![Len(stack)] = f]
      BY <1>1, <1>6, DrawTaken
    <2>2. /\ f \in Frames /\ f.call = "execute" /\ Top.call = "execute"
          /\ f.proposal = Top.proposal /\ f.made = Top.made
      BY <2>1 DEF Frames, Executing
    <2> HIDE DEF f
    <2>3. /\ OpenExecutions(p)' = OpenExecutions(p)
          /\ \A i \in OpenExecutions(p) \ {Len(stack)} : stack'[i].made = stack[i].made
      BY <1>1, <2>1, <2>2, ChangedExecutions
    <2>4. stack'[Len(stack)].made = stack[Len(stack)].made
      BY <1>1, <2>1, <2>2, FrameChanged, TopFrame
    <2>5. proposals' = proposals /\ debited' = debited
      BY <1>6 DEF DrawAllowance, governanceVars
    <2>6. Untouched(p)
      BY <2>3, <2>4, <2>5 DEF Untouched
    <2> QED BY <1>2, <2>6, UntouchedExact
  <1>7. CASE Abort
    BY <1>7, AbortExact DEF CallbackInv, Abort
  <1> QED
    BY <1>1, <1>3, <1>4, <1>5, <1>6, <1>7, StepCases, ExecuteAtOnceExact, BeginExecuteExact,
       NextCallExact, FinishExecuteExact

-----------------------------------------------------------------------------
(* What an abort goes back to                                              *)

LEMMA SavedKept ==
    ASSUME Saved!TypeOK, Saved!LedgerBalanced, SavedExact, TypeOK', saved' = saved
    PROVE  Saved!TypeOK' /\ Saved!LedgerBalanced' /\ SavedExact'
  <1>1. now' \in Nat \ {0}
    BY DEF TypeOK, ProjectTypeOK
  <1>2. Saved!ProjectTypeOK'
    BY <1>1 DEF Saved!TypeOK, Saved!ProjectTypeOK
  <1>3. Saved!TypeOK'
    BY <1>2 DEF Saved!TypeOK
  <1>4. Saved!LedgerBalanced'
    BY DEF Saved!LedgerBalanced
  <1>5. SavedExact'
    BY DEF SavedExact, Taken
  <1> QED BY <1>3, <1>4, <1>5

LEMMA SavedAnew ==
    ASSUME TypeOK, LedgerBalanced, FramesTyped, DebitsExact, Idle, saved' = Before, now' = now
    PROVE  Saved!TypeOK' /\ Saved!LedgerBalanced' /\ SavedExact'
  <1>1. /\ saved'.vault = vault /\ saved'.treasury = treasury /\ saved'.unspent = unspent
        /\ saved'.stakeTotal = stakeTotal /\ saved'.debited = debited
        /\ saved'.proposals = proposals
    BY DEF Before
  <1>2. Saved!LedgerBalanced'
    BY <1>1 DEF LedgerBalanced, Saved!LedgerBalanced
  <1>3. \A p \in ProposalIds : OpenExecutions(p) = {}
    BY DEF OpenExecutions, Idle
  <1>4. SavedExact'
    BY <1>1, <1>3 DEF SavedExact, DebitsExact, DebitExact, FramesTyped, Taken
  <1> QED BY <1>2, <1>4, SavedTyped

\* While calls are open the saved state is kept; it is saved by the first.
LEMMA SavedCases ==
    ASSUME TypeOK, FramesTyped, [CallbackNext]_allVars, ~Idle'
    PROVE  \/ ~Idle /\ saved' = saved
           \/ Idle /\ saved' = Before /\ now' = now
  <1>1. ASSUME UNCHANGED callVars
        PROVE  ~Idle /\ saved' = saved
    BY <1>1 DEF callVars, Idle
  <1>2. ASSUME NEW frame, Open(frame), now' = now
        PROVE  \/ ~Idle /\ saved' = saved
               \/ Idle /\ saved' = Before /\ now' = now
    BY <1>2 DEF Open
  <1>3. ASSUME ~Idle, Close
        PROVE  ~Idle /\ saved' = saved
    BY <1>3, FrameClosed DEF Idle
  <1>4. CASE PlainEntry
    BY <1>1, <1>4 DEF PlainEntry
  <1>5. ASSUME NEW a \in Accounts, BeginJoin(a)
        PROVE  \/ ~Idle /\ saved' = saved
               \/ Idle /\ saved' = Before /\ now' = now
    BY <1>2, <1>5 DEF BeginJoin
  <1>6. ASSUME NEW a \in Accounts, NEW p \in ProposalIds, BeginExecute(a, p)
        PROVE  \/ ~Idle /\ saved' = saved
               \/ Idle /\ saved' = Before /\ now' = now
    BY <1>2, <1>6 DEF BeginExecute
  <1>7. ASSUME NEW d \in Deposits, FinishJoin(d)
        PROVE  ~Idle /\ saved' = saved
    BY <1>3, <1>7 DEF FinishJoin, Waiting
  <1>8. CASE FinishExecute
    BY <1>3, <1>8 DEF FinishExecute, Waiting
  <1>9. ASSUME NEW x \in Assets, NEW m \in 1 .. MaxHolding, DrawAllowance(x, m)
        PROVE  ~Idle /\ saved' = saved
    BY <1>9 DEF DrawAllowance, Waiting
  <1>10. CASE NextCall
    BY <1>10 DEF NextCall, Waiting
  <1>11. CASE Abort
    BY <1>11 DEF Abort, Idle
  <1> QED
    BY <1>1, <1>4, <1>5, <1>6, <1>7, <1>8, <1>9, <1>10, <1>11, StepCases

LEMMA SavedStep ==
    ASSUME CallbackInv, [CallbackNext]_allVars, ~Idle'
    PROVE  Saved!TypeOK' /\ Saved!LedgerBalanced' /\ SavedExact'
  <1>1. TypeOK /\ LedgerBalanced /\ FramesTyped /\ DebitsExact /\ TypeOK'
    BY TypeKept DEF CallbackInv
  <1>2. CASE ~Idle /\ saved' = saved
    <2>1. Saved!TypeOK /\ Saved!LedgerBalanced /\ SavedExact
      BY <1>2 DEF CallbackInv
    <2> QED BY <1>1, <1>2, <2>1, SavedKept
  <1>3. CASE Idle /\ saved' = Before /\ now' = now
    BY <1>1, <1>3, SavedAnew
  <1> QED BY <1>1, <1>2, <1>3, SavedCases

-----------------------------------------------------------------------------
(* The invariant, and what follows from it                                 *)

LEMMA CallbackInvInit == CallbackInit => CallbackInv
  <1> SUFFICES ASSUME CallbackInit PROVE CallbackInv
    OBVIOUS
  <1>1. TypeOK /\ Idle /\ LedgerBalanced
    BY GovernanceInitTyped, LedgerInit DEF CallbackInit, GovernanceInit, Idle
  <1>2. FramesTyped
    BY DEF CallbackInit, FramesTyped, NoDraw
  <1>3. AllowancesHeld
    <2>1. \A x \in Assets : SumFunctionOnSet(DrawableOf(x), DOMAIN stack) = 0
      BY SumOfNone DEF CallbackInit
    <2>2. \A x \in Assets : unspent[x] \in Nat
      BY <1>1 DEF TypeOK, ProjectTypeOK
    <2> QED BY <2>1, <2>2 DEF AllowancesHeld
  <1>4. DebitsExact
    <2> SUFFICES ASSUME NEW p \in ProposalIds PROVE DebitExact(p)
      BY DEF DebitsExact
    <2>1. OpenExecutions(p) = {}
      BY DEF CallbackInit, OpenExecutions
    <2>2. proposals[p].state = "none"
      BY NoProposalTyped DEF CallbackInit, GovernanceInit
    <2>3. \A x \in Assets : debited[p][x] = 0
      BY DEF CallbackInit, NoDraw
    <2> QED BY <2>1, <2>2, <2>3 DEF DebitExact, Taken
  <1> QED BY <1>1, <1>2, <1>3, <1>4 DEF CallbackInv

LEMMA CallbackInvStep == CallbackInv /\ [CallbackNext]_allVars => CallbackInv'
  BY TypeKept, LedgerOfStep, FramesStep, AllowancesStep, DebitsStep, SavedStep DEF CallbackInv

THEOREM CallbackInvariance == CallbackSpec => []CallbackInv
  BY CallbackInvInit, CallbackInvStep, PTL DEF CallbackSpec

\* Every stored value has its type, at every point of a transaction and after
\* every abort: no allowance or balance goes below zero while calls are open.
THEOREM CallbackTyped == CallbackSpec => []TypeOK
  <1>1. CallbackInv => TypeOK
    BY DEF CallbackInv
  <1> QED BY <1>1, CallbackInvariance, PTL

\* The ledger stays balanced whatever the called contracts draw and call.
THEOREM CallbackLedgerSafe == CallbackSpec => []LedgerBalanced
  <1>1. CallbackInv => LedgerBalanced
    BY DEF CallbackInv
  <1> QED BY <1>1, CallbackInvariance, PTL

\* A proposal takes its funds once, however deep its execution is called back.
THEOREM DebitsSafe == CallbackSpec => []DebitedOnce
  <1>1. CallbackInv => DebitedOnce
    <2> SUFFICES ASSUME CallbackInv, NEW p \in ProposalIds, NEW x \in Assets
                 PROVE  /\ debited[p][x] <= Spent(proposals[p].outcome, x)
                        /\ proposals[p].state = "executed" /\ OpenExecutions(p) = {} =>
                               debited[p][x] = Spent(proposals[p].outcome, x)
      BY DEF DebitedOnce
    <2> DEFINE o == proposals[p].outcome
    <2>1. DebitExact(p) /\ IsOutcome(o)
      BY OutcomeOfProposal DEF CallbackInv, DebitsExact
    <2>2. PaidOut(o, x) \in Nat /\ Allowed(o, x) \in Nat /\ Spent(o, x) \in Nat
      BY <2>1, SpentTyped
    <2>3. CASE OpenExecutions(p) = {}
      BY <2>1, <2>2, <2>3 DEF DebitExact, Taken
    <2>4. ASSUME NEW i \in OpenExecutions(p)
          PROVE  debited[p][x] <= Spent(o, x)
      <3>1. /\ stack[i].made \in 1 .. Len(o.calls)
            /\ debited[p][x] = PaidOut(o, x) + AllowedFirst(o, stack[i].made, x)
        BY <2>1, <2>4 DEF DebitExact, ExecutionExact
      <3>2. /\ AllowedFirst(o, stack[i].made, x) \in Nat
            /\ AllowedFirst(o, stack[i].made, x) <= Allowed(o, x)
        BY <2>1, <3>1, AllowedFirstFacts
      <3> HIDE DEF o
      <3> QED BY <2>2, <3>1, <3>2 DEF Spent
    <2> QED BY <2>3, <2>4
  <1> QED BY <1>1, CallbackInvariance, PTL

-----------------------------------------------------------------------------
(* The finance record, when no join is nested in another                   *)

\* A contract asked about a membership NFT does not join in turn.
JoinsNotNested == "project_join" \notin Uses["join"]

\* At most one join waits, and what it read is still so: its caller is out.
JoinsApart ==
    \A i \in DOMAIN stack : stack[i].call = "join" =>
        /\ stack[i].caller \notin members
        /\ \A j \in DOMAIN stack : stack[j].call = "join" => j = i

SavedFinance ==
    /\ saved.memberCount = Cardinality(saved.members)
    /\ saved.stakeTotal =
           SumFunctionOnSet([a \in Accounts |-> saved.member[a].stake], saved.members)

FinanceInv ==
    /\ CallbackInv /\ FinanceMatchesMembers /\ JoinsApart
    /\ ~Idle => SavedFinance

\* An outcome that is applied lets nobody in, and approves no member.
LEMMA ApplyNobodyEnters ==
    ASSUME NEW o, ApplyOutcome(o)
    PROVE  NobodyEnters /\ cfg' = ConfigAfter(o)
  <1>1. members' = members \ Kicked(o) /\ whitelist' = WhitelistAfter(o)
    BY DEF ApplyOutcome, RemoveMembers
  <1> QED BY <1>1 DEF ApplyOutcome, NobodyEnters, WhitelistAfter, Approve, Disapprove

LEMMA BeginExecuteFinance ==
    ASSUME TypeOK, FinanceMatchesMembers, NEW a \in Accounts, NEW p \in ProposalIds,
           BeginExecute(a, p)
    PROVE  FinanceMatchesMembers'
  <1> DEFINE K == Kicked(proposals[p].outcome)
  <1>1. K \in SUBSET members /\ RemoveMembers(K) /\ ProjectTypeOK
    BY BeginExecuteTaken DEF Kicked, TypeOK
  <1> HIDE DEF K
  <1> QED BY <1>1, RemovalFinance

LEMMA FinishJoinFinance ==
    ASSUME TypeOK, FramesTyped, FinanceMatchesMembers, JoinsApart, NEW d \in Deposits,
           FinishJoin(d)
    PROVE  FinanceMatchesMembers'
  <1>1. /\ Top = stack[Len(stack)] /\ Len(stack) \in DOMAIN stack /\ Top \in Joining
        /\ Top.call = "join"
    BY TopFrame DEF FinishJoin, Waiting
  <1>2. Top.caller \in Accounts /\ Top.caller \notin members
    BY <1>1 DEF Joining, JoinsApart
  <1>3. d \in Nat /\ ProjectTypeOK
    BY ProjectConstants DEF ProjectConstants, TypeOK
  <1>4. AdmitMember(Top.caller, d)
    BY DEF FinishJoin
  <1> QED BY <1>2, <1>3, <1>4, AdmissionFinance

LEMMA AbortFinance ==
    ASSUME SavedFinance, Abort
    PROVE  FinanceMatchesMembers'
  <1>1. /\ members' = saved.members /\ member' = saved.member
        /\ memberCount' = saved.memberCount /\ stakeTotal' = saved.stakeTotal
    BY DEF Abort
  <1>2. Stakes' = [a \in Accounts |-> saved.member[a].stake]
    BY <1>1 DEF Stakes
  <1> QED BY <1>1, <1>2 DEF SavedFinance, FinanceMatchesMembers, StakeOf

LEMMA FinanceOfStep ==
    ASSUME FinanceInv, [CallbackNext]_allVars
    PROVE  FinanceMatchesMembers'
  <1>1. TypeOK /\ FramesTyped /\ FinanceMatchesMembers /\ JoinsApart
    BY DEF FinanceInv, CallbackInv
  <1>2. CASE PlainEntry
    BY <1>1, <1>2, FinanceKept DEF PlainEntry
  <1>3. ASSUME NEW a \in Accounts, NEW p \in ProposalIds, ExecuteAtOnce(a, p)
        PROVE  FinanceMatchesMembers'
    BY <1>1, <1>3, FinanceKept, ExecuteAtOnceIsStep
  <1>4. ASSUME NEW a \in Accounts, BeginJoin(a)
        PROVE  FinanceMatchesMembers'
    BY <1>1, <1>4, FinanceKept, BeginJoinIsStep
  <1>5. CASE FinishExecute
    BY <1>1, <1>5, FinanceKept, FinishExecuteIsStep
  <1>6. ASSUME UNCHANGED memberVars
        PROVE  FinanceMatchesMembers'
    <2>1. Stakes' = Stakes /\ UNCHANGED <<members, memberCount, stakeTotal>> /\ ProjectTypeOK
      BY <1>1, <1>6 DEF memberVars, Stakes, TypeOK
    <2> QED BY <1>1, <2>1, FinanceOfSameMembers
  <1>7. ASSUME NEW x \in Assets, NEW n \in 1 .. MaxHolding, DrawAllowance(x, n)
        PROVE  FinanceMatchesMembers'
    BY <1>6, <1>7 DEF DrawAllowance
  <1>8. CASE NextCall
    BY <1>6, <1>8 DEF NextCall
  <1>9. CASE Abort
    BY <1>9, AbortFinance DEF FinanceInv, Abort
  <1> QED
    BY <1>1, <1>2, <1>3, <1>4, <1>5, <1>7, <1>8, <1>9, StepCases, BeginExecuteFinance,
       FinishJoinFinance

\* Frames that were there already, and members that were.
LEMMA ApartKept ==
    ASSUME JoinsApart, members' \subseteq members,
           \A i \in DOMAIN stack' : stack'[i].call = "join" =>
               i \in DOMAIN stack /\ stack[i].call = "join" /\ stack'[i].caller = stack[i].caller
    PROVE  JoinsApart'
  BY DEF JoinsApart

LEMMA ApartStep ==
    ASSUME JoinsNotNested, FinanceInv, [CallbackNext]_allVars
    PROVE  JoinsApart'
  <1>1. TypeOK /\ FramesTyped /\ JoinsApart
    BY DEF FinanceInv, CallbackInv
  <1>2. ASSUME stack' = stack, members' \subseteq members
        PROVE  JoinsApart'
    BY <1>1, <1>2, ApartKept
  <1>3. CASE PlainEntry
    BY <1>2, <1>3 DEF PlainEntry, NobodyEnters, callVars
  <1>4. ASSUME NEW a \in Accounts, NEW p \in ProposalIds, ExecuteAtOnce(a, p),
               UNCHANGED callVars
        PROVE  JoinsApart'
    <2>1. members' \subseteq members
      BY <1>4, ApplyNobodyEnters DEF ExecuteAtOnce, ExecuteProposal, NobodyEnters
    <2> QED BY <1>2, <1>4, <2>1 DEF callVars
  <1>5. ASSUME NEW a \in Accounts, BeginJoin(a)
        PROVE  JoinsApart'
    <2>1. \A i \in DOMAIN stack : stack[i].call # "join"
      BY <1>5 DEF BeginJoin, MayCall, JoinsNotNested
    <2>2. a \notin members /\ members' = members
      BY <1>5 DEF BeginJoin, JoinAllowed, memberVars
    <2>3. PICK f \in Joining : stack' = Append(stack, f) /\ f.caller = a
      BY <1>5, BeginJoinFrame
    <2>4. /\ DOMAIN stack' = DOMAIN stack \cup {Len(stack) + 1}
          /\ stack'[Len(stack) + 1] = f
          /\ \A i \in DOMAIN stack : stack'[i] = stack[i]
      BY <1>1, <2>3, FrameOpened DEF Frames
    <2> QED BY <2>1, <2>2, <2>3, <2>4 DEF JoinsApart
  <1>6. ASSUME NEW a \in Accounts, NEW p \in ProposalIds, BeginExecute(a, p)
        PROVE  JoinsApart'
    <2>1. PICK f \in Executing : stack' = Append(stack, f)
      BY <1>1, <1>6, BeginExecuteFrame
    <2>2. f \in Frames /\ f.call # "join"
      BY DEF Frames, Executing
    <2>3. /\ DOMAIN stack' = DOMAIN stack \cup {Len(stack) + 1}
          /\ stack'[Len(stack) + 1] = f
          /\ \A i \in DOMAIN stack : stack'[i] = stack[i]
      BY <1>1, <2>1, <2>2, FrameOpened
    <2>4. members' \subseteq members
      BY <1>6, ApplyNobodyEnters DEF BeginExecute, NobodyEnters
    <2> QED BY <1>1, <2>2, <2>3, <2>4, ApartKept
  <1>7. ASSUME NEW d \in Deposits, FinishJoin(d)
        PROVE  JoinsApart'
    <2>1. /\ ~Idle /\ Close /\ Top = stack[Len(stack)] /\ Len(stack) \in DOMAIN stack
          /\ Top.call = "join"
      BY <1>1, <1>7, TopFrame DEF FinishJoin, Waiting
    <2>2. /\ DOMAIN stack' = DOMAIN stack \ {Len(stack)}
          /\ \A i \in DOMAIN stack' : stack'[i] = stack[i]
      BY <1>1, <2>1, FrameClosed
    <2>3. \A i \in DOMAIN stack' : stack'[i].call # "join"
      BY <1>1, <2>1, <2>2 DEF JoinsApart
    <2> QED BY <2>3 DEF JoinsApart
  <1>8. ASSUME NEW x \in Assets, NEW n \in 1 .. MaxHolding, DrawAllowance(x, n)
        PROVE  JoinsApart'
    <2> DEFINE f == [Top EXCEPT !.allowance[x] = @ - n]
    <2>1. ~Idle /\ f \in Executing /\ stack' = [stack EXCEPT ![Len(stack)] = f]
      BY <1>1, <1>8, DrawTaken
    <2>2. f \in Frames /\ f.call # "join" /\ members' = members
      BY <1>8, <2>1 DEF Frames, Executing, DrawAllowance, memberVars
    <2> HIDE DEF f
    <2>3. /\ DOMAIN stack' = DOMAIN stack /\ stack'[Len(stack)] = f
          /\ \A i \in DOMAIN stack \ {Len(stack)} : stack'[i] = stack[i]
      BY <1>1, <2>1, <2>2, FrameChanged
    <2> QED BY <1>1, <2>2, <2>3, ApartKept
  <1>9. CASE NextCall
    <2> DEFINE c == proposals[Top.proposal].outcome.calls[Top.made + 1]
               f == [Top EXCEPT !.made = Top.made + 1, !.allowance = c]
    <2>1. /\ ~Idle /\ f \in Executing /\ stack' = [stack EXCEPT ![Len(stack)] = f]
          /\ members' = members
      BY <1>1, <1>9, NextCallTaken
    <2>2. f \in Frames /\ f.call # "join"
      BY <2>1 DEF Frames, Executing
    <2> HIDE DEF c, f
    <2>3. /\ DOMAIN stack' = DOMAIN stack /\ stack'[Len(stack)] = f
          /\ \A i \in DOMAIN stack \ {Len(stack)} : stack'[i] = stack[i]
      BY <1>1, <2>1, <2>2, FrameChanged
    <2> QED BY <1>1, <2>1, <2>2, <2>3, ApartKept
  <1>10. CASE FinishExecute
    <2>1. /\ DOMAIN stack' = DOMAIN stack \ {Len(stack)}
          /\ \A i \in DOMAIN stack' : stack'[i] = stack[i]
      BY <1>1, <1>10, FrameClosed DEF FinishExecute, Waiting
    <2>2. members' = members
      BY <1>10, FinishExecuteIsStep DEF vars, projectVars, memberVars
    <2> QED BY <1>1, <2>1, <2>2, ApartKept
  <1>11. CASE Abort
    BY <1>11 DEF Abort, JoinsApart
  <1> QED
    BY <1>1, <1>3, <1>4, <1>5, <1>6, <1>7, <1>8, <1>9, <1>10, <1>11, StepCases

LEMMA SavedFinanceStep ==
    ASSUME FinanceInv, [CallbackNext]_allVars, ~Idle'
    PROVE  SavedFinance'
  <1>1. TypeOK /\ FramesTyped /\ FinanceMatchesMembers
    BY DEF FinanceInv, CallbackInv
  <1>2. CASE ~Idle /\ saved' = saved
    BY <1>2 DEF FinanceInv, SavedFinance
  <1>3. CASE Idle /\ saved' = Before /\ now' = now
    <2>1. /\ saved'.members = members /\ saved'.member = member
          /\ saved'.memberCount = memberCount /\ saved'.stakeTotal = stakeTotal
      BY <1>3 DEF Before
    <2> QED BY <1>1, <2>1 DEF SavedFinance, FinanceMatchesMembers, StakeOf, Stakes
  <1> QED BY <1>1, <1>2, <1>3, SavedCases

LEMMA FinanceInvInit == CallbackInit => FinanceInv
  <1> SUFFICES ASSUME CallbackInit PROVE FinanceInv
    OBVIOUS
  <1>1. FinanceMatchesMembers
    BY FinanceInit DEF CallbackInit, GovernanceInit
  <1>2. JoinsApart /\ Idle
    BY DEF CallbackInit, JoinsApart, Idle
  <1> QED BY <1>1, <1>2, CallbackInvInit DEF FinanceInv

LEMMA FinanceInvStep ==
    ASSUME JoinsNotNested
    PROVE  FinanceInv /\ [CallbackNext]_allVars => FinanceInv'
  <1>1. FinanceInv /\ [CallbackNext]_allVars => CallbackInv'
    BY CallbackInvStep DEF FinanceInv
  <1> QED BY <1>1, FinanceOfStep, ApartStep, SavedFinanceStep DEF FinanceInv

\* Where a contract asked about a membership NFT does not join in turn, count
\* and total agree with the member records at every point of a transaction,
\* whatever else the called contracts call.
THEOREM CallbackFinanceSafe ==
    ASSUME JoinsNotNested
    PROVE  CallbackSpec => []FinanceMatchesMembers
  <1>1. FinanceInv /\ [CallbackNext]_allVars => FinanceInv'
    BY FinanceInvStep
  <1>2. FinanceInv => FinanceMatchesMembers
    BY DEF FinanceInv
  <1> QED BY <1>1, <1>2, FinanceInvInit, PTL DEF CallbackSpec

-----------------------------------------------------------------------------
(* Approvals, when no outcome closes an open project                       *)

\* No outcome makes a project whitelist-only that was not.
NeverClosedLater ==
    \A o \in Outcomes :
        "whitelistOnly" \in DOMAIN o.update => o.update["whitelistOnly"] # 1

ListOnly == cfg["whitelistOnly"] = 1

\* Every join that waits will use up its approval.
JoinsUseApproval ==
    \A i \in DOMAIN stack : stack[i].call = "join" => stack[i].listOnly

SavedApprovals ==
    saved.cfg["whitelistOnly"] = 1 => saved.whitelist \cap saved.members = {}

ApprovalsInv ==
    /\ CallbackInv /\ ApprovalsPending
    /\ ListOnly => JoinsUseApproval
    /\ ~Idle => SavedApprovals

\* An outcome leaves the flag as it was, or takes it off.
LEMMA FlagAfter ==
    ASSUME NeverClosedLater, TypeOK, NEW p \in ProposalIds,
           cfg' = ConfigAfter(proposals[p].outcome), ListOnly'
    PROVE  ListOnly
  <1> DEFINE o == proposals[p].outcome
  <1>1. o \in Outcomes \cup {NoOutcome}
    BY DEF TypeOK, Proposal
  <1>2. "whitelistOnly" \in DOMAIN o.update => o.update["whitelistOnly"] # 1
    BY <1>1 DEF NeverClosedLater, NoOutcome
  <1>3. "whitelistOnly" \in ConfigKeys
    BY DEF ConfigKeys
  <1> HIDE DEF o
  <1>4. cfg'["whitelistOnly"] = IF "whitelistOnly" \in DOMAIN o.update
                                THEN o.update["whitelistOnly"] ELSE cfg["whitelistOnly"]
    BY <1>3 DEF ConfigAfter, o
  <1> QED BY <1>2, <1>4 DEF ListOnly

LEMMA ApprovalsKept ==
    ASSUME ApprovalsPending, NobodyEnters, ListOnly' => ListOnly
    PROVE  ApprovalsPending'
  BY DEF ApprovalsPending, NobodyEnters, ListOnly

LEMMA FinishJoinApprovals ==
    ASSUME TypeOK, FramesTyped, ApprovalsPending, ListOnly => JoinsUseApproval,
           NEW d \in Deposits, FinishJoin(d)
    PROVE  ApprovalsPending'
  <1>1. Top = stack[Len(stack)] /\ Len(stack) \in DOMAIN stack /\ Top.call = "join"
    BY TopFrame DEF FinishJoin, Waiting
  <1>2. /\ cfg' = cfg /\ members' = members \cup {Top.caller}
        /\ Top.listOnly => whitelist' = whitelist \ {Top.caller}
    BY DEF FinishJoin, AdmitMember, ListAfter, DeletedWhen
  <1>3. ListOnly => Top.listOnly
    BY <1>1 DEF JoinsUseApproval
  <1> QED BY <1>2, <1>3 DEF ApprovalsPending, ListOnly

\* No step leaves a member of a whitelist-only project with an approval: it
\* lets nobody in, or it is the join that uses the approval up.
LEMMA ApprovalsStep ==
    ASSUME NeverClosedLater, ApprovalsInv, [CallbackNext]_allVars
    PROVE  ApprovalsPending'
  <1>1. TypeOK /\ FramesTyped /\ ApprovalsPending /\ (ListOnly => JoinsUseApproval)
    BY DEF ApprovalsInv, CallbackInv
  <1>2. ASSUME UNCHANGED <<cfg, members, whitelist>>
        PROVE  ApprovalsPending'
    BY <1>1, <1>2 DEF ApprovalsPending
  <1>3. CASE PlainEntry
    BY <1>1, <1>3, ApprovalsKept DEF PlainEntry, ListOnly
  <1>4. ASSUME NEW p \in ProposalIds, ApplyOutcome(proposals[p].outcome)
        PROVE  ApprovalsPending'
    BY <1>1, <1>4, ApplyNobodyEnters, FlagAfter, ApprovalsKept
  <1>5. ASSUME NEW a \in Accounts, NEW p \in ProposalIds, ExecuteAtOnce(a, p)
        PROVE  ApprovalsPending'
    BY <1>4, <1>5 DEF ExecuteAtOnce, ExecuteProposal
  <1>6. ASSUME NEW a \in Accounts, NEW p \in ProposalIds, BeginExecute(a, p)
        PROVE  ApprovalsPending'
    BY <1>4, <1>6 DEF BeginExecute
  <1>7. ASSUME NEW a \in Accounts, BeginJoin(a)
        PROVE  ApprovalsPending'
    BY <1>2, <1>7, BeginJoinIsStep DEF vars, projectVars, memberVars
  <1>8. ASSUME NEW d \in Deposits, FinishJoin(d)
        PROVE  ApprovalsPending'
    BY <1>1, <1>8, FinishJoinApprovals
  <1>9. ASSUME NEW x \in Assets, NEW n \in 1 .. MaxHolding, DrawAllowance(x, n)
        PROVE  ApprovalsPending'
    BY <1>2, <1>9 DEF DrawAllowance, memberVars
  <1>10. CASE NextCall
    BY <1>2, <1>10 DEF NextCall, memberVars
  <1>11. CASE FinishExecute
    BY <1>2, <1>11 DEF FinishExecute
  <1>12. CASE Abort
    BY <1>12 DEF Abort, ApprovalsInv, SavedApprovals, ApprovalsPending
  <1> QED
    BY <1>1, <1>3, <1>5, <1>6, <1>7, <1>8, <1>9, <1>10, <1>11, <1>12, StepCases

\* Joins that wait are joins that waited before, or read the flag just now.
LEMMA UseApprovalKept ==
    ASSUME JoinsUseApproval,
           \A i \in DOMAIN stack' : stack'[i].call = "join" =>
               \/ stack'[i].listOnly
               \/ i \in DOMAIN stack /\ stack[i].call = "join"
                  /\ stack'[i].listOnly = stack[i].listOnly
    PROVE  JoinsUseApproval'
  BY DEF JoinsUseApproval

LEMMA UseApprovalStep ==
    ASSUME NeverClosedLater, ApprovalsInv, [CallbackNext]_allVars, ListOnly'
    PROVE  JoinsUseApproval'
  <1>1. TypeOK /\ FramesTyped /\ (ListOnly => JoinsUseApproval)
    BY DEF ApprovalsInv, CallbackInv
  <1>2. ASSUME stack' = stack, cfg' = cfg
        PROVE  JoinsUseApproval'
    BY <1>1, <1>2 DEF JoinsUseApproval, ListOnly
  <1>3. ASSUME NEW f \in Frames, f.call # "join", cfg' = cfg,
               ~Idle, stack' = [stack EXCEPT ![Len(stack)] = f]
        PROVE  JoinsUseApproval'
    <2>1. /\ DOMAIN stack' = DOMAIN stack /\ stack'[Len(stack)] = f
          /\ \A i \in DOMAIN stack \ {Len(stack)} : stack'[i] = stack[i]
      BY <1>1, <1>3, FrameChanged
    <2> QED BY <1>1, <1>3, <2>1, UseApprovalKept DEF ListOnly
  <1>4. ASSUME ~Idle, Close, cfg' = cfg
        PROVE  JoinsUseApproval'
    <2>1. /\ DOMAIN stack' = DOMAIN stack \ {Len(stack)}
          /\ \A i \in DOMAIN stack' : stack'[i] = stack[i]
      BY <1>1, <1>4, FrameClosed
    <2> QED BY <1>1, <1>4, <2>1, UseApprovalKept DEF ListOnly
  <1>5. ASSUME NEW p \in ProposalIds, ApplyOutcome(proposals[p].outcome)
        PROVE  ListOnly
    BY <1>1, <1>5, ApplyNobodyEnters, FlagAfter
  <1>6. CASE PlainEntry
    BY <1>2, <1>6 DEF PlainEntry, callVars
  <1>7. ASSUME NEW a \in Accounts, NEW p \in ProposalIds, ExecuteAtOnce(a, p),
               UNCHANGED callVars
        PROVE  JoinsUseApproval'
    BY <1>1, <1>5, <1>7, UseApprovalKept DEF ExecuteAtOnce, ExecuteProposal, callVars
  <1>8. ASSUME NEW a \in Accounts, BeginJoin(a)
        PROVE  JoinsUseApproval'
    <2>1. PICK f \in Joining : /\ stack' = Append(stack, f)
                               /\ f.listOnly <=> cfg["whitelistOnly"] = 1
      BY <1>8, BeginJoinFrame
    <2>2. f \in Frames /\ cfg' = cfg
      BY <1>8 DEF Frames, BeginJoin
    <2>3. /\ DOMAIN stack' = DOMAIN stack \cup {Len(stack) + 1}
          /\ stack'[Len(stack) + 1] = f
          /\ \A i \in DOMAIN stack : stack'[i] = stack[i]
      BY <1>1, <2>1, <2>2, FrameOpened
    <2>4. ListOnly /\ f.listOnly
      BY <2>1, <2>2 DEF ListOnly
    <2> QED BY <1>1, <2>3, <2>4, UseApprovalKept
  <1>9. ASSUME NEW a \in Accounts, NEW p \in ProposalIds, BeginExecute(a, p)
        PROVE  JoinsUseApproval'
    <2>1. PICK f \in Executing : stack' = Append(stack, f)
      BY <1>1, <1>9, BeginExecuteFrame
    <2>2. f \in Frames /\ f.call # "join"
      BY DEF Frames, Executing
    <2>3. /\ DOMAIN stack' = DOMAIN stack \cup {Len(stack) + 1}
          /\ stack'[Len(stack) + 1] = f
          /\ \A i \in DOMAIN stack : stack'[i] = stack[i]
      BY <1>1, <2>1, <2>2, FrameOpened
    <2>4. ListOnly
      BY <1>5, <1>9 DEF BeginExecute
    <2> QED BY <1>1, <2>2, <2>3, <2>4, UseApprovalKept
  <1>10. ASSUME NEW d \in Deposits, FinishJoin(d)
         PROVE  JoinsUseApproval'
    BY <1>4, <1>10 DEF FinishJoin, Waiting
  <1>11. ASSUME NEW x \in Assets, NEW n \in 1 .. MaxHolding, DrawAllowance(x, n)
         PROVE  JoinsUseApproval'
    <2> DEFINE f == [Top EXCEPT !.allowance[x] = @ - n]
    <2>1. ~Idle /\ f \in Executing /\ stack' = [stack EXCEPT ![Len(stack)] = f]
      BY <1>1, <1>11, DrawTaken
    <2>2. f \in Frames /\ f.call # "join" /\ cfg' = cfg
      BY <1>11, <2>1 DEF Frames, Executing, DrawAllowance
    <2> HIDE DEF f
    <2> QED BY <1>3, <2>1, <2>2
  <1>12. CASE NextCall
    <2> DEFINE c == proposals[Top.proposal].outcome.calls[Top.made + 1]
               f == [Top EXCEPT !.made = Top.made + 1, !.allowance = c]
    <2>1. ~Idle /\ f \in Executing /\ stack' = [stack EXCEPT ![Len(stack)] = f]
      BY <1>1, <1>12, NextCallTaken
    <2>2. f \in Frames /\ f.call # "join" /\ cfg' = cfg
      BY <1>12, <2>1 DEF Frames, Executing, NextCall
    <2> HIDE DEF c, f
    <2> QED BY <1>3, <2>1, <2>2
  <1>13. CASE FinishExecute
    BY <1>4, <1>13 DEF FinishExecute, Waiting
  <1>14. CASE Abort
    BY <1>14 DEF Abort, JoinsUseApproval
  <1> QED
    BY <1>1, <1>6, <1>7, <1>8, <1>9, <1>10, <1>11, <1>12, <1>13, <1>14, StepCases

LEMMA SavedApprovalsStep ==
    ASSUME ApprovalsInv, [CallbackNext]_allVars, ~Idle'
    PROVE  SavedApprovals'
  <1>1. TypeOK /\ FramesTyped /\ ApprovalsPending
    BY DEF ApprovalsInv, CallbackInv
  <1>2. CASE ~Idle /\ saved' = saved
    BY <1>2 DEF ApprovalsInv, SavedApprovals
  <1>3. CASE Idle /\ saved' = Before /\ now' = now
    <2>1. saved'.cfg = cfg /\ saved'.members = members /\ saved'.whitelist = whitelist
      BY <1>3 DEF Before
    <2> QED BY <1>1, <2>1 DEF SavedApprovals, ApprovalsPending
  <1> QED BY <1>1, <1>2, <1>3, SavedCases

LEMMA ApprovalsInvInit == CallbackInit => ApprovalsInv
  <1> SUFFICES ASSUME CallbackInit PROVE ApprovalsInv
    OBVIOUS
  <1>1. ApprovalsPending
    BY DEF CallbackInit, GovernanceInit, ProjectInit, ApprovalsPending
  <1>2. JoinsUseApproval /\ Idle
    BY DEF CallbackInit, JoinsUseApproval, Idle
  <1> QED BY <1>1, <1>2, CallbackInvInit DEF ApprovalsInv

LEMMA ApprovalsInvStep ==
    ASSUME NeverClosedLater
    PROVE  ApprovalsInv /\ [CallbackNext]_allVars => ApprovalsInv'
  <1>1. ApprovalsInv /\ [CallbackNext]_allVars => CallbackInv'
    BY CallbackInvStep DEF ApprovalsInv
  <1> QED BY <1>1, ApprovalsStep, UseApprovalStep, SavedApprovalsStep DEF ApprovalsInv

\* Where no outcome makes an open project whitelist-only, no member of a
\* whitelist-only project holds an approval: a join uses its own up, also when
\* the list was edited, or another join finished, while it asked its contract.
THEOREM ApprovalsSafe ==
    ASSUME NeverClosedLater
    PROVE  CallbackSpec => []ApprovalsPending
  <1>1. ApprovalsInv /\ [CallbackNext]_allVars => ApprovalsInv'
    BY ApprovalsInvStep
  <1>2. ApprovalsInv => ApprovalsPending
    BY DEF ApprovalsInv
  <1> QED BY <1>1, <1>2, ApprovalsInvInit, PTL DEF CallbackSpec
=============================================================================
