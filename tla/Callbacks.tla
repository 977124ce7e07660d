----------------------------- MODULE Callbacks -----------------------------
(***************************************************************************)
(* Contracts the DAO calls, and that call it back inside the same          *)
(* transaction: the membership NFT contract JoinProject asks, and the      *)
(* contracts an executed outcome calls.                                    *)
(*                                                                         *)
(* A call of the DAO that waits for an external contract is a frame on     *)
(* the stack, and holds what the call read before it started to wait.      *)
(* Until that contract returns it may use the entry points of the DAO,     *)
(* always as the signer of the transaction: getActorAddress is msg.sender, *)
(* which the host passes on unchanged.  An abort unwinds every frame.      *)
(*                                                                         *)
(* The project modelled here has a membership NFT, so every join asks.     *)
(***************************************************************************)
EXTENDS Governance

CONSTANTS
    Entries,    \* entry points a called contract may use
    Uses,       \* the ones it uses while a "join", or an "execute", waits
    MaxDepth    \* bound: calls of the DAO open at once

ASSUME CallbackConstants ==
    /\ Uses \in [{"join", "execute"} -> SUBSET Entries]
    /\ MaxDepth \in Nat

VARIABLES
    stack,    \* the calls that wait for an external contract, innermost last
    saved,    \* the state an abort goes back to
    debited   \* history: what each proposal has taken from the treasury

callVars == <<stack, saved>>
allVars  == <<vars, callVars, debited>>

Idle == stack = <<>>
Top  == stack[Len(stack)]

\* The state the transaction started from, kept while one is open.
NoTransaction == <<>>
Before ==
    [owner |-> owner, paused |-> paused, cfg |-> cfg, members |-> members,
     member |-> member, history |-> history, joinSeq |-> joinSeq,
     memberCount |-> memberCount, stakeTotal |-> stakeTotal,
     treasury |-> treasury, vault |-> vault, unspent |-> unspent,
     locks |-> locks, whitelist |-> whitelist, proposalCount |-> proposalCount,
     proposals |-> proposals, options |-> options, ballots |-> ballots,
     debited |-> debited]

\* Account a calls the entry point: on its own when no transaction is open,
\* otherwise through the contract the innermost call waits for.
MayCall(a, entry) ==
    \A i \in DOMAIN stack : a = stack[i].caller /\ entry \in Uses[stack[i].call]

Open(frame) ==
    /\ Len(stack) < MaxDepth
    /\ stack' = Append(stack, frame)
    /\ saved' = IF Idle THEN Before ELSE saved

Close ==
    /\ stack' = SubSeq(stack, 1, Len(stack) - 1)
    /\ saved' = IF Len(stack) = 1 THEN NoTransaction ELSE saved

Waiting(call) == ~Idle /\ Top.call = call

-----------------------------------------------------------------------------
(* Joining past the NFT contract                                           *)

\* Mutant: the approval is deleted before the NFT contract is asked.
DeletedWhenAsking == "asking"
\* When a join deletes the approval it uses.
DeletedWhen == "joining"

\* The approvals after that step of a's join, listOnly being the flag it read.
ListAfter(step, a, listOnly) ==
    IF listOnly /\ step = DeletedWhen THEN whitelist \ {a} ELSE whitelist

\* JoinProject up to its external call: everything read here is kept.
BeginJoin(a) ==
    /\ MayCall(a, "project_join")
    /\ JoinAllowed(a)
    /\ whitelist' = ListAfter("asking", a, cfg["whitelistOnly"] = 1)
    /\ Open([call |-> "join", caller |-> a, approved |-> Approved(a),
             listOnly |-> cfg["whitelistOnly"] = 1])
    /\ UNCHANGED <<now, metaVars, cfg, memberVars, fundVars, locks,
                   governanceVars, debited>>

\* The NFT contract says yes: the flag and the approval are the ones read
\* before it was asked, the aggregates are read again.
FinishJoin(deposit) ==
    /\ Waiting("join")
    /\ Top.listOnly => Top.approved
    /\ whitelist' = ListAfter("joining", Top.caller, Top.listOnly)
    /\ AdmitMember(Top.caller, deposit)
    /\ Close
    /\ UNCHANGED <<now, metaVars, cfg, treasury, unspent, locks,
                   governanceVars, debited>>

-----------------------------------------------------------------------------
(* Executing an outcome that calls contracts                               *)

NoDraw == [x \in Assets |-> 0]

PaidOutAnd(o, allowance) == [x \in Assets |-> PaidOut(o, x) + allowance[x]]

\* Takes funds for proposal p out of the treasury.
Debit(p, taken) ==
    /\ \A x \in Assets : taken[x] <= treasury[x]
    /\ treasury' = [x \in Assets |-> treasury[x] - taken[x]]
    /\ debited' = [debited EXCEPT ![p] = [x \in Assets |-> @[x] + taken[x]]]

\* Mutant: the allowance of a call replaces what is left of the one before.
GrantedLast(allowance) == allowance
\* What called contracts may draw, or left undrawn, with one more allowance.
Granted(allowance) == [x \in Assets |-> unspent[x] + allowance[x]]

\* Mutant: the terminal state is not committed before the calls.
StateDuringCallsPassed == "passed"
\* The state of the proposal a called contract finds.
StateDuringCalls == "executed"

(***************************************************************************)
(* ExecuteProposal up to its first external call: payouts, directives and  *)
(* the project record are stored, and the first allowance is granted.      *)
(***************************************************************************)
BeginExecute(a, p) ==
    LET q == proposals[p]
        o == q.outcome
    IN /\ MayCall(a, "proposal_execute")
       /\ Executable(a, q)
       /\ o.calls # <<>>
       /\ \A x \in Assets : Outflow(o, NoDraw, x) <= vault[x]
       /\ Debit(p, PaidOutAnd(o, o.calls[1]))
       /\ ApplyOutcome(o)
       /\ proposals' = [proposals EXCEPT ![p].state = StateDuringCalls]
       /\ vault' = [x \in Assets |-> vault[x] - Outflow(o, NoDraw, x)]
       /\ unspent' = Granted(o.calls[1])
       /\ Open([call |-> "execute", caller |-> a, proposal |-> p, made |-> 1,
                allowance |-> o.calls[1],
                prj |-> [owner |-> owner', memberCount |-> memberCount',
                         stakeTotal |-> stakeTotal']])
       /\ UNCHANGED <<now, proposalCount, ballotVars>>

\* The called contract draws n of asset x from its allowance.
DrawAllowance(x, n) ==
    /\ Waiting("execute")
    /\ n \in 1 .. Top.allowance[x]
    /\ n <= vault[x]
    /\ stack' = [stack EXCEPT ![Len(stack)].allowance[x] = @ - n]
    /\ vault' = [vault EXCEPT ![x] = @ - n]
    /\ unspent' = [unspent EXCEPT ![x] = @ - n]
    /\ UNCHANGED <<now, metaVars, cfg, memberVars, treasury, locks, whitelist,
                   governanceVars, saved, debited>>

\* The called contract returns and the outcome has another one to call.
NextCall ==
    LET calls == proposals[Top.proposal].outcome.calls
        i == Top.made + 1
    IN /\ Waiting("execute")
       /\ i <= Len(calls)
       /\ Debit(Top.proposal, calls[i])
       /\ unspent' = Granted(calls[i])
       /\ stack' = [stack EXCEPT ![Len(stack)].made = i,
                                 ![Len(stack)].allowance = calls[i]]
       /\ UNCHANGED <<now, metaVars, cfg, memberVars, vault, locks, whitelist,
                      governanceVars, saved>>

\* Mutant: the project record is stored after the calls instead of before.
ProjectAfterCallsStale(prj) ==
    /\ owner' = prj.owner
    /\ memberCount' = prj.memberCount
    /\ stakeTotal' = prj.stakeTotal
\* Nothing the execution holds of the project is written after the calls.
ProjectAfterCalls(prj) == UNCHANGED <<owner, memberCount, stakeTotal>>

FinishExecute ==
    /\ Waiting("execute")
    /\ Top.made = Len(proposals[Top.proposal].outcome.calls)
    /\ ProjectAfterCalls(Top.prj)
    /\ Close
    /\ UNCHANGED <<now, paused, cfg, members, member, history, joinSeq, fundVars,
                   locks, whitelist, governanceVars, debited>>

-----------------------------------------------------------------------------
(* The other entry points, called directly or from a called contract       *)

\* An outcome without contract calls is executed in one step.
ExecuteAtOnce(a, p) ==
    LET o == proposals[p].outcome IN
    /\ o.calls = <<>>
    /\ ExecuteProposal(a, p, NoDraw)
    /\ debited' = [debited EXCEPT ![p] = [x \in Assets |-> @[x] + Spent(o, x)]]

ProjectEntry(a) ==
    \/ /\ MayCall(a, "project_leave")
       /\ RequestLeave(a) \/ FinishLeave(a)
    \/ /\ MayCall(a, "project_unstake")
       /\ FinishUnstake(a) \/ \E amount \in UnstakeAmounts : RequestUnstake(a, amount)
    \/ /\ MayCall(a, "project_funds")
       /\ \E batch \in Batches : AddFundsToStake(a, batch) \/ AddFundsToTreasury(batch)
    \/ /\ MayCall(a, "project_whitelist")
       /\ \E S \in AddressLists : WhitelistMembers(a, S) \/ RemoveWhitelistedMembers(a, S)
    \/ /\ MayCall(a, "project_transfer")
       /\ \E heir \in Heirs : TransferProjectOwnership(a, heir)
    \/ /\ MayCall(a, "project_pause")
       /\ \E pause \in PauseCalls : EmergencyPauseImmediate(a, pause)

ProposalEntry(a) ==
    \/ /\ MayCall(a, "proposal_create")
       /\ a \in Proposers
       /\ \E o \in Outcomes, form \in Forms, d \in Durations : CreateProposal(a, o, form, d)
    \/ \E p \in ProposalIds :
         \/ /\ MayCall(a, "proposals_vote")
            /\ \E choices \in ChoiceSets : VoteProposal(a, p, choices)
         \/ MayCall(a, "proposal_tally") /\ TallyProposal(p)
         \/ MayCall(a, "proposal_cancel") /\ CancelProposal(a, p)

\* Any call that fails fails the transaction, with all its frames.
Abort ==
    /\ ~Idle
    /\ stack' = <<>> /\ saved' = NoTransaction /\ debited' = saved.debited
    /\ owner' = saved.owner /\ paused' = saved.paused /\ cfg' = saved.cfg
    /\ members' = saved.members /\ member' = saved.member
    /\ history' = saved.history /\ joinSeq' = saved.joinSeq
    /\ memberCount' = saved.memberCount /\ stakeTotal' = saved.stakeTotal
    /\ treasury' = saved.treasury /\ vault' = saved.vault /\ unspent' = saved.unspent
    /\ locks' = saved.locks /\ whitelist' = saved.whitelist
    /\ proposalCount' = saved.proposalCount /\ proposals' = saved.proposals
    /\ options' = saved.options /\ ballots' = saved.ballots
    /\ UNCHANGED now

CallbackInit ==
    /\ GovernanceInit
    /\ stack = <<>>
    /\ saved = NoTransaction
    /\ debited = [p \in ProposalIds |-> NoDraw]

CallbackNext ==
    \/ \E a \in Accounts :
         \/ BeginJoin(a)
         \/ ProjectEntry(a) /\ UNCHANGED <<governanceVars, callVars, debited>>
         \/ ProposalEntry(a) /\ UNCHANGED <<callVars, debited>>
         \/ \E p \in ProposalIds :
              \/ BeginExecute(a, p)
              \/ /\ MayCall(a, "proposal_execute")
                 /\ ExecuteAtOnce(a, p)
                 /\ UNCHANGED callVars
    \/ \E d \in Deposits : FinishJoin(d)
    \/ \E x \in Assets, n \in 1 .. MaxHolding : DrawAllowance(x, n)
    \/ NextCall
    \/ FinishExecute
    \/ Abort
    \/ Idle /\ Tick /\ UNCHANGED <<governanceVars, callVars, debited>>

CallbackSpec == CallbackInit /\ [][CallbackNext]_allVars

-----------------------------------------------------------------------------
(* Properties                                                              *)

OpenExecutions(p) ==
    {i \in DOMAIN stack : stack[i].call = "execute" /\ stack[i].proposal = p}

\* Whatever the called contracts do meanwhile, a proposal takes its payouts and
\* allowances from the treasury once: never more, nothing before it is
\* executed, and all of it by the time its execution has returned.
DebitedOnce ==
    \A p \in ProposalIds, x \in Assets :
        LET q == proposals[p] IN
        /\ debited[p][x] <= Spent(q.outcome, x)
        /\ q.state = "executed" /\ OpenExecutions(p) = {} =>
               debited[p][x] = Spent(q.outcome, x)

\* An approval admits one join: in a project that has been whitelist-only since
\* its creation no member still holds one, also when the list was edited while
\* the NFT contract was being asked.
ApprovalsPending ==
    cfg["whitelistOnly"] = 1 => whitelist \cap members = {}
=============================================================================
