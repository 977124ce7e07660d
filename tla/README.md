# Okinoko DAO in TLA+

Specifications, model checks and proofs for the Go contract in `contract/`
of the Okinoko DAO repository. Paths such as `projects.go:435` are lines of
`src/contract/projects.go` unless another directory is named.

* [The system](#the-system): components, state, operations, interactions
* [What is hard here](#what-is-hard-here)
* [The modules](#the-modules): how the models correspond to the code
* [The runs](#the-runs): what TLC checks, with which bounds
* [The theorems](#the-theorems): what TLAPS proves, from what and how
* [What the checks found](#what-the-checks-found)
* [What is not modelled](#what-is-not-modelled)
* [Plan](#plan)

## The system

One WASM contract hosts many *projects* (DAOs). Accounts join a project by
staking a fixed asset, submit proposals, vote on them, and whoever calls last
tallies and executes. All state is in the host's key-value store; all money is
on the host's ledger, which credits the contract and lets it draw a caller's
tokens (`HiveDraw`), pay out (`HiveTransfer`) and hand allowances to other
contracts (`ContractCall` with a `transfer.allow` intent).

| component | code | state | operations |
|---|---|---|---|
| Membership and stakes | `projects.go:135-470, 552-625`, `state_members.go`, `state_stake_history.go` | member record (stake, join sequence, exit request, pending unstake, vote lock), stake history, member count, stake total, join counter | join, two-phase leave, two-phase partial unstake, top-up |
| Treasury | `projects.go:552-625`, `state_treasury.go`, `proposals.go:330-345, 620-680, 741-755` | balance per asset | donate, pay out, fund a contract call, charge and refund a proposal cost |
| Payout locks | `state_payouts.go`, `proposals.go:140-150, 258-266, 351` | counter per address | taken by the tally that passes a payout, released by its execution |
| Whitelist | `whitelist.go`, `state_whitelist.go`, `projects.go:238-283` | pending approvals | add, remove, consume by joining |
| Owner powers | `projects.go:691-770` | owner, pause switch | transfer, emergency pause, whitelist edits |
| Proposal life cycle | `proposals.go`, `state_proposals.go` | proposal record with the electorate snapshot | create, tally, execute, cancel |
| Voting | `votes.go` | receipts, running totals per option, voter count, vote locks | vote, change a vote |
| Tally arithmetic | `proposals.go:178-278`, `state_stake_history.go` | none | winner, quorum, threshold, stake at a time |
| Callbacks | `projects.go:135-232, 473-550`, `proposals.go:316-324, 581-677`, `context.go:111-138` | the calls open in a transaction, and what each holds | the membership NFT contract and the contracts an outcome calls may call back as the signer |
| Registry | `main.go`, `state_contract.go`, `projects.go:20-133` | contract owner, creation permission, project counter | `contract_init`, `project_create` |
| Codec and keys | `codec.go`, `state_keys.go`, `votes.go:33-83`, `state_stake_history.go` | the key-value store | encode and save, load and decode, delete |
| Payloads, events, SDK | `payload.go`, `events.go`, `utils.go`, `sdk/`, `runtime/` | none | decode arguments, write log lines |

How they interact:

* A **tally** copies nothing live: the quorum and threshold denominators are the
  member count, the stake total and the join counter *as they were when the
  proposal was created* (`memberSnap`, `stakeSnap`, `joinSnap`). The percentages
  it compares with are those *configured now*.
* A **ballot** of a stake-weighted project weighs the voter's stake at the
  creation time of the proposal, found in the stake history, capped by the stake
  held now. Voting writes into the member record: it holds the stake until the
  deadline and re-arms a requested exit.
* A **passed payout** locks its payees: they can neither leave nor be kicked
  before the execution, so that the payout reaches a member.
* An **execution** writes every other component in one transaction: treasury,
  locks, members (kicks refund the whole stake), owner, pause switch, settings,
  whitelist, and other contracts.
* The **pause switch** guards joining, leaving, stake changes, and every proposal
  except pause and ownership recoveries.

What makes each part correct:

* membership: the stored aggregates are those of the records; a refund is always
  covered; the minimum stake is kept; an exit is never older than a top-up; the
  history ends with the stake held;
* treasury: what the host holds is what the contract owes, per asset; funds leave
  by a decision and once;
* locks: an account's counter is the number of passed, unexecuted payouts to it,
  and a locked member stays;
* owner: always a member, or none;
* pause: no stake and no member moves while paused;
* voting: the running totals are the totals of the receipts; voters and those who
  still can vote never outnumber the snapshot; ballots do not outweigh it; a
  voter does not take its stake away before the deadline;
* life cycle: what passes was approved by its receipts;
* callbacks: whatever is called meanwhile, an outcome is paid once, an approval
  admits once, and the aggregates stay those of the records;
* progress: votes get decided, recoveries go through, payees and leavers are freed;
* storage: what was saved is what is loaded, also from an older version's record.

## What is hard here

Nothing runs in parallel: the chain executes one transaction at a time, and an
aborted one leaves no trace. The difficulty is in *sequences of legal calls by
different accounts*, many of which share one block timestamp:

* **Same-block order.** Before and after cannot be told by time inside a block,
  which is why the code has a join counter and stamps stake changes one second
  ahead.
* **Two-phase withdrawals.** Arm an exit or an unstake, wait, and complete it much
  later, with top-ups, votes, kicks and settings changes in between.
* **Copies that age.** Snapshots, running totals, the amount of a pending unstake,
  the cost paid, the execution time stored by the tally.
* **Locks across transactions**, released by somebody else's call, after the payee
  may have been proposed for removal.
* **Many directives in one outcome**, applied in a fixed order, all or nothing. Their
  values are looked at by the execution only, when nothing can be withdrawn any more.
* **Calls into other contracts** that call back before they return, as the signer
  of the transaction: the caller still holds what it read before.
* **Nothing happens by itself.** A tally, an execution and the second half of an
  exit each wait for somebody to call.
* **Two lists of fields per record**, the encoder's and the decoder's, and records
  that earlier versions left behind.

`PROJECT.json` lists each hazard at the line where it bites, with the property
that would catch it.

## The modules

```
Tally            arithmetic of a tally, lookup in the stake history
Project          one project without proposals; every membership entry point
    Governance   proposals and ballots over the state of Project
        GovernanceDecisions      Governance implements Decisions (abstract)
        Callbacks                Governance, and contracts that call it back
        Progress                 Governance under fairness
      MCGovernance, MCClaims, MCCallbacks, MCProgress    instances for TLC
    MCProject                    instance for TLC

Decisions        abstract: what the proposals of a project promise
Storage          keys, encoders and decoders; MCStorage is its instance

Sums                       lemmas on sums over finite sets
  ProjectSafety            types and inductive invariant of Project
    GovernanceProofs       type correctness of Governance
      GovernanceSafety     inductive invariant of Governance
        BallotSafety       receipts, totals and the weight of ballots
          DecisionsSafety  Governance implements Decisions
        CallbacksSafety    inductive invariant of Callbacks
StorageSafety              keys, and what every decoder makes of every record
```

### Conventions

One action is one committed transaction, the whole handler. A call that the code
aborts leaves no trace, so the abort is a guard that does not hold. `Tick` is the
next block: any number of transactions share one `now`. A timestamp of 0 means
"not set", as in the code.

Definitions carry the names of the Go functions where those are functions of
their own: `JoinProject`, `AddFundsToStake`, `CreateProject`... A definition that
starts with the comment `Mutant:` is never used by a specification: it is the form
a plausible bug would give the definition after it, and each property of a passing
run is known to catch one.

### Project

| variable | stored as |
|---|---|
| `members`, `member` | the member records: an account is in `members` when its key exists |
| `history` | the stake history of each member; index is `StakeIncrement` + 1 |
| `memberCount`, `stakeTotal`, `joinSeq` | `ProjectFinance.MemberCount`, `.StakeTotal` and the join counter |
| `owner`, `paused` | `ProjectMeta` |
| `cfg` | `ProjectConfig`, the settings a proposal can change |
| `treasury` | the treasury keys |
| `locks`, `whitelist` | payout lock and whitelist keys |
| `vault`, `unspent` | external: what the host ledger credits the contract with, and allowances that left the treasury and were not drawn |
| `now` | external: the block timestamp |

| action | code |
|---|---|
| `JoinProject` | `JoinProject`; the NFT gate can only refuse |
| `RequestLeave`, `FinishLeave` | the two calls of `LeaveProject` |
| `RequestUnstake`, `FinishUnstake` | the two calls of `UnstakeProject` |
| `AddFundsToTreasury`, `AddFundsToStake` | `AddFunds` without and with the stake flag |
| `WhitelistMembers`, `RemoveWhitelistedMembers` | the owner's direct whitelist edits |
| `TransferProjectOwnership`, `EmergencyPauseImmediate` | same names |
| `ProjectInit` | what `CreateProject` leaves behind |

### Governance

`proposals` is the proposal record, `options` the stored running totals per
option, `ballots` the vote receipts. `CreateProposal`, `VoteProposal`,
`TallyProposal`, `ExecuteProposal` and `CancelProposal` are the entry points of
those names. An *outcome* is a record of all directives a proposal can carry
(payouts, contract calls, `kick_member`, `update_owner`, `remove_owner`,
`toggle_pause`, the settings, both whitelist lists); a neutral value is an absent
directive. `unusable` holds the directives whose value no execution accepts: an empty
or overlong list, a number that does not parse, a malformed id. The parser lets them
through (`payload.go:374-423` checks keys only) and the execution aborts on them, so
such an outcome can pass and never be executed. `ExecuteProposal` follows the order of the code: payouts, release of
the locks, directives in the order of their sorted keys (so `kick_member` before
`update_owner`, and `whitelist_add` before `whitelist_remove`), contract calls.

### Callbacks

A call that waits for an external contract is a *frame* on `stack`; the frame holds
what the Go function has in its local variables at that point. `BeginJoin` is
`JoinProject` up to `checkNFTMembership` and keeps the approval and the
whitelist flag; `FinishJoin` is the rest, on freshly read aggregates.
`BeginExecute` is `ExecuteProposal` up to its first `sdk.ContractCall`,
`DrawAllowance` what the callee does with the allowance, `NextCall` the next turn
of the loop, `FinishExecute` the return. While a frame is open every entry point
(`ProjectEntry`, `ProposalEntry`, another join or execution) can be used, but only
as the signer, since `getActorAddress` is `msg.sender`. `Abort` unwinds all frames:
`saved` is the state the transaction began in. `Uses` says which entry points a
contract uses during a join and during an execution, `MaxDepth` how many frames
may be open; the clock stands still inside a transaction.

`debited` is a history variable: what each proposal has taken from the treasury.

### Decisions and the refinement

`Decisions` says what members are promised without naming how it is kept: a *roll*
per proposal that is fixed when it opens and later only loses those who have not
voted, a *box* of one receipt per voter that is sealed by the decision, a mandate
read from the receipts, and a life that passes each phase once.
`GovernanceDecisions` maps the records to it: the phase is the proposal state, the
box the receipts, and the roll the voters together with the members whose join
sequence is below the snapshot. `ImplementsDecisions` is a PROPERTY of two runs:
every call is a step of `Decisions` or leaves it unchanged. It ties the join
sequences, the totals a tally reads and the state guards together: a joiner that
could vote, a total that differs from its receipts, a ballot after the decision
or a second execution would not map to any step.

### Progress

The actions are those of `Governance`; the specification adds fairness (below) and
one restriction: the creator of a recovery does not withdraw it.

### Storage

`encodeMember`, `EncodeProposal`, ... are the fields each encoder writes,
`decodeMember`, `DecodeProposal`, ... what each decoder expects, translated
separately from the two halves of `codec.go`. A stored record is the sequence of
its fields without knowledge of the names; `ReadField` takes the next one under
the name the decoder expects, with a count or a presence flag inserting the reads
of its entries; `ReadPastEnd` is the `r.pos < len(r.data)` test. The initial store
may hold a record of an older version, which is today's record ending after any
field. Keys are the prefix byte, numbers of 32 and 64 bits byte by byte, the lowest
first, and the address or asset, a string of bytes of any length.

### Abstractions

* **Amounts and percentages** are integers, and quotients are exact. The code
  computes percentages with `float64`, and rounds up: `percentageOf(100, 7)` is 8
  there and 7 here. Widths (`int64` thousandths) are not modelled.
* **Accounts and assets** are model values; names, texts, URLs, and the settings
  that are only text are left out.
* **Intents of one asset** in an `AddFunds` call are summed: their history entries
  carry one timestamp, and a lookup sees the last one.
* **`JoinedAt` and `LastActionAt`** are written and never read, and left out.
* **Called contracts** only draw some of their allowance in `Governance`; in
  `Callbacks` they also use the entry points of the DAO.
* **A directive that changes a setting** is its validation and the
  assignment; log events are left out.

## The runs

Bounds are named constants in the guards: `MaxTime` (blocks), `MaxHolding` (what
the contract holds of one asset), `MaxJoinSeq`, `MaxHistory`, `MaxProposals`,
`MaxOptions`. Deadlock checking is off because the model stops where the clock
does; the program has no stop.

| run | instance | question |
|---|---|---|
| `project_membership` | `MCProject.cfg`: founder and two interchangeable joiners, two assets, stake-weighted, whitelist-only, one-hour cooldown, four blocks, no proposals | do the books stay exact under all membership calls? |
| `democratic_payouts_kicks` | `MCDemocratic.cfg`: founder and one member, two proposals, each a payout to the member or its kick | locks, the electorate and the treasury when a payout and a kick of one member overlap and the member leaves and rejoins |
| `stake_votes_polls` | `MCStakeVotes.cfg`: stake-weighted, deposits of 1 and 2, top-ups, up to three options, polls, changed ballots | do the running totals, the weight bound and the verdict agree with the receipts? |
| `unstake_while_voting` | `MCUnstake.cfg`: two-hour vote, one-hour cooldown, four blocks | can stake leave under a running ballot? |
| `ownership_and_pause_recovery` | `MCRecovery.cfg`: proposal cost 1, owner pauses, transfers and cancels; outcomes toggle the pause, name or remove the owner, or call a contract, kick, rename, reconfigure and edit the whitelist at once | does any of it break the ledger, the owner or the pause? |
| `callbacks_from_called_contracts` | `MCCallbacks.cfg`: a whitelist-only, NFT-gated project; outcomes that invite, or call two contracts; the contracts join, leave, unstake, top up, donate, edit the list, hand over or pause the project, execute another proposal or abort, two frames deep; the NFT contract does all but join | are the books, the debits and the approvals right although calls nest? |
| `progress_despite_the_owner` | `MCProgress.cfg`: an owner that pauses, unpauses, transfers and cancels, one other member; recoveries, and payouts the treasury covers or not, alone or with a kick of the founder, a new owner, unacceptable values or a contract call | does what must happen happen, under the fairness below? |
| `records_and_keys` | `MCStorage.cfg`: 40 records of all eleven kinds, two stored at a time, ids that differ in two bytes, addresses of which one begins with the other, lists up to and beyond limits of two | is everything saved found, and read back as it was meant? |
| `nested_join` | `MCJoinTwice.cfg`: free membership, an NFT contract that joins | a finding |
| `unstake_in_the_block_of_a_proposal` | `MCUnstakeSameBlock.cfg` | a finding, see below |
| `stake_held_until_decided` | `MCStakeHeld.cfg` | a finding |
| `tie_approves` | `MCTie.cfg` | a finding |

Why the bounds are enough for what the runs ask:

* *Accounts.* Every rule of the contract relates a caller to at most one other
  account (owner, payee, kicked member). Two accounts reach every pair;
  `project_membership` has a third to tell sums of stakes apart.
* *Proposals.* Proposals touch each other only through the lock counters, the
  member records and the settings: two reach a payout tallied before, between
  and after the two steps of a kick. The theorems cover any number.
* *Time.* With one-hour cooldowns and votes four blocks hold arming, voting, the
  deadline and completing in every order, and several calls per block; the
  unstake run makes the vote longer than the cooldown, the order in which a
  served cooldown could free a voting stake.
* *Joining.* `MaxJoinSeq` 3 lets one account leave and come back.
* *Amounts.* Deposits of 1 and 2 with a minimum of 1 make a partial unstake
  acceptable and unacceptable; `MaxHolding` bounds what is ever drawn.
* *Frames.* Two open frames reach every pair of a waiting call and a call made
  meanwhile; a third would repeat one of the pairs below another frame. The NFT
  contract of the passing run does not join: the run `nested_join` shows what
  happens if it does (finding 3).
* *Records.* A key belongs to one record, so two records reach every collision;
  reading concerns one record at a time.

### Fairness

The safety runs assume none. `Progress` assumes weak fairness of

* `Block`: the chain produces blocks;
* `TallyProposal(p)` and `OpenExecution(p)`, by anybody: both entry points are open
  to every account, so one interested member that keeps trying is enough. An outcome
  with contract calls is the exception: only its creator may execute it
  (`proposals.go:300-306`), who need not care, and the contract it calls may fail.
  Nothing is assumed of such an execution;
* `Exit(a)`: an account that asked to leave repeats the call until it succeeds.

It is weak fairness, because a call that fails while the owner keeps pausing is
not owed anything by the chain: an owner that pauses and unpauses for ever may
defeat it, and the properties say so (`paused` is one of the outcomes of
`LocksAreReleased` and `ExitsComplete`). Nobody is assumed to vote, donate, pause
or unpause. `VotesAreDecided` and `RecoveriesGoThrough` hold against any owner,
since a tally and a recovery are not stopped by the pause. `InTime` restricts them
to proposals whose deadline and delay lie within the bounded clock.

What each property says is in the comment above it. The ones that carry most:

* `PayoutLocksExact`: lock counters equal the passed, unexecuted payouts, though
  they are maintained by increments in the tally and decrements in the execution.
* `ElectorateWithinSnapshot`: voters plus those who still can vote are no more
  than the members counted at creation. Leaving and rejoining changes the join
  sequence, kicked voters keep their receipt; both are in the run.
* `BallotsWithinSnapshot`: the ballots weigh no more than the denominator. Holds
  in `stake_votes_polls` (top-ups, no unstaking), fails with unstaking in the
  block of the proposal (finding 1).
* `BallotsBackedByStake`, `VotersStayUntilDeadline`: no vote-and-run.
* `LedgerBalanced`, `TreasuryMovesByDecision`: no token appears, disappears or is
  paid twice; the undrawn part of an allowance is what the contract holds and
  owes to nobody it knows.
* `PauseFreezesStake`, `OwnerIsMember`: whatever order recoveries come in.
* `ImplementsDecisions`: every history of calls is one of the abstract promise.
* `DebitedOnce`: a callee that executes the proposal again, or another, finds the
  terminal state committed; with the commit after the calls TLC finds the double
  debit.
* `LocksAreReleased`: a payee is paid and released, unless the project is paused or a
  proposal that owes it something is held up. What can hold it up is spelled out from
  the state (`HeldUp`) and not as the negated guard of the execution: a treasury that
  does not cover it; contract calls; values no execution accepts; the kick of the
  owner or of somebody another passed proposal pays; a new owner that is no member.
  The run has an outcome for each of these but the other payee, which takes a second
  proposal, and TLC finds a counterexample when any of them, or the pause, is left
  out of the property. It shows what a careless outcome costs: a passed proposal
  cannot be cancelled (`proposals.go:717`), so its payees can neither leave nor be
  kicked until what holds it up is gone. A malformed value never is, nor are two
  passed outcomes that each pay a member whom the other kicks.
* `RecoveriesGoThrough`: the members' escape hatch. Withdrawn by the owner, or
  stopped by its pause, it would fail.
* `SavedCanBeLoaded`: the limits of the payload parser and of the decoder agree; a
  proposal one of them accepted and the other refused could never be touched again.

## The theorems

The proofs hold for every value of the constants that satisfies the assumptions,
which say only what the code guarantees of them:

* `TallyConstants`: the percent scale and the vote scale are positive;
* `ProjectConstants`: finitely many accounts, the founder is one of them, the
  stake asset is an asset, amounts are natural numbers, an hour has seconds;
* `GovernanceConstants`: outcomes have the shape of an outcome, proposers are
  accounts, ballots have at least two options;
* `CallbackConstants`: `Uses` names entry points, the depth is a number; no proof
  needs more of them than the hypothesis `JoinsNotNested` below;
* `StorageConstants`: ids and numbers fit the 32 or 64 bits they are stored in, a
  record has the name or number its kind calls for, list lengths are numbers. The
  lengths of addresses and lists, and the two limits, are arbitrary.

The bounds are constants too, so the theorems hold for any of them: no history of
calls is too long, and no project too large.

`InitialConfigNormalised` (the founding settings are what `normalizeProjectConfig`
lets through) keeps the instances honest: TLC evaluates it in every run of
`Governance`. No proof cites it, and none assumes that `Assets` is finite.

| theorem | module | statement |
|---|---|---|
| `ProjectTyped` | `ProjectSafety` | type correctness of the membership component |
| `MembershipSafe`, `PauseFreezes` | | the membership component alone |
| `Typed` | `GovernanceProofs` | type correctness; no balance, aggregate or counter goes below zero |
| `FinanceSafe`, `LedgerSafe`, `OwnerSafe` | `GovernanceSafety` | `[]FinanceMatchesMembers`, `[]LedgerBalanced`, `[]OwnerIsMember` |
| `LocksSafe`, `ElectorateSafe` | | `[]PayoutLocksExact`, `[]ElectorateWithinSnapshot` |
| `MinimumSafe`, `HistorySafe`, `ExitsSafe` | | `[]StakesRespectMinimum`, `[]HistoryEndsAtStake`, `[]ExitArmedAfterTopUps` |
| `RefundsSafe` | | the accounting-error aborts of leaving and kicking cannot be reached |
| `PauseSafeguards`, `PayeesStay`, `TreasurySafe` | | the action properties `PauseFreezesStake`, `LockedMembersStay`, `TreasuryMovesByDecision` |
| `TotalsSafe`, `PassedSafe` | `BallotSafety` | `[]TotalsMatchReceipts`, `[]PassedWasApproved` |
| `BackingSafe`, `VotersStay` | | `[]BallotsBackedByStake`, and `VotersStayUntilDeadline` |
| `DemocraticBallotsBounded` | | `[]BallotsWithinSnapshot` if `~StakeVoting` |
| `StakeBallotsBounded` | | `[]BallotsWithinSnapshot` if `StakeVoting`, for histories with `CreatedSettled` |
| `Refinement` | `DecisionsSafety` | `Spec => ImplementsDecisions` |
| `CallbackTyped`, `CallbackLedgerSafe`, `DebitsSafe` | `CallbacksSafety` | `[]TypeOK`, `[]LedgerBalanced`, `[]DebitedOnce` although calls nest |
| `CallbackFinanceSafe` | | `[]FinanceMatchesMembers` if `JoinsNotNested` |
| `ApprovalsSafe` | | `[]ApprovalsPending` if `NeverClosedLater` |
| `RecordsApart` | `StorageSafety` | `[]RecordsStayApart` |
| `SavedLoads`, `MeaningsKept`, `NoDefaultRead` | | `[]SavedCanBeLoaded`, `[]FieldsKeepTheirMeaning`, `[]RulesReadNoDefault` |

Three theorems have a hypothesis, because without it the code does not keep the
property. What each leaves out:

* **`CreatedSettled`**: when a proposal is created, nobody has finished a partial
  unstake in the very same second. That is finding 1, which
  `unstake_in_the_block_of_a_proposal` shows. Proposals in the block of joins,
  top-ups, leaves and kicks, and partial unstakes in any other second, are
  covered. It is a condition on the history of calls, not a change of the model.
* **`JoinsNotNested`**: the membership NFT contract does not call `project_join`
  while it is asked about a join, nor through a proposal it executes. That is
  finding 3, which `nested_join` shows. It may do all else, and the contracts an
  outcome calls may join.
* **`NeverClosedLater`**: no outcome makes an open project whitelist-only. While a
  project is open, joining leaves an approval where it is (`projects.go:157-162`);
  a project that closes later has members with approvals. An approval that a
  whitelist-only project looks at is still used up by the join, which is
  what the theorem is about.

### The argument

**Governance.** `Inv == TypeOK /\ ProjectInv /\ PayoutLocksExact /\ ElectorateInv` is inductive
(theorem `Invariance`). What the invariant needs beyond the properties:

* **`MinimumKept`** is `StakesRespectMinimum` member by member. `FinishUnstake` does
  not look at the minimum, `RequestUnstake` did, in an earlier call: the property
  itself says that a pending amount leaves the minimum, and is inductive because a
  top-up clears it and nothing else lowers the stake or changes the minimum. The
  part about history entries is proved by appending (`RecordKeepsEntries`).
* **`GoodHistory`, `ExitAfter`** give the history of a member as order, last
  entry and armed exit, so that one lemma each covers appending.
* **`ElectorateInv`** adds to the electorate bound that the join counter is above
  every sequence handed out and above every snapshot: a joiner of any later call
  gets a sequence no existing proposal admits. This is what makes rejoining
  harmless, and without it the induction step of `JoinProject` fails.
* **`FinanceMatchesMembers`** is used to prove `RefundsSafe`: a stake is one term
  of the sum, hence no more than the total, and by `LedgerBalanced` no more than
  the vault.

`ExecuteProposal` is the long case: `RemoveMembers` subtracts the sum of the
kicked stakes, and the lock counter changes for all payees at once while exactly
one proposal leaves the passed set.

**Ballots.** `TotalsMatchReceipts` is inductive together with `Inv`: a changed
ballot takes its old weight off the options it chose and adds the new weight to
those it chooses, and the sum over the receipts does the same, option by option
(`OptionWithout`, `VoteTotals`). The other theorems need more:

* `PassedSafe`: **`FormKept`**, a proposal that is no poll has two options, and
  receipts choose options there are. A winner with weight then outweighs the only
  other one, and after the tally the receipts cannot change.
* `BackingSafe`, `VotersStay`: **`VotersBack`**, the vote lock in the member record
  lasts at least until the deadline of everything the member voted on. The
  property says nothing of the lock; without it the steps of leaving and
  unstaking cannot be proved.
* `DemocraticBallotsBounded`: **`OneVoteEach`**, and the electorate bound of `Inv`.
* `StakeBallotsBounded`: **`ClaimsWithin`**. Ballots that have been cast are not
  enough for an induction, since a vote adds one. The invariant bounds what
  every ballot may weigh *from now on*: a receipt counts with its weight if its
  voter cannot vote again, and a member that may vote counts with its stake at the
  creation time, voted or not. No step raises this sum: history entries are
  appended at later times, and a joiner has a sequence no existing proposal
  admits. It is within the snapshot at creation because no member then has more at
  stake on record than it holds, which is what `CreatedSettled` says.

**The refinement.** Each action is a step of `Decisions` on one proposal and leaves
the others alone. The roll only loses those who have not voted (`ElectorateInv`: a
joiner's sequence is above all snapshots); a tally computes from the totals
what `Decisions` reads from the box (`TotalsSafe`); what passes is a `[no, yes]`
ballot (`FormKept`).

**Callbacks.** In the middle of a transaction the state is one of `Governance`, and
so is the state an abort goes back to: `Saved` instantiates `Governance` a second
time on the fields of `saved`, and `CallbackInv` states the types and the ledger of
both. Steps of a nested entry point are steps of `Governance`, and the lemmas about
those serve here. The rest of `CallbackInv`:

* **`AllowancesHeld`**: what the contracts still waited for may draw, summed over
  all open frames, is within what was set aside (`unspent`). One frame is not
  enough, since a nested execution draws from the same holdings.
* **`DebitsExact`**: a waiting execution is the only one of its proposal, the
  proposal is already marked executed, and it has taken its payouts and the
  allowances of exactly the calls it has made. `DebitedOnce` follows.

`FinanceInv` adds that at most one join waits and that its caller is not yet a
member; `ApprovalsInv` that a join of a whitelist-only project will use up its
approval. Both also speak of the saved state.

**Keys.** All parts of a key before the address are of fixed width for a given
kind, and the prefix byte gives the kind: equal keys have equal prefixes, hence
equal numbers, hence equal rests (`CancelFirst`). That numbers of 32 and 64 bits
are equal if their bytes are is proved from quotients and remainders.

**Records.** A decoder and an encoder agree if the reads *take* the fields, one by
one under the same names, where a count inserts the reads of its entries. That
is a relation between fields left and reads left which every read preserves
(`Follows`); the reads take the fields if some such relation holds of them
(`Reads`), a coinductive definition that needs neither recursion nor induction to
compose: reads follow one another (`ReadsJoined`), repeat (`ReadsTimes`), and nest
under a count (`ReadsCounted`). `EncodedRead` shows it for every encoder and its
decoder. `StorageInv` says of a load in progress that the reads left take the
fields left or, in an older record, a longer sequence that begins with them.
`RulesReadNoDefault` holds because at or after every field that a rule depends on
its decoder has a compulsory one (`Covered`, `Compulsory`): a record that ends
before the former also ends before the latter, and is refused.

**Sums.** The aggregates are sums over finite sets, and the library's induction
theorems take an operator parameter that the installed provers cannot
instantiate. `Sums` avoids induction by minimal counterexample: strict inclusion is
well-founded on the subsets of a finite set, so if a fact failed for some subset,
it would fail for a minimal one, and removing an element of it gives the
contradiction. From this follow the sum over a union, of a changed function, and
the bounds used above. `ReadsTimes` argues the same way with the least count.

### Model-checked only

Every invariant, every action property and the refinement that a run expects to
hold are theorems. What TLC alone checks:

* the properties of `Progress`: liveness under fairness is out of the prover's
  reach;
* the four findings, which are counterexamples.

Induction over data is out of reach too; the one recursive definition the
properties rest on, the library's sum over a set, is dealt with by minimal
counterexample as said above.

## What the checks found

1. **Unstaking in the block of a proposal** (`projects.go:435`, run
   `unstake_in_the_block_of_a_proposal`). A completed partial unstake takes the
   amount off the stake total at once, and stamps the reduced stake one second
   later. A proposal created later in the same block has the reduced total as
   its denominator, while the lookup still finds the old stake. The cap by
   the stake held now hides this until the member tops up: then its ballot
   outweighs the denominator. The comment at `projects.go:431-432` says the
   offset keeps a same-block denominator unaffected.
2. **Stake is held until the deadline, not until the decision** (`projects.go:322`
   and `:409`; run `stake_held_until_decided`). The comment at `projects.go:318`
   says "until every proposal this member voted on has been decided"; the tally is
   a transaction of its own, after the deadline.
3. **A join inside a join** (`projects.go:149` and `:223`; run `nested_join`). The
   test for an existing member precedes the call to the NFT contract and is not
   repeated after it. When that contract makes the same account join, the member
   is stored once and counted twice, and the count, the denominator of quorum and
   threshold, never comes down again. The comment at `projects.go:216-222` calls
   the later, freshly read increment re-entrancy-safe.
4. **Ties** (`proposals.go:215`; run `tie_approves`). `readme.md:245` says the
   higher index wins and a tie approves; the code keeps the first maximum, so a
   tie fails, as the comment at `proposals.go:196-205` explains.

Smaller disagreements between documents and code, not given runs of their own:

* `readme.md:248` says only `toggle_pause` proposals are possible while paused;
  `proposals.go:781-797` also admits a single `update_owner` or `remove_owner`.
* `readme.md:182` lets a passed proposal be cancelled; `proposals.go:717` cancels
  only active ones.
* `projects.go:414-415` clamps the amount of a pending unstake because "StakeMin could
  have been raised", and `votes.go:144` tests a ballot's weight against the minimum
  because "it can get modified by proposals". It cannot: no directive of
  `proposals.go:361-578` and no other call writes `StakeMinAmt` after
  `CreateProject`, so `StakeMin` is a constant of the models. `StakesRespectMinimum`
  shows that the clamp and the test never apply: pending amounts leave the minimum,
  and every stake a ballot may be weighed by is at least the minimum. Should a
  directive for the minimum be added, it becomes a setting in `cfg`, the property no
  longer holds, and both places matter.
* `constants.go:77-90` describes locks taken when a proposal is created; they are
  taken by the tally (`proposals.go:145`, `258-266`).

## What is not modelled

* **Registry.** The models start after `contract_init` and `CreateProject`, with
  one project. `contract_init` is a one-shot write and the creation permission one
  comparison; a property of them would repeat the guard. Projects share no keys
  but the ledger: every key has the project id in it (`RecordsStayApart`).
* **Payload parsing.** The models begin with decoded arguments; the rules the
  parsers enforce are constraints on the inputs (`IsPayout`, `AreCalls`,
  `AreDirectives`, `PossibleForm`, `Normalised`, `Parsed`). Splitting, trimming and
  number syntax are left out.
* **Bytes of a field, and codecs nobody calls on chain** (`EncodeProject`, the
  `*Args` pairs, `codec.go:213-309, 742-789, 982-1102`): used by tests and tools.
  An outcome stored without its list of calls (`codec.go:678` says it would
  default) is never last in its record, so the next field would be read instead;
  `codec.go:562` says no such record exists, and the run has none.
* **Transaction cache** (`context.go`). No call reads a member after a contract it
  called has returned, so a copy another frame made stale is never used.
* **Text keys** (counters, `contract:cfg`). They begin with `c`, which is no prefix
  byte.
* **Events, SDK, runtime, devnet, builds.** Output, host bindings, generated code,
  tooling. The mock contract is modelled as far as `Callbacks` needs: drawing,
  calling an entry point again, delegating.
* **`float64` and `int64`.** See the abstractions.

## Plan

Done, in this order: `Tally`, `Project` with its run, `Governance` with its runs,
the documents' claims, type correctness, sums, the inductive invariants,
`Callbacks`, `Progress`, the abstract `Decisions` with its refinement, `Storage`;
then the proofs about receipts and totals, the weight of ballots, the vote lock,
the refinement, nested calls, keys and records.

Next, more proofs:

1. The other invariants of `Governance` while calls nest: `OwnerIsMember`,
   `PayoutLocksExact`, `ElectorateWithinSnapshot` and `TotalsMatchReceipts` under
   `CallbackSpec`. `CallbackInv` states types and ledger of the current and the
   saved state; these would join them.
2. `Tally`: at most one option leads, and a ballot for the leading option does not
   make a passing proposal fail.
3. The step invariants that liveness rests on: a proposal that is due stays
   decidable, a passed recovery stays executable, whatever the owner does.
