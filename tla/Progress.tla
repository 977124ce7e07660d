------------------------------ MODULE Progress ------------------------------
(***************************************************************************)
(* What must eventually happen to proposals, payout locks and exits.       *)
(*                                                                         *)
(* The contract has no scheduler: a tally, an execution and the second     *)
(* call of a leave are transactions that somebody has to sign.  Fairness   *)
(* says that who wants such a step keeps trying, and that blocks keep      *)
(* coming.  It is weak: a step somebody keeps disabling, as an owner that  *)
(* pauses again and again does, need not happen.  Nobody is assumed to     *)
(* vote, donate, pause or unpause, and the owner may do whatever it likes. *)
(* An outcome with contract calls may be executed by its creator only, and *)
(* a callee may always fail: nothing is assumed of such an execution.      *)
(*                                                                         *)
(* The one restriction: the creator of a recovery does not withdraw it.    *)
(***************************************************************************)
EXTENDS Governance

Recovery(p) == PauseSafe(proposals[p].outcome)

CancelUnlessRecovery(a, p) ==
    /\ Recovery(p) => a # proposals[p].creator
    /\ CancelProposal(a, p)

Block   == Tick /\ UNCHANGED governanceVars
Exit(a) == FinishLeave(a) /\ UNCHANGED governanceVars

Execution(p) ==
    \E a \in Accounts, drawn \in Draws(proposals[p].outcome) : ExecuteProposal(a, p, drawn)

\* Executions anybody may sign.
OpenExecution(p) == proposals[p].outcome.calls = <<>> /\ Execution(p)

ProgressNext ==
    \/ ProjectNext /\ UNCHANGED governanceVars
    \/ \E a \in Proposers, o \in Outcomes, form \in Forms, d \in Durations :
         CreateProposal(a, o, form, d)
    \/ \E a \in Accounts, p \in ProposalIds :
         \/ \E choices \in ChoiceSets : VoteProposal(a, p, choices)
         \/ CancelUnlessRecovery(a, p)
    \/ \E p \in ProposalIds : TallyProposal(p) \/ Execution(p)

Fairness ==
    /\ WF_vars(Block)
    /\ \A p \in ProposalIds : WF_vars(TallyProposal(p)) /\ WF_vars(OpenExecution(p))
    /\ \A a \in Accounts : WF_vars(Exit(a))

ProgressSpec == GovernanceInit /\ [][ProgressNext]_vars /\ Fairness

-----------------------------------------------------------------------------
(* Properties                                                              *)

\* The bounded clock reaches the end of the vote and of the delay after it.
InTime(p) == Deadline(proposals[p]) <= MaxTime /\ ReadyAt(proposals[p]) <= MaxTime

\* Every vote that ends is decided: a pause, members that leave or are kicked,
\* an owner that loses its role: nothing keeps a proposal active for good.
VotesAreDecided ==
    \A p \in ProposalIds :
        proposals[p].state = "active" /\ InTime(p) ~> proposals[p].state # "active"

\* The ballots as they stand, with nobody asked again, carry p.
Approving(p) == VotingOver(proposals[p]) /\ Verdict(p) = "passed"

\* The escape hatch of the members works against a hostile owner: a recovery
\* the ballots carry when its vote is over is executed, however the owner
\* pauses, cancels or transfers, unless the ballots change before the tally or
\* the owner it names has left.
RecoveriesGoThrough ==
    \A p \in ProposalIds :
        Recovery(p) /\ InTime(p) /\ (Approving(p) \/ proposals[p].state = "passed")
            ~> \/ proposals[p].state = "executed"
               \/ proposals[p].state \in {"active", "failed"} /\ Verdict(p) # "passed"
               \/ ~OwnerAllowed(proposals[p].outcome)

\* Directive values no execution accepts, whenever it is tried.
Malformed(o) ==
    \/ o.unusable # {}
    \/ \E k \in DOMAIN o.update : ~ValidSetting(k, o.update[k])

\* Directives the members of today refuse: removing the owner or somebody who
\* is promised another payout, or naming an owner that is not, or no longer, a
\* member.
AtOdds(p) ==
    LET o == proposals[p].outcome IN
    \/ HasOwner /\ owner \in o.kick
    \/ \E r \in ProposalIds \ {p} :
         proposals[r].state = "passed" /\ Payees(proposals[r].outcome) \cap o.kick \cap members # {}
    \/ o.newOwner # NoAccount /\ o.newOwner \notin members \ o.kick

\* A passed proposal that is not executed as it stands: the treasury does not
\* cover it, it waits for its creator and the contracts it calls, or one of its
\* directives is refused.
HeldUp(p) ==
    \/ \E x \in Assets : Spent(proposals[p].outcome, x) > treasury[x]
    \/ proposals[p].outcome.calls # <<>>
    \/ Malformed(proposals[p].outcome)
    \/ AtOdds(p)

Owes(p, a) == proposals[p].state = "passed" /\ a \in Payees(proposals[p].outcome)

\* A payee gets its money and its freedom to leave: its locks are all released,
\* unless the project is paused or a proposal that owes it something is held
\* up.  The exception is wide in the code: directive values are looked at by
\* the execution only, and a passed proposal cannot be cancelled, so one bad
\* directive beside a payout holds the payee until it becomes acceptable, and
\* for good if it is malformed.
LocksAreReleased ==
    \A a \in Accounts :
        locks[a] > 0 /\ (\A p \in ProposalIds : InTime(p))
            ~> \/ locks[a] = 0
               \/ paused
               \/ \E p \in ProposalIds : Owes(p, a) /\ HeldUp(p)

\* An exit whose cooldown, and every vote a voter may be held by, end in time.
ExitPending(a) ==
    /\ a \in members
    /\ member[a].exitRequested \in 1 .. MaxTime - cfg["cooldown"] * Hour
    /\ \A p \in ProposalIds : InTime(p)

\* A member that asked to leave and keeps trying gets out with its stake once
\* the cooldown and every vote it took part in are over, unless it votes or
\* tops up again, is made the owner, is promised a payout, or the project is
\* paused.
ExitsComplete ==
    \A a \in Accounts :
        ExitPending(a) ~> \/ a \notin members
                          \/ member[a].exitRequested = 0
                          \/ owner = a
                          \/ locks[a] > 0
                          \/ paused
=============================================================================
