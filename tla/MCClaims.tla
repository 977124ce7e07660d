----------------------------- MODULE MCClaims ------------------------------
(***************************************************************************)
(* What comments and documents of the repository say of proposals and the  *)
(* code does not do.  Each run checks one statement and finds the history  *)
(* of calls that refutes it.                                               *)
(***************************************************************************)
EXTENDS MCGovernance

\* "Stake stays put until every proposal this member voted on has been
\* decided": until p is tallied or cancelled, a voter that stays a member
\* holds at least the stake its ballot was counted with.  The code only holds
\* it until the deadline, and the tally needs a transaction of its own.
StakeStaysUntilDecided ==
    \A p \in ProposalIds : proposals[p].state = "active" =>
        \A voter \in Voters(p) \cap Electorate(p) :
            member[voter].stake >= ballots[p][voter].weight

\* No and yes weigh the same, and each of them would carry the vote.
Tied(p) ==
    LET q == proposals[p] IN
    /\ q.optionCount = 2
    /\ options[p][0].weight = options[p][1].weight
    /\ q.voterCount >= QuorumNeeded(q.memberSnap, cfg["quorum"])
    /\ ThresholdMet(options[p][1].weight, q.memberSnap * AmountScale, cfg["threshold"])

\* "On a tie between options the higher index wins; for the default [no, yes]
\* ballot that means a tie approves": a tied ballot is never decided as failed.
TieApproves ==
    \A p \in ProposalIds : Tied(p) => proposals[p].state # "failed"
=============================================================================
