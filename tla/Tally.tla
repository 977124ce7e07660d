------------------------------- MODULE Tally -------------------------------
(***************************************************************************)
(* The arithmetic of TallyProposal (contract/proposals.go) and of the      *)
(* historical-stake lookup a stake-weighted ballot uses                    *)
(* (contract/state_stake_history.go), as operators without state.          *)
(*                                                                         *)
(* Percentages are integers out of FullPercent: FullPercent = 100 gives    *)
(* whole percents, 100000 gives the thousandths of the 50.001 defaults.    *)
(* The code computes with float64; here the quotients are exact.           *)
(***************************************************************************)
EXTENDS Integers, Sequences

CONSTANTS
    FullPercent,   \* the integer that stands for 100 percent
    AmountScale    \* base units per token, and per democratic vote

ASSUME TallyConstants == /\ FullPercent \in Nat \ {0}
                         /\ AmountScale \in Nat \ {0}

\* The slot of the default [no, yes] ballot whose win executes the outcome.
ApproveOptionIndex == 1

(***************************************************************************)
(* Option i leads when it has weight, nothing outweighs it, and every      *)
(* option that equals it comes later: the scan keeps the first maximum.    *)
(***************************************************************************)
IsLeading(w, i) ==
    /\ w[i] > 0
    /\ \A j \in DOMAIN w : w[j] < w[i] \/ (w[j] = w[i] /\ i <= j)

\* Mutant: the scan compares with ">=", so the last maximum wins.
IsLeadingLast(w, i) ==
    /\ w[i] > 0
    /\ \A j \in DOMAIN w : w[j] < w[i] \/ (w[j] = w[i] /\ j <= i)

LeadingLast(w) ==
    IF \E i \in DOMAIN w : IsLeadingLast(w, i)
    THEN CHOOSE i \in DOMAIN w : IsLeadingLast(w, i)
    ELSE -1

\* The winning option of the weights w, -1 when no option has any weight.
LeadingOption(w) ==
    IF \E i \in DOMAIN w : IsLeading(w, i)
    THEN CHOOSE i \in DOMAIN w : IsLeading(w, i)
    ELSE -1

\* Distinct voters a tally requires: a percentage of the members, rounded up.
QuorumNeeded(memberSnap, pct) ==
    (memberSnap * pct + FullPercent - 1) \div FullPercent

\* Whether weight is at least the pct share of denom; nothing is of zero.
ThresholdMet(weight, denom, pct) ==
    denom > 0 /\ weight * FullPercent >= pct * denom

(***************************************************************************)
(* getStakeAtTime: the stake of the newest history entry that is not       *)
(* stamped after t, searching from the current entry down; 0 when every    *)
(* entry is later.                                                         *)
(***************************************************************************)
IsNewestAt(h, t, i) ==
    /\ h[i].time <= t
    /\ \A j \in DOMAIN h : j > i => h[j].time > t

StakeAtTime(h, t) ==
    IF \E i \in DOMAIN h : IsNewestAt(h, t, i)
    THEN h[CHOOSE i \in DOMAIN h : IsNewestAt(h, t, i)].stake
    ELSE 0
=============================================================================
