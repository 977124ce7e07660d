--------------------------- MODULE MCGovernance ----------------------------
(***************************************************************************)
(* Instances of Governance: the configurations and outcomes the runs use.  *)
(***************************************************************************)
EXTENDS GovernanceDecisions, TLC

CONSTANTS f, a, b, none, hive

BaseConfig == [threshold |-> 50, quorum |-> 50, duration |-> 1, execDelay |-> 0,
               cooldown |-> 1, cost |-> 0, membersOnly |-> 1, whitelistOnly |-> 0]
RecoveryConfig == [BaseConfig EXCEPT !.cost = 1, !.membersOnly = 0]

LongVoteConfig == [BaseConfig EXCEPT !.duration = 2]

Payout(who, n)  == [NoOutcome EXCEPT !.payout[who] = [x \in Assets |-> n]]
Kick(K)         == [NoOutcome EXCEPT !.kick = K]
NewOwner(who)   == [NoOutcome EXCEPT !.newOwner = who]
Settings(u)     == [NoOutcome EXCEPT !.update = u]
RemoveOwner     == [NoOutcome EXCEPT !.removeOwner = TRUE]
TogglePause     == [NoOutcome EXCEPT !.togglePause = TRUE]
Call(n)         == [NoOutcome EXCEPT !.calls = <<[x \in Assets |-> n]>>]

PayoutsAndKicks == {Payout(a, 1), Kick({a})}
NothingToDo     == {NoOutcome}
Recoveries      == {TogglePause, NewOwner(a), RemoveOwner,
                    [Call(1) EXCEPT !.kick = {f}, !.newOwner = a,
                                    !.update = [execDelay |-> 1, whitelistOnly |-> 1],
                                    !.whitelistAdd = {a, f}, !.whitelistRemove = {a}]}

Batch(n)     == [x \in Assets |-> n]
OneBatch     == {Batch(1)}
NoBatches    == {}

Ballot       == {[options |-> 2, poll |-> FALSE]}
BallotOrPoll == Ballot \cup {[options |-> 2, poll |-> TRUE], [options |-> 3, poll |-> TRUE]}
NoOrYes      == {{0}, {1}}
OneOrTwo     == {S \in SUBSET OptionIds : Cardinality(S) \in 1 .. 2 /\ S # {0, 2}}
=============================================================================
