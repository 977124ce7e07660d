----------------------------- MODULE MCProgress -----------------------------
(***************************************************************************)
(* An instance of Progress: recoveries, and payouts alone and with other   *)
(* directives, against an owner that pauses, votes, cancels and transfers  *)
(* at will.                                                                *)
(***************************************************************************)
EXTENDS Progress, TLC

CONSTANTS f, a, none, hive

BaseConfig == [threshold |-> 50, quorum |-> 50, duration |-> 1, execDelay |-> 0,
               cooldown |-> 1, cost |-> 0, membersOnly |-> 1, whitelistOnly |-> 0]

Recoveries ==
    {[NoOutcome EXCEPT !.togglePause = TRUE],
     [NoOutcome EXCEPT !.newOwner = a],
     [NoOutcome EXCEPT !.removeOwner = TRUE]}

Pay(n) == [NoOutcome EXCEPT !.payout[a] = [x \in Assets |-> n]]

\* A payout the founding treasury covers or not, alone or with a directive that
\* may be refused, or with a contract call.
Payouts ==
    {Pay(1),
     Pay(2),
     [Pay(1) EXCEPT !.kick = {f}],
     [Pay(1) EXCEPT !.newOwner = a],
     [Pay(1) EXCEPT !.update = [k \in {"threshold"} |-> 0], !.unusable = {"whitelist_add"}],
     [Pay(1) EXCEPT !.calls = <<[x \in Assets |-> 0]>>]}

RecoveriesAndPayouts == Recoveries \cup Payouts

NoBatches == {}
Ballot    == {[options |-> 2, poll |-> FALSE]}
NoOrYes   == {{0}, {1}}
=============================================================================
