---------------------------- MODULE MCCallbacks ----------------------------
(***************************************************************************)
(* Instances of Callbacks: what the called contracts do, and the outcomes  *)
(* that call them.                                                         *)
(***************************************************************************)
EXTENDS Callbacks, TLC

CONSTANTS f, a, none, hive

InviteConfig == [threshold |-> 50, quorum |-> 50, duration |-> 1, execDelay |-> 0,
                 cooldown |-> 1, cost |-> 0, membersOnly |-> 1, whitelistOnly |-> 1]
OpenConfig   == [InviteConfig EXCEPT !.whitelistOnly = 0]

One         == [x \in Assets |-> 1]
CallsTwice  == [NoOutcome EXCEPT !.calls = <<One, One>>]
Invites     == [NoOutcome EXCEPT !.whitelistAdd = {a}]

CallsAndInvites == {CallsTwice, Invites}
NothingAsked    == {}
OneBatch        == {One}
Ballot          == {[options |-> 2, poll |-> FALSE]}

\* A contract asked about an NFT does not join, whatever an outcome's does.
NoJoinWhileJoining == [call \in {"join", "execute"} |->
    IF call = "join" THEN Entries \ {"project_join"} ELSE Entries]
AnyUse == [call \in {"join", "execute"} |-> Entries]
=============================================================================
