----------------------------- MODULE MCProject -----------------------------
(***************************************************************************)
(* The membership entry points of one project on a small instance, under   *)
(* a fixed configuration and without proposals.                            *)
(***************************************************************************)
EXTENDS Project, TLC

CONSTANTS f, a, b, none, hive, hbd

MCConfig == [threshold |-> 50, quorum |-> 50, duration |-> 1, execDelay |-> 0,
             cooldown |-> 1, cost |-> 0, membersOnly |-> 1, whitelistOnly |-> 1]

Batch(x, n) == [y \in Assets |-> IF x = y THEN n ELSE 0]
MCBatches == {Batch(hive, 1), [y \in Assets |-> 1]}
MCAddressLists == {Accounts}
MCSymmetry == Permutations({a, b})
=============================================================================
