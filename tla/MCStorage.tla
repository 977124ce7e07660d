------------------------------ MODULE MCStorage -----------------------------
(***************************************************************************)
(* Instances of Storage: two ids, two addresses of which one begins with   *)
(* the other, two options and two stake increments.                        *)
(***************************************************************************)
EXTENDS Storage

Ids   == {1, 256}
Names == {<<9>>, <<9, 9>>}

Record(kinds, ns, names) ==
    [kind : kinds, id : Ids, n : ns, name : names]

AllRecords ==
    Record({"meta", "config", "finance", "proposal"}, {0}, {<<>>})
    \cup Record({"option"}, {0, 1}, {<<>>})
    \cup Record({"member", "lock", "whitelist", "treasury", "vote"}, {0}, Names)
    \cup Record({"history"}, {0, 1}, Names)

Bare == [nft |-> 0, outcome |-> 0, meta |-> 0, payouts |-> 0, calls |-> 0,
         assets |-> 0, choices |-> 1]

\* Up to one more entry than the limits allow.
SomeShapes ==
    {Bare,
     [Bare EXCEPT !.nft = 1, !.choices = 2],
     [Bare EXCEPT !.outcome = 1, !.payouts = 2, !.calls = 1, !.assets = 1],
     [Bare EXCEPT !.outcome = 1, !.meta = 1, !.calls = 2],
     [Bare EXCEPT !.outcome = 1, !.payouts = 3],
     [Bare EXCEPT !.outcome = 1, !.calls = 3]}
=============================================================================
