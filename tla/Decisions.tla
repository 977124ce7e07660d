----------------------------- MODULE Decisions -----------------------------
(***************************************************************************)
(* What the proposals of a project promise its members, whatever the       *)
(* contract stores to keep the promise:                                    *)
(*                                                                         *)
(*   - who may vote is fixed when a proposal opens; later the roll only    *)
(*     loses those who have not voted;                                     *)
(*   - the box holds one receipt per voter, of somebody on the roll, and   *)
(*     is sealed by the decision;                                          *)
(*   - a binding proposal passes only if the receipts give the approving   *)
(*     option more weight than any other, and a poll never passes;         *)
(*   - a passed proposal is carried out at most once, and a proposal that  *)
(*     was rejected, withdrawn, advisory or carried out is finished.       *)
(***************************************************************************)
EXTENDS Integers, FiniteSets, Functions

CONSTANTS
    Accounts,  \* who may be on a roll
    Ids,       \* proposal ids
    Options,   \* the options of a ballot
    Approval   \* the option whose win passes a proposal

VARIABLES
    phase,    \* where each proposal is in its life
    binding,  \* FALSE for a poll
    roll,     \* who may vote on it, or has voted
    box       \* the receipts

decisionVars == <<phase, binding, roll, box>>

NoReceipt == [choices |-> {}, weight |-> 0]
EmptyBox  == [a \in Accounts |-> NoReceipt]

Voted(p) == {a \in Accounts : box[p][a].choices # {}}

Weight(p, option) ==
    SumFunctionOnSet([a \in Accounts |-> box[p][a].weight],
                     {a \in Accounts : option \in box[p][a].choices})

HasMandate(p) ==
    /\ binding[p]
    /\ \A option \in Options \ {Approval} : Weight(p, Approval) > Weight(p, option)

\* Some of those on a roll who have not voted drop off it.
Shrunk(rolls) ==
    /\ rolls \in [Ids -> SUBSET Accounts]
    /\ \A p \in Ids : Voted(p) \subseteq rolls[p] /\ rolls[p] \subseteq roll[p]

Moves(p, from, to) ==
    /\ phase[p] = from
    /\ phase' = [phase EXCEPT ![p] = to]

Submit(p, poll, voters) ==
    /\ Moves(p, "none", "open")
    /\ binding' = [binding EXCEPT ![p] = ~poll]
    /\ roll' = [roll EXCEPT ![p] = voters]
    /\ UNCHANGED box

Cast(p, a, receipt) ==
    /\ phase[p] = "open"
    /\ a \in roll[p]
    /\ receipt.choices # {}
    /\ box' = [box EXCEPT ![p][a] = receipt]
    /\ UNCHANGED <<phase, binding, roll>>

Decide(p) ==
    /\ \/ Moves(p, "open", "passed") /\ HasMandate(p)
       \/ Moves(p, "open", "advised") /\ ~binding[p]
       \/ Moves(p, "open", "rejected")
    /\ UNCHANGED <<binding, roll, box>>

Withdraw(p) ==
    /\ Moves(p, "open", "withdrawn")
    /\ UNCHANGED <<binding, roll, box>>

\* Carrying out a proposal may remove members, and so may members leave.
CarryOut(p) ==
    /\ Moves(p, "passed", "done")
    /\ Shrunk(roll')
    /\ UNCHANGED <<binding, box>>

Depart ==
    /\ Shrunk(roll')
    /\ UNCHANGED <<phase, binding, box>>

DecisionInit ==
    /\ phase = [p \in Ids |-> "none"]
    /\ binding = [p \in Ids |-> TRUE]
    /\ roll = [p \in Ids |-> {}]
    /\ box = [p \in Ids |-> EmptyBox]

DecisionNext ==
    \/ \E p \in Ids :
         \/ \E poll \in BOOLEAN : Submit(p, poll, roll'[p])
         \/ \E a \in Accounts : Cast(p, a, box'[p][a])
         \/ Decide(p)
         \/ Withdraw(p)
         \/ CarryOut(p)
    \/ Depart

DecisionSpec == DecisionInit /\ [][DecisionNext]_decisionVars
=============================================================================
