---------------------------- MODULE ProjectSafety ---------------------------
(***************************************************************************)
(* Type correctness and safety of the membership component for every value *)
(* of its constants: the aggregates are those of the member records, the   *)
(* host ledger covers what the contract owes, the owner is a member, and a *)
(* paused project keeps its members and their stakes.                      *)
(***************************************************************************)
EXTENDS Project, FiniteSetTheorems, Sums, TLAPS

-----------------------------------------------------------------------------
(* Type correctness of the project's state                                 *)

LEMMA SetOfMembersFinite ==
    ASSUME NEW S \in SUBSET Accounts
    PROVE  IsFiniteSet(S) /\ Cardinality(S) \in Nat
  BY FS_Subset, FS_CardinalityType, ProjectConstants DEF ProjectConstants

LEMMA ProjectInitTyped == ProjectInit => ProjectTypeOK
  <1> SUFFICES ASSUME ProjectInit PROVE ProjectTypeOK
    OBVIOUS
  <1>1. /\ owner \in Accounts \cup {NoAccount}
        /\ cfg \in [ConfigKeys -> Nat]
        /\ members \subseteq Accounts
    BY ProjectConstants DEF ProjectConstants, ProjectInit
  <1>2. member \in [Accounts -> Member]
    BY ProjectConstants DEF ProjectConstants, ProjectInit, NewMember, NoMember, Member
  <1>3. history \in [Accounts -> Seq([stake : Nat, time : Nat])]
    <2>1. <<[stake |-> StakeMin, time |-> now]>> \in Seq([stake : Nat, time : Nat])
      BY ProjectConstants DEF ProjectConstants, ProjectInit
    <2>2. history = [[a \in Accounts |-> <<>>] EXCEPT
                        ![Founder] = <<[stake |-> StakeMin, time |-> now]>>]
      BY DEF ProjectInit
    <2>3. <<>> \in Seq([stake : Nat, time : Nat])
      OBVIOUS
    <2> QED BY <2>1, <2>2, <2>3
  <1>4. treasury \in [Assets -> Nat] /\ vault \in [Assets -> Nat]
    BY ProjectConstants DEF ProjectConstants, ProjectInit, OfFunds
  <1>5. \A a \in Accounts \ members : member[a] = NoMember /\ history[a] = <<>>
    BY DEF ProjectInit
  <1>6. /\ now \in Nat \ {0}
        /\ joinSeq \in Nat /\ memberCount \in Nat /\ stakeTotal \in Nat
    BY ProjectConstants DEF ProjectConstants, ProjectInit
  <1>7. paused \in BOOLEAN
    BY DEF ProjectInit
  <1>8. /\ locks \in [Accounts -> Nat] /\ unspent \in [Assets -> Nat]
        /\ whitelist \subseteq Accounts
    BY DEF ProjectInit
  <1> QED
    BY <1>1, <1>2, <1>3, <1>4, <1>5, <1>6, <1>7, <1>8 DEF ProjectTypeOK

\* An admission, whether or not the account is a member already.
LEMMA AdmissionTyped ==
    ASSUME ProjectTypeOK, NEW a \in Accounts, NEW d \in Deposits, AdmitMember(a, d),
           UNCHANGED <<now, metaVars, cfg, treasury, unspent, locks>>,
           whitelist' \subseteq Accounts
    PROVE  ProjectTypeOK'
  <1>1. d \in Nat /\ OfFunds(d) \in [Assets -> Nat]
    BY ProjectConstants DEF ProjectConstants, OfFunds
  <1>2. vault' \in [Assets -> Nat]
    <2>1. vault' = Drawn(OfFunds(d))
      BY DEF AdmitMember
    <2>2. vault \in [Assets -> Nat]
      BY DEF ProjectTypeOK
    <2> QED BY <1>1, <2>1, <2>2 DEF Drawn
  <1>3. member' \in [Accounts -> Member]
    BY <1>1 DEF AdmitMember, NewMember, NoMember, Member, ProjectTypeOK
  <1>4. history' \in [Accounts -> Seq([stake : Nat, time : Nat])]
    <2>1. <<[stake |-> d, time |-> now]>> \in Seq([stake : Nat, time : Nat])
      BY <1>1 DEF ProjectTypeOK
    <2> QED BY <2>1 DEF AdmitMember, ProjectTypeOK
  <1>5. \A b \in Accounts \ members' : member'[b] = NoMember /\ history'[b] = <<>>
    BY DEF AdmitMember, ProjectTypeOK
  <1>6. /\ members' \subseteq Accounts
        /\ joinSeq' \in Nat /\ memberCount' \in Nat /\ stakeTotal' \in Nat
    BY <1>1 DEF AdmitMember, ProjectTypeOK
  <1> QED
    BY <1>2, <1>3, <1>4, <1>5, <1>6 DEF ProjectTypeOK, metaVars

LEMMA JoinTyped ==
    ASSUME ProjectTypeOK, NEW a \in Accounts, NEW d \in Deposits, JoinProject(a, d)
    PROVE  ProjectTypeOK'
  <1>1. whitelist' \subseteq Accounts
    BY DEF JoinProject, ProjectTypeOK
  <1> QED BY <1>1, AdmissionTyped DEF JoinProject

LEMMA RequestLeaveTyped ==
    ASSUME ProjectTypeOK, NEW a \in Accounts, RequestLeave(a)
    PROVE  ProjectTypeOK'
  BY DEF ProjectTypeOK, RequestLeave, LeaveAllowed, NoMember, Member, metaVars, fundVars

LEMMA RemovalTyped ==
    ASSUME ProjectTypeOK, NEW K \in SUBSET Accounts, RemoveMembers(K)
    PROVE  /\ members' \subseteq Accounts
           /\ member' \in [Accounts -> Member]
           /\ history' \in [Accounts -> Seq([stake : Nat, time : Nat])]
           /\ joinSeq' \in Nat
           /\ memberCount' \in Nat
           /\ stakeTotal' \in Nat
           /\ \A a \in Accounts \ members' : member'[a] = NoMember /\ history'[a] = <<>>
  <1>1. Cardinality(K) \in Nat
    BY SetOfMembersFinite
  <1>2. memberCount' \in Nat /\ stakeTotal' \in Nat /\ joinSeq' \in Nat
    BY <1>1 DEF RemoveMembers, ProjectTypeOK
  <1>3. member' \in [Accounts -> Member]
    BY DEF RemoveMembers, ProjectTypeOK, NoMember, Member
  <1>4. history' \in [Accounts -> Seq([stake : Nat, time : Nat])]
    BY DEF RemoveMembers, ProjectTypeOK
  <1>5. /\ members' \subseteq Accounts
        /\ \A a \in Accounts \ members' : member'[a] = NoMember /\ history'[a] = <<>>
    BY DEF RemoveMembers, ProjectTypeOK
  <1> QED BY <1>2, <1>3, <1>4, <1>5

LEMMA FinishLeaveTyped ==
    ASSUME ProjectTypeOK, NEW a \in Accounts, FinishLeave(a)
    PROVE  ProjectTypeOK'
  <1>1. RemoveMembers({a})
    BY DEF FinishLeave
  <1>2. vault' \in [Assets -> Nat]
    <2>1. vault \in [Assets -> Nat] /\ member[a].stake \in Nat /\ FundsAsset \in Assets
      BY ProjectConstants DEF ProjectConstants, ProjectTypeOK, Member
    <2> QED BY <2>1 DEF FinishLeave
  <1> QED
    BY <1>1, <1>2, RemovalTyped DEF FinishLeave, ProjectTypeOK, metaVars

LEMMA RequestUnstakeTyped ==
    ASSUME ProjectTypeOK, NEW a \in Accounts, NEW amount \in UnstakeAmounts,
           RequestUnstake(a, amount)
    PROVE  ProjectTypeOK'
  <1>1. amount \in Nat
    BY ProjectConstants DEF ProjectConstants
  <1>2. member' \in [Accounts -> Member]
    BY <1>1 DEF RequestUnstake, Member, ProjectTypeOK
  <1>3. \A b \in Accounts \ members : member'[b] = NoMember
    BY DEF RequestUnstake, UnstakeAllowed, ProjectTypeOK
  <1> QED
    BY <1>2, <1>3 DEF RequestUnstake, ProjectTypeOK, metaVars, fundVars

LEMMA StakeRecorded ==
    ASSUME ProjectTypeOK, NEW a \in Accounts, NEW stake \in Nat, RecordStake(a, stake)
    PROVE  /\ history' \in [Accounts -> Seq([stake : Nat, time : Nat])]
           /\ \A b \in Accounts \ {a} : history'[b] = history[b]
  <1>1. [stake |-> stake, time |-> Stamp] \in [stake : Nat, time : Nat]
    BY DEF Stamp, ProjectTypeOK
  <1>2. Append(history[a], [stake |-> stake, time |-> Stamp])
          \in Seq([stake : Nat, time : Nat])
    BY <1>1 DEF ProjectTypeOK
  <1> QED
    BY <1>2 DEF RecordStake, ProjectTypeOK

LEMMA UnstakeAmountTyped ==
    ASSUME ProjectTypeOK, NEW a \in Accounts
    PROVE  /\ UnstakeAmount(a) \in Nat
           /\ member[a].stake - UnstakeAmount(a) \in Nat
  <1>1. member[a].stake \in Nat /\ member[a].unstakePending \in Nat
    BY DEF ProjectTypeOK, Member
  <1> QED
    BY <1>1 DEF UnstakeAmount

LEMMA FinishUnstakeTyped ==
    ASSUME ProjectTypeOK, NEW a \in Accounts, FinishUnstake(a)
    PROVE  ProjectTypeOK'
  <1> DEFINE u == UnstakeAmount(a)
  <1>1. u \in Nat /\ member[a].stake - u \in Nat
    BY UnstakeAmountTyped
  <1>2. /\ a \in members
        /\ u \in 0 .. stakeTotal
        /\ u <= vault[FundsAsset]
        /\ vault' = [vault EXCEPT ![FundsAsset] = @ - u]
        /\ stakeTotal' = stakeTotal - u
        /\ member' = [member EXCEPT ![a] = Unstaked(@, u)]
        /\ \/ history' = history
           \/ RecordStake(a, member[a].stake - u)
    BY DEF FinishUnstake, UnstakeAllowed
  <1> HIDE DEF u
  <1>3. member' \in [Accounts -> Member]
    <2>1. Disarmed(member[a]) \in Member /\ Disarmed(member[a]).stake = member[a].stake
      BY DEF ProjectTypeOK, Member, Disarmed
    <2>2. Unstaked(member[a], u) \in Member
      BY <1>1, <2>1 DEF Member, Unstaked
    <2> QED BY <1>2, <2>2 DEF ProjectTypeOK
  <1>4. /\ history' \in [Accounts -> Seq([stake : Nat, time : Nat])]
        /\ \A b \in Accounts \ {a} : history'[b] = history[b]
    BY <1>1, <1>2, StakeRecorded DEF ProjectTypeOK
  <1>5. vault' \in [Assets -> Nat] /\ stakeTotal' \in Nat
    <2>1. vault \in [Assets -> Nat] /\ FundsAsset \in Assets /\ stakeTotal \in Nat
      BY ProjectConstants DEF ProjectConstants, ProjectTypeOK
    <2> QED BY <1>1, <1>2, <2>1
  <1>6. \A b \in Accounts \ members : member'[b] = NoMember /\ history'[b] = <<>>
    BY <1>2, <1>4 DEF ProjectTypeOK
  <1> QED
    BY <1>3, <1>4, <1>5, <1>6 DEF FinishUnstake, ProjectTypeOK, metaVars

LEMMA DonationTyped ==
    ASSUME ProjectTypeOK, NEW batch \in [Assets -> Nat]
    PROVE  Drawn(batch) \in [Assets -> Nat] /\ Donated(batch) \in [Assets -> Nat]
  BY DEF ProjectTypeOK, Drawn, Donated

LEMMA AddFundsToTreasuryTyped ==
    ASSUME ProjectTypeOK, NEW batch \in Batches, AddFundsToTreasury(batch)
    PROVE  ProjectTypeOK'
  <1>1. batch \in [Assets -> Nat]
    BY ProjectConstants DEF ProjectConstants
  <1>2. vault' \in [Assets -> Nat] /\ treasury' \in [Assets -> Nat]
    BY <1>1, DonationTyped DEF AddFundsToTreasury
  <1> QED
    BY <1>2 DEF AddFundsToTreasury, ProjectTypeOK, metaVars, memberVars

LEMMA ToppedUpTyped ==
    ASSUME NEW m \in Member, NEW amount \in Nat
    PROVE  ToppedUp(m, amount) \in Member
  <1> DEFINE e == [Disarmed(m) EXCEPT !.stake = @ + amount]
  <1>1. Disarmed(m) \in Member
    BY DEF Disarmed, Member
  <1>2. e \in Member
    BY <1>1 DEF Member
  <1>3. ToppedUp(m, amount) = [e EXCEPT !.exitRequested = 0]
    BY DEF ToppedUp
  <1> HIDE DEF e
  <1>4. [e EXCEPT !.exitRequested = 0] \in Member
    BY <1>2 DEF Member
  <1> QED
    BY <1>3, <1>4

LEMMA AddFundsToStakeTyped ==
    ASSUME ProjectTypeOK, NEW a \in Accounts, NEW batch \in Batches,
           AddFundsToStake(a, batch)
    PROVE  ProjectTypeOK'
  <1> DEFINE amount == batch[FundsAsset]
             rest   == DonatedPart(batch)
  <1>1. /\ batch \in [Assets -> Nat]
        /\ rest \in [Assets -> Nat]
        /\ amount \in Nat
    BY ProjectConstants DEF ProjectConstants, DonatedPart
  <1>2. /\ a \in members
        /\ vault' = Drawn(batch)
        /\ treasury' = Donated(rest)
        /\ member' = [member EXCEPT ![a] = ToppedUp(@, amount)]
        /\ RecordStake(a, member[a].stake + amount)
        /\ stakeTotal' = stakeTotal + amount
    BY DEF AddFundsToStake
  <1> HIDE DEF amount, rest
  <1>3. vault' \in [Assets -> Nat] /\ treasury' \in [Assets -> Nat]
    BY <1>1, <1>2, DonationTyped
  <1>4. member[a].stake \in Nat /\ ToppedUp(member[a], amount) \in Member
    <2>1. member[a].stake \in Nat
      BY DEF ProjectTypeOK, Member
    <2>2. member[a] \in Member
      BY DEF ProjectTypeOK
    <2> QED BY <1>1, <2>1, <2>2, ToppedUpTyped
  <1>5. member' \in [Accounts -> Member]
    BY <1>2, <1>4 DEF ProjectTypeOK
  <1>6. /\ history' \in [Accounts -> Seq([stake : Nat, time : Nat])]
        /\ \A b \in Accounts \ {a} : history'[b] = history[b]
    <2>1. member[a].stake + amount \in Nat
      BY <1>1, <1>4
    <2> QED BY <1>2, <2>1, StakeRecorded
  <1>7. stakeTotal' \in Nat
    BY <1>1, <1>2 DEF ProjectTypeOK
  <1>8. \A b \in Accounts \ members : member'[b] = NoMember /\ history'[b] = <<>>
    BY <1>2, <1>6 DEF ProjectTypeOK
  <1> QED
    BY <1>3, <1>5, <1>6, <1>7, <1>8 DEF AddFundsToStake, ProjectTypeOK, metaVars

\* The powers of the owner and the passing of time touch no member record.
LEMMA OwnerCallsTyped ==
    ASSUME ProjectTypeOK, NEW a \in Accounts,
           \/ \E S \in AddressLists : WhitelistMembers(a, S) \/ RemoveWhitelistedMembers(a, S)
           \/ \E b \in Heirs : TransferProjectOwnership(a, b)
           \/ \E pause \in PauseCalls : EmergencyPauseImmediate(a, pause)
    PROVE  ProjectTypeOK'
  <1>1. ASSUME NEW S \in AddressLists,
               WhitelistMembers(a, S) \/ RemoveWhitelistedMembers(a, S)
        PROVE  ProjectTypeOK'
    <2>1. S \subseteq Accounts
      BY ProjectConstants DEF ProjectConstants
    <2> QED
      BY <1>1, <2>1 DEF WhitelistMembers, RemoveWhitelistedMembers, Approve, Disapprove, ProjectTypeOK,
                        metaVars, memberVars, fundVars
  <1>2. ASSUME NEW b \in Heirs, TransferProjectOwnership(a, b)
        PROVE  ProjectTypeOK'
    <2>1. b \in Accounts
      BY ProjectConstants DEF ProjectConstants
    <2> QED
      BY <1>2, <2>1 DEF TransferProjectOwnership, ProjectTypeOK, memberVars, fundVars
  <1>3. ASSUME NEW pause \in PauseCalls, EmergencyPauseImmediate(a, pause)
        PROVE  ProjectTypeOK'
    <2>1. pause \in BOOLEAN
      BY ProjectConstants DEF ProjectConstants
    <2>2. paused' \in BOOLEAN
      BY <1>3, <2>1 DEF EmergencyPauseImmediate
    <2> QED
      BY <1>3, <2>2 DEF EmergencyPauseImmediate, ProjectTypeOK, memberVars, fundVars
  <1> QED
    BY <1>1, <1>2, <1>3

LEMMA TickTyped == ProjectTypeOK /\ Tick => ProjectTypeOK'
  BY DEF Tick, ProjectTypeOK, metaVars, memberVars, fundVars

LEMMA ProjectStepTyped == ProjectTypeOK /\ [ProjectNext]_projectVars => ProjectTypeOK'
  <1> SUFFICES ASSUME ProjectTypeOK, [ProjectNext]_projectVars PROVE ProjectTypeOK'
    OBVIOUS
  <1>1. ASSUME NEW a \in Accounts, NEW d \in Deposits, JoinProject(a, d)
        PROVE  ProjectTypeOK'
    BY <1>1, JoinTyped
  <1>2. ASSUME NEW a \in Accounts, RequestLeave(a) \/ FinishLeave(a)
        PROVE  ProjectTypeOK'
    BY <1>2, RequestLeaveTyped, FinishLeaveTyped
  <1>3. ASSUME NEW a \in Accounts,
               (\E amount \in UnstakeAmounts : RequestUnstake(a, amount)) \/ FinishUnstake(a)
        PROVE  ProjectTypeOK'
    BY <1>3, RequestUnstakeTyped, FinishUnstakeTyped
  <1>4. ASSUME NEW batch \in Batches,
               AddFundsToTreasury(batch) \/ \E a \in Accounts : AddFundsToStake(a, batch)
        PROVE  ProjectTypeOK'
    BY <1>4, AddFundsToTreasuryTyped, AddFundsToStakeTyped
  <1>5. CASE UNCHANGED projectVars
    BY <1>5 DEF projectVars, metaVars, memberVars, fundVars, ProjectTypeOK
  <1> QED
    BY <1>1, <1>2, <1>3, <1>4, <1>5, OwnerCallsTyped, TickTyped DEF ProjectNext

\* Every stored value of a project has its type, for every history of calls of
\* the membership and funding entry points.
THEOREM ProjectTyped == ProjectSpec => []ProjectTypeOK
  BY ProjectInitTyped, ProjectStepTyped, PTL DEF ProjectSpec


-----------------------------------------------------------------------------
(* The aggregates                                                          *)

LEMMA StakesTyped ==
    ASSUME ProjectTypeOK
    PROVE  /\ Stakes \in [Accounts -> Nat]
           /\ members \in SUBSET Accounts /\ IsFiniteSet(members)
           /\ \A K \in SUBSET Accounts : IsFiniteSet(K) /\ StakeOf(K) \in Nat
  <1>1. Stakes \in [Accounts -> Nat]
    BY DEF ProjectTypeOK, Stakes, Member
  <1>2. \A K \in SUBSET Accounts : IsFiniteSet(K)
    BY SetOfMembersFinite
  <1>3. \A K \in SUBSET Accounts : StakeOf(K) \in Nat
    <2> TAKE K \in SUBSET Accounts
    <2>1. \A x \in K : Stakes[x] \in Nat
      BY <1>1
    <2> QED BY <1>2, <2>1, SumIsNat DEF StakeOf
  <1>4. members \in SUBSET Accounts
    BY DEF ProjectTypeOK
  <1> QED BY <1>1, <1>2, <1>3, <1>4

\* Whoever stays has the same stake before and after.
LEMMA FinanceOfSameMembers ==
    ASSUME ProjectTypeOK, FinanceMatchesMembers, Stakes' = Stakes,
           UNCHANGED <<members, memberCount, stakeTotal>>
    PROVE  FinanceMatchesMembers'
  BY DEF FinanceMatchesMembers, StakeOf

\* Admitting an account that was no member adds one member and its deposit.
LEMMA AdmissionFinance ==
    ASSUME ProjectTypeOK, FinanceMatchesMembers, NEW a \in Accounts, NEW d \in Nat,
           a \notin members, AdmitMember(a, d)
    PROVE  FinanceMatchesMembers'
  <1>1. /\ members' = members \cup {a}
        /\ memberCount' = memberCount + 1
        /\ stakeTotal' = stakeTotal + d
        /\ member' = [member EXCEPT ![a] = NewMember(d, joinSeq)]
    BY DEF AdmitMember
  <1>2. /\ Stakes' \in [Accounts -> Nat]
        /\ Stakes'[a] = d
        /\ \A b \in members : Stakes'[b] = Stakes[b]
    <2>1. NewMember(d, joinSeq).stake = d
      BY DEF NewMember, NoMember
    <2> QED BY <1>1, <2>1 DEF Stakes, ProjectTypeOK, Member
  <1>3. IsFiniteSet(members) /\ members \subseteq Accounts
    BY StakesTyped
  <1>4. Cardinality(members') = Cardinality(members) + 1
    BY <1>1, <1>3, FS_AddElement
  <1>5. SumFunctionOnSet(Stakes', members \cup {a})
          = SumFunctionOnSet(Stakes', members) + Stakes'[a]
    <2>1. \A b \in members \cup {a} : Stakes'[b] \in Nat
      BY <1>2, <1>3
    <2> QED BY <1>3, <2>1, SumWith
  <1>6. SumFunctionOnSet(Stakes', members) = SumFunctionOnSet(Stakes, members)
    BY <1>2, <1>3, SumOfEqual
  <1>7. memberCount' = Cardinality(members')
    BY <1>1, <1>4 DEF FinanceMatchesMembers
  <1>8. stakeTotal' = StakeOf(members)'
    BY <1>1, <1>2, <1>5, <1>6 DEF FinanceMatchesMembers, StakeOf
  <1> QED BY <1>7, <1>8 DEF FinanceMatchesMembers

\* Removing members takes off their number and their stakes.
LEMMA RemovalFinance ==
    ASSUME ProjectTypeOK, FinanceMatchesMembers, NEW K \in SUBSET members, RemoveMembers(K)
    PROVE  FinanceMatchesMembers'
  <1>1. /\ members' = members \ K
        /\ memberCount' = IF memberCount >= Cardinality(K)
                          THEN memberCount - Cardinality(K) ELSE 0
        /\ stakeTotal' = stakeTotal - StakeOf(K)
        /\ member' = [a \in Accounts |-> IF a \in K THEN NoMember ELSE member[a]]
    BY DEF RemoveMembers
  <1> DEFINE R == members \ K
  <1>2. /\ K \in SUBSET Accounts /\ R \in SUBSET Accounts
        /\ IsFiniteSet(members) /\ IsFiniteSet(K) /\ IsFiniteSet(R)
        /\ Stakes \in [Accounts -> Nat]
    BY StakesTyped
  <1>3. memberCount' = Cardinality(members')
    <2>1. members \cap K = K
      OBVIOUS
    <2>2. Cardinality(R) = Cardinality(members) - Cardinality(K)
      BY <1>2, <2>1, FS_Difference
    <2>3. Cardinality(K) <= Cardinality(members)
      BY <1>2, FS_Subset
    <2>4. Cardinality(K) \in Nat /\ Cardinality(members) \in Nat
      BY <1>2, FS_CardinalityType
    <2> QED BY <1>1, <2>2, <2>3, <2>4 DEF FinanceMatchesMembers
  <1>4. SumFunctionOnSet(Stakes, members)
          = SumFunctionOnSet(Stakes, K) + SumFunctionOnSet(Stakes, R)
    <2>1. \A x \in members : Stakes[x] \in Nat
      BY <1>2, StakesTyped
    <2> QED BY <1>2, <2>1, SumOfParts
  <1>5. SumFunctionOnSet(Stakes', R) = SumFunctionOnSet(Stakes, R)
    <2>1. \A x \in R : Stakes'[x] = Stakes[x]
      BY <1>1, <1>2 DEF Stakes
    <2> HIDE DEF R
    <2> QED BY <1>2, <2>1, SumOfEqual
  <1>6. SumFunctionOnSet(Stakes, K) \in Nat /\ SumFunctionOnSet(Stakes, R) \in Nat
    BY <1>2, StakesTyped DEF StakeOf
  <1>7. stakeTotal' = StakeOf(members)'
    BY <1>1, <1>4, <1>5, <1>6 DEF FinanceMatchesMembers, StakeOf
  <1> QED BY <1>3, <1>7 DEF FinanceMatchesMembers

\* A member whose stake changes changes the total by the same amount.
LEMMA StakeChangeFinance ==
    ASSUME ProjectTypeOK, ProjectTypeOK', FinanceMatchesMembers, NEW a \in members,
           UNCHANGED <<members, memberCount>>,
           \A b \in Accounts \ {a} : member'[b] = member[b],
           stakeTotal' = stakeTotal - member[a].stake + member'[a].stake
    PROVE  FinanceMatchesMembers'
  <1>1. IsFiniteSet(members) /\ members \subseteq Accounts
    BY StakesTyped
  <1>2. \A b \in members : Stakes[b] \in Nat /\ Stakes'[b] \in Nat
    BY <1>1 DEF ProjectTypeOK, Stakes, Member
  <1>3. \A b \in members \ {a} : Stakes'[b] = Stakes[b]
    BY <1>1 DEF Stakes
  <1>4. SumFunctionOnSet(Stakes', members)
          = SumFunctionOnSet(Stakes, members) - Stakes[a] + Stakes'[a]
    BY <1>1, <1>2, <1>3, SumChangedAt
  <1>5. Stakes[a] = member[a].stake /\ Stakes'[a] = member'[a].stake
    BY <1>1 DEF Stakes
  <1> QED BY <1>4, <1>5 DEF FinanceMatchesMembers, StakeOf

-----------------------------------------------------------------------------
(* What a stake change does to the record of the member                    *)

LEMMA UnstakedRecord ==
    ASSUME NEW m \in Member, NEW n \in 0 .. m.stake
    PROVE  /\ Unstaked(m, n).stake = m.stake - n
           /\ Unstaked(m, n).joinSeq = m.joinSeq
           /\ Unstaked(m, n).exitRequested = m.exitRequested
           /\ Unstaked(m, n).unstakeRequested = 0
           /\ Unstaked(m, n).voteLockUntil = m.voteLockUntil
  <1>1. /\ Disarmed(m) \in Member
        /\ Disarmed(m).stake = m.stake
        /\ Disarmed(m).joinSeq = m.joinSeq
        /\ Disarmed(m).exitRequested = m.exitRequested
        /\ Disarmed(m).unstakeRequested = 0
        /\ Disarmed(m).voteLockUntil = m.voteLockUntil
    BY DEF Disarmed, Member
  <1>2. Unstaked(m, n) = [Disarmed(m) EXCEPT !.stake = @ - n]
    BY DEF Unstaked
  <1> QED BY <1>1, <1>2 DEF Member

LEMMA ToppedUpRecord ==
    ASSUME NEW m \in Member, NEW n \in Nat
    PROVE  /\ ToppedUp(m, n).stake = m.stake + n
           /\ ToppedUp(m, n).joinSeq = m.joinSeq
           /\ ToppedUp(m, n).exitRequested = 0
           /\ ToppedUp(m, n).unstakeRequested = 0
           /\ ToppedUp(m, n).voteLockUntil = m.voteLockUntil
  <1> DEFINE e == [Disarmed(m) EXCEPT !.stake = @ + n]
  <1>1. /\ Disarmed(m) \in Member
        /\ Disarmed(m).stake = m.stake
        /\ Disarmed(m).joinSeq = m.joinSeq
        /\ Disarmed(m).unstakeRequested = 0
        /\ Disarmed(m).voteLockUntil = m.voteLockUntil
    BY DEF Disarmed, Member
  <1>2. /\ e \in Member /\ e.stake = m.stake + n /\ e.unstakeRequested = 0
        /\ e.joinSeq = m.joinSeq /\ e.voteLockUntil = m.voteLockUntil
    BY <1>1 DEF Member
  <1>3. ToppedUp(m, n) = [e EXCEPT !.exitRequested = 0]
    BY DEF ToppedUp
  <1> HIDE DEF e
  <1> QED BY <1>2, <1>3 DEF Member

\* The two calls that change the stake of a member that stays.
LEMMA FinishUnstakeEffect ==
    ASSUME ProjectTypeOK, NEW a \in Accounts, FinishUnstake(a)
    PROVE  /\ a \in members /\ members' = members /\ memberCount' = memberCount
           /\ \A b \in Accounts \ {a} : member'[b] = member[b]
           /\ UnstakeAmount(a) \in 0 .. member[a].stake
           /\ member'[a].stake = member[a].stake - UnstakeAmount(a)
           /\ member'[a].joinSeq = member[a].joinSeq
           /\ member'[a].exitRequested = member[a].exitRequested
           /\ member'[a].unstakeRequested = 0
           /\ member'[a].voteLockUntil = member[a].voteLockUntil
           /\ stakeTotal' = stakeTotal - UnstakeAmount(a)
  <1> DEFINE u == UnstakeAmount(a)
  <1>1. member[a] \in Member /\ u \in 0 .. member[a].stake
    <2>1. member[a] \in Member /\ member[a].stake \in Nat
      BY DEF ProjectTypeOK, Member
    <2>2. u \in Nat /\ member[a].stake - u \in Nat
      BY UnstakeAmountTyped
    <2> HIDE DEF u
    <2> QED BY <2>1, <2>2
  <1>2. member' = [member EXCEPT ![a] = Unstaked(@, u)]
    BY DEF FinishUnstake
  <1>3. /\ member'[a] = Unstaked(member[a], u)
        /\ \A b \in Accounts \ {a} : member'[b] = member[b]
    <2> HIDE DEF u
    <2> QED BY <1>2 DEF ProjectTypeOK
  <1>4. a \in members /\ members' = members /\ memberCount' = memberCount
        /\ stakeTotal' = stakeTotal - u
    BY DEF FinishUnstake, UnstakeAllowed
  <1> HIDE DEF u
  <1>5. /\ Unstaked(member[a], u).stake = member[a].stake - u
        /\ Unstaked(member[a], u).joinSeq = member[a].joinSeq
        /\ Unstaked(member[a], u).exitRequested = member[a].exitRequested
        /\ Unstaked(member[a], u).unstakeRequested = 0
        /\ Unstaked(member[a], u).voteLockUntil = member[a].voteLockUntil
    BY <1>1, UnstakedRecord
  <1> QED BY <1>1, <1>3, <1>4, <1>5 DEF u

LEMMA AddFundsToStakeEffect ==
    ASSUME ProjectTypeOK, NEW a \in Accounts, NEW batch \in Batches,
           AddFundsToStake(a, batch)
    PROVE  /\ a \in members /\ members' = members /\ memberCount' = memberCount
           /\ \A b \in Accounts \ {a} : member'[b] = member[b]
           /\ batch[FundsAsset] \in Nat
           /\ member'[a].stake = member[a].stake + batch[FundsAsset]
           /\ member'[a].joinSeq = member[a].joinSeq
           /\ member'[a].exitRequested = 0
           /\ member'[a].unstakeRequested = 0
           /\ member'[a].voteLockUntil = member[a].voteLockUntil
           /\ stakeTotal' = stakeTotal + batch[FundsAsset]
  <1> DEFINE u == batch[FundsAsset]
  <1>1. member[a] \in Member /\ u \in Nat
    BY ProjectConstants DEF ProjectConstants, ProjectTypeOK
  <1>2. member' = [member EXCEPT ![a] = ToppedUp(@, u)]
    BY DEF AddFundsToStake
  <1>3. /\ member'[a] = ToppedUp(member[a], u)
        /\ \A b \in Accounts \ {a} : member'[b] = member[b]
    <2> HIDE DEF u
    <2> QED BY <1>2 DEF ProjectTypeOK
  <1>4. a \in members /\ members' = members /\ memberCount' = memberCount
        /\ stakeTotal' = stakeTotal + u
    BY DEF AddFundsToStake
  <1> HIDE DEF u
  <1>5. /\ ToppedUp(member[a], u).stake = member[a].stake + u
        /\ ToppedUp(member[a], u).joinSeq = member[a].joinSeq
        /\ ToppedUp(member[a], u).exitRequested = 0
        /\ ToppedUp(member[a], u).unstakeRequested = 0
        /\ ToppedUp(member[a], u).voteLockUntil = member[a].voteLockUntil
    BY <1>1, ToppedUpRecord
  <1> QED BY <1>1, <1>3, <1>4, <1>5 DEF u

-----------------------------------------------------------------------------
(* The finance record                                                      *)

LEMMA FinanceInit == ProjectInit => FinanceMatchesMembers
  <1> SUFFICES ASSUME ProjectInit PROVE FinanceMatchesMembers
    OBVIOUS
  <1>1. members = {Founder} /\ memberCount = 1 /\ stakeTotal = StakeMin
    BY DEF ProjectInit
  <1>2. Stakes[Founder] = StakeMin /\ StakeMin \in Nat
    BY ProjectConstants DEF ProjectConstants, ProjectInit, Stakes, NewMember, NoMember
  <1>3. StakeOf({Founder}) = StakeMin
    BY <1>2, SumOfOne DEF StakeOf
  <1>4. Cardinality({Founder}) = 1
    BY FS_Singleton
  <1> QED BY <1>1, <1>3, <1>4 DEF FinanceMatchesMembers

LEMMA FinanceStep ==
    ASSUME ProjectTypeOK, FinanceMatchesMembers, [ProjectNext]_projectVars
    PROVE  FinanceMatchesMembers'
  <1>1. ProjectTypeOK'
    BY ProjectStepTyped
  <1>2. ASSUME NEW a \in Accounts, NEW d \in Deposits, JoinProject(a, d)
        PROVE  FinanceMatchesMembers'
    <2>1. d \in Nat /\ a \notin members /\ AdmitMember(a, d)
      BY <1>2, ProjectConstants DEF ProjectConstants, JoinProject, JoinAllowed
    <2> QED BY <2>1, AdmissionFinance
  <1>3. ASSUME NEW a \in Accounts, RequestLeave(a)
        PROVE  FinanceMatchesMembers'
    <2>1. Stakes' = Stakes
      BY <1>3 DEF RequestLeave, Stakes, ProjectTypeOK, Member
    <2> QED BY <1>3, <2>1, FinanceOfSameMembers DEF RequestLeave
  <1>4. ASSUME NEW a \in Accounts, FinishLeave(a)
        PROVE  FinanceMatchesMembers'
    <2>1. {a} \in SUBSET members /\ RemoveMembers({a})
      BY <1>4 DEF FinishLeave, LeaveAllowed
    <2> QED BY <2>1, RemovalFinance
  <1>5. ASSUME NEW a \in Accounts, NEW amount \in UnstakeAmounts, RequestUnstake(a, amount)
        PROVE  FinanceMatchesMembers'
    <2>1. Stakes' = Stakes
      BY <1>5 DEF RequestUnstake, Stakes, ProjectTypeOK, Member
    <2> QED BY <1>5, <2>1, FinanceOfSameMembers DEF RequestUnstake
  <1>6. ASSUME NEW a \in Accounts, FinishUnstake(a)
        PROVE  FinanceMatchesMembers'
    <2>1. /\ a \in members /\ UNCHANGED <<members, memberCount>>
          /\ \A b \in Accounts \ {a} : member'[b] = member[b]
          /\ UnstakeAmount(a) \in 0 .. member[a].stake
          /\ member'[a].stake = member[a].stake - UnstakeAmount(a)
          /\ stakeTotal' = stakeTotal - UnstakeAmount(a)
      BY <1>6, FinishUnstakeEffect
    <2>2. stakeTotal \in Nat /\ member[a].stake \in Nat
      BY DEF ProjectTypeOK, Member
    <2>3. stakeTotal' = stakeTotal - member[a].stake + member'[a].stake
      BY <2>1, <2>2
    <2> QED BY <1>1, <2>1, <2>3, StakeChangeFinance
  <1>7. ASSUME NEW a \in Accounts, NEW batch \in Batches, AddFundsToStake(a, batch)
        PROVE  FinanceMatchesMembers'
    <2>1. /\ a \in members /\ UNCHANGED <<members, memberCount>>
          /\ \A b \in Accounts \ {a} : member'[b] = member[b]
          /\ batch[FundsAsset] \in Nat
          /\ member'[a].stake = member[a].stake + batch[FundsAsset]
          /\ stakeTotal' = stakeTotal + batch[FundsAsset]
      BY <1>7, AddFundsToStakeEffect
    <2>2. stakeTotal \in Nat /\ member[a].stake \in Nat
      BY DEF ProjectTypeOK, Member
    <2>3. stakeTotal' = stakeTotal - member[a].stake + member'[a].stake
      BY <2>1, <2>2
    <2> QED BY <1>1, <2>1, <2>3, StakeChangeFinance
  <1>8. ASSUME UNCHANGED memberVars
        PROVE  FinanceMatchesMembers'
    <2>1. Stakes' = Stakes
      BY <1>8 DEF memberVars, Stakes
    <2> QED BY <1>8, <2>1, FinanceOfSameMembers DEF memberVars
  <1>9. CASE UNCHANGED projectVars
    BY <1>8, <1>9 DEF projectVars
  <1> QED
    BY <1>2, <1>3, <1>4, <1>5, <1>6, <1>7, <1>8, <1>9
    DEF ProjectNext, AddFundsToTreasury, WhitelistMembers, RemoveWhitelistedMembers,
        TransferProjectOwnership, EmergencyPauseImmediate, Tick

-----------------------------------------------------------------------------
(* The host ledger                                                         *)

LEMMA StakeOfOne ==
    ASSUME ProjectTypeOK, NEW a \in Accounts
    PROVE  StakeOf({a}) = member[a].stake
  <1>1. Stakes[a] = member[a].stake /\ Stakes[a] \in Nat
    BY DEF Stakes, ProjectTypeOK, Member
  <1> QED BY <1>1, SumOfOne DEF StakeOf

LEMMA LedgerInit == ProjectInit => LedgerBalanced
  <1> SUFFICES ASSUME ProjectInit PROVE LedgerBalanced
    OBVIOUS
  <1>1. StakeMin \in Nat /\ FoundingExcess \in Nat
    BY ProjectConstants DEF ProjectConstants
  <1>2. ASSUME NEW x \in Assets
        PROVE  /\ treasury[x] = IF x = FundsAsset THEN FoundingExcess ELSE 0
               /\ vault[x] = IF x = FundsAsset THEN StakeMin + FoundingExcess ELSE 0
               /\ unspent[x] = 0 /\ stakeTotal = StakeMin
    BY DEF ProjectInit, OfFunds
  <1> QED BY <1>1, <1>2 DEF LedgerBalanced

\* The amounts the ledger equation speaks of.
LEMMA BalancesTyped ==
    ASSUME ProjectTypeOK
    PROVE  /\ \A x \in Assets : vault[x] \in Nat /\ treasury[x] \in Nat /\ unspent[x] \in Nat
           /\ stakeTotal \in Nat /\ FundsAsset \in Assets
           /\ \A a \in Accounts : member[a].stake \in Nat
  BY ProjectConstants DEF ProjectConstants, ProjectTypeOK, Member

\* A refund of n leaves the stakes and the host ledger together.
LEMMA DebitBalanced ==
    ASSUME ProjectTypeOK, LedgerBalanced, NEW n \in Nat,
           stakeTotal' = stakeTotal - n,
           vault' = [vault EXCEPT ![FundsAsset] = @ - n],
           UNCHANGED <<treasury, unspent>>
    PROVE  LedgerBalanced'
  <1> SUFFICES ASSUME NEW x \in Assets
               PROVE  vault'[x] = treasury[x] + unspent[x]
                                    + (IF x = FundsAsset THEN stakeTotal' ELSE 0)
    BY DEF LedgerBalanced
  <1>1. /\ vault[x] \in Nat /\ treasury[x] \in Nat /\ unspent[x] \in Nat
        /\ stakeTotal \in Nat /\ vault \in [Assets -> Nat]
    BY BalancesTyped DEF ProjectTypeOK
  <1>2. vault[x] = treasury[x] + unspent[x] + (IF x = FundsAsset THEN stakeTotal ELSE 0)
    BY DEF LedgerBalanced
  <1>3. vault'[x] = IF x = FundsAsset THEN vault[x] - n ELSE vault[x]
    BY <1>1
  <1> QED BY <1>1, <1>2, <1>3

\* A deposit joins the stakes and the host ledger together.
LEMMA AdmissionLedger ==
    ASSUME ProjectTypeOK, LedgerBalanced, NEW a \in Accounts, NEW d \in Deposits,
           AdmitMember(a, d), UNCHANGED <<treasury, unspent>>
    PROVE  LedgerBalanced'
  <1>1. d \in Nat
    BY ProjectConstants DEF ProjectConstants
  <1>2. /\ \A x \in Assets : vault'[x] = vault[x] + OfFunds(d)[x]
        /\ stakeTotal' = stakeTotal + d
    BY DEF AdmitMember, Drawn
  <1>3. \A x \in Assets : OfFunds(d)[x] = IF x = FundsAsset THEN d ELSE 0
    BY DEF OfFunds
  <1> QED BY <1>1, <1>2, <1>3, BalancesTyped DEF LedgerBalanced

LEMMA LedgerStep ==
    ASSUME ProjectTypeOK, LedgerBalanced, [ProjectNext]_projectVars
    PROVE  LedgerBalanced'
  <1>1. /\ \A x \in Assets : vault[x] \in Nat /\ treasury[x] \in Nat /\ unspent[x] \in Nat
        /\ stakeTotal \in Nat /\ FundsAsset \in Assets
        /\ \A a \in Accounts : member[a].stake \in Nat
        /\ vault \in [Assets -> Nat] /\ treasury \in [Assets -> Nat]
    BY BalancesTyped DEF ProjectTypeOK
  <1>2. ASSUME NEW a \in Accounts, NEW d \in Deposits, JoinProject(a, d)
        PROVE  LedgerBalanced'
    BY <1>2, AdmissionLedger DEF JoinProject
  <1>3. ASSUME NEW a \in Accounts, FinishLeave(a)
        PROVE  LedgerBalanced'
    <2> DEFINE u == member[a].stake
    <2>1. stakeTotal' = stakeTotal - u
      BY <1>3, StakeOfOne DEF FinishLeave, RemoveMembers
    <2>2. /\ vault' = [vault EXCEPT ![FundsAsset] = @ - u]
          /\ UNCHANGED <<treasury, unspent>>
      BY <1>3 DEF FinishLeave
    <2>3. u \in Nat
      BY <1>1
    <2> HIDE DEF u
    <2> QED BY <2>1, <2>2, <2>3, DebitBalanced
  <1>4. ASSUME NEW a \in Accounts, FinishUnstake(a)
        PROVE  LedgerBalanced'
    <2> DEFINE u == UnstakeAmount(a)
    <2>1. /\ u \in Nat
          /\ stakeTotal' = stakeTotal - u
          /\ vault' = [vault EXCEPT ![FundsAsset] = @ - u]
          /\ UNCHANGED <<treasury, unspent>>
      BY <1>4, UnstakeAmountTyped DEF FinishUnstake
    <2> HIDE DEF u
    <2> QED BY <2>1, DebitBalanced
  <1>5. ASSUME NEW batch \in Batches, AddFundsToTreasury(batch)
        PROVE  LedgerBalanced'
    <2>1. \A x \in Assets : batch[x] \in Nat
      BY ProjectConstants DEF ProjectConstants
    <2>2. /\ \A x \in Assets : vault'[x] = vault[x] + batch[x]
          /\ \A x \in Assets : treasury'[x] = treasury[x] + batch[x]
          /\ UNCHANGED <<unspent, stakeTotal>>
      BY <1>5 DEF AddFundsToTreasury, Drawn, Donated, memberVars
    <2>3. ASSUME NEW x \in Assets
          PROVE  vault'[x] = treasury'[x] + unspent'[x]
                               + (IF x = FundsAsset THEN stakeTotal' ELSE 0)
      <3>1. vault[x] = treasury[x] + unspent[x] + (IF x = FundsAsset THEN stakeTotal ELSE 0)
        BY DEF LedgerBalanced
      <3>2. /\ vault'[x] = vault[x] + batch[x] /\ treasury'[x] = treasury[x] + batch[x]
            /\ unspent'[x] = unspent[x] /\ stakeTotal' = stakeTotal
            /\ batch[x] \in Nat
        BY <2>1, <2>2
      <3>3. vault[x] \in Nat /\ treasury[x] \in Nat /\ unspent[x] \in Nat /\ stakeTotal \in Nat
        BY <1>1
      <3> QED BY <3>1, <3>2, <3>3
    <2> QED BY <2>3 DEF LedgerBalanced
  <1>6. ASSUME NEW a \in Accounts, NEW batch \in Batches, AddFundsToStake(a, batch)
        PROVE  LedgerBalanced'
    <2>1. batch \in [Assets -> Nat]
      BY ProjectConstants DEF ProjectConstants
    <2>2. /\ \A x \in Assets : vault'[x] = vault[x] + batch[x]
          /\ \A x \in Assets : treasury'[x] = treasury[x] + DonatedPart(batch)[x]
          /\ UNCHANGED unspent
          /\ stakeTotal' = stakeTotal + batch[FundsAsset]
      BY <1>6 DEF AddFundsToStake, Drawn, Donated
    <2>3. \A x \in Assets : DonatedPart(batch)[x] = IF x = FundsAsset THEN 0 ELSE batch[x]
      BY <2>1 DEF DonatedPart
    <2>4. \A x \in Assets : batch[x] \in Nat
      BY <2>1
    <2> QED BY <1>1, <2>2, <2>3, <2>4 DEF LedgerBalanced
  <1>7. ASSUME UNCHANGED <<vault, treasury, unspent, stakeTotal>>
        PROVE  LedgerBalanced'
    BY <1>7 DEF LedgerBalanced
  <1>8. CASE UNCHANGED projectVars
    BY <1>7, <1>8 DEF projectVars, fundVars, memberVars
  <1> QED
    BY <1>2, <1>3, <1>4, <1>5, <1>6, <1>7, <1>8
    DEF ProjectNext, RequestLeave, RequestUnstake, WhitelistMembers,
        RemoveWhitelistedMembers, TransferProjectOwnership, EmergencyPauseImmediate,
        Tick, fundVars, memberVars

-----------------------------------------------------------------------------
(* The owner, and the pause                                                *)

LEMMA OwnerInit == ProjectInit => OwnerIsMember
  BY DEF ProjectInit, OwnerIsMember

LEMMA OwnerStep ==
    ASSUME OwnerIsMember, [ProjectNext]_projectVars
    PROVE  OwnerIsMember'
  <1>1. ASSUME NEW a \in Accounts, FinishLeave(a)
        PROVE  OwnerIsMember'
    BY <1>1 DEF FinishLeave, LeaveAllowed, RemoveMembers, OwnerIsMember, HasOwner, metaVars
  <1>2. ASSUME NEW a \in Accounts, NEW d \in Deposits, JoinProject(a, d)
        PROVE  OwnerIsMember'
    BY <1>2 DEF JoinProject, AdmitMember, OwnerIsMember, HasOwner, metaVars
  <1>3. ASSUME NEW a \in Accounts, NEW b \in Heirs, TransferProjectOwnership(a, b)
        PROVE  OwnerIsMember'
    BY <1>3 DEF TransferProjectOwnership, OwnerIsMember, HasOwner, memberVars
  <1>4. ASSUME UNCHANGED <<owner, members>>
        PROVE  OwnerIsMember'
    BY <1>4 DEF OwnerIsMember, HasOwner
  <1>5. CASE UNCHANGED projectVars
    BY <1>4, <1>5 DEF projectVars, metaVars, memberVars
  <1> QED
    BY <1>1, <1>2, <1>3, <1>4, <1>5
    DEF ProjectNext, RequestLeave, RequestUnstake, FinishUnstake, AddFundsToTreasury,
        AddFundsToStake, WhitelistMembers, RemoveWhitelistedMembers,
        EmergencyPauseImmediate, Tick, metaVars, memberVars

\* What a step may change while the project is paused.
StakeFrozen ==
    /\ UNCHANGED <<members, history, memberCount, stakeTotal>>
    /\ \A a \in Accounts : member'[a].stake = member[a].stake

LEMMA PauseStep ==
    ASSUME paused, [ProjectNext]_projectVars
    PROVE  StakeFrozen
  BY DEF ProjectNext, JoinProject, JoinAllowed, RequestLeave, FinishLeave, LeaveAllowed,
         RequestUnstake, FinishUnstake, UnstakeAllowed, AddFundsToTreasury,
         AddFundsToStake, WhitelistMembers, RemoveWhitelistedMembers,
         TransferProjectOwnership, EmergencyPauseImmediate, Tick, StakeFrozen,
         projectVars, memberVars

-----------------------------------------------------------------------------
(* The minimum stake                                                       *)

\* What the stake of one member, and its pending unstake, have to satisfy.
MinimumHeld(m) ==
    /\ IF StakeVoting THEN m.stake >= StakeMin ELSE m.stake = StakeMin
    /\ m.unstakeRequested # 0 => m.stake - m.unstakePending >= StakeMin

\* What its history has to satisfy.
EntriesHeld(h) == \A i \in DOMAIN h : h[i].stake >= StakeMin

MinimumKept == \A a \in members : MinimumHeld(member[a]) /\ EntriesHeld(history[a])

LEMMA MinimumByMember == MinimumKept <=> StakesRespectMinimum
  BY DEF MinimumKept, StakesRespectMinimum, MinimumHeld, EntriesHeld

LEMMA EntriesOfOne ==
    ASSUME NEW s \in Nat, s >= StakeMin, NEW t
    PROVE  EntriesHeld(<<[stake |-> s, time |-> t]>>)
  BY DEF EntriesHeld

\* Recording a stake that is at least the minimum.
LEMMA RecordKeepsEntries ==
    ASSUME ProjectTypeOK, NEW a \in Accounts, NEW s \in Nat, s >= StakeMin,
           RecordStake(a, s), EntriesHeld(history[a])
    PROVE  /\ EntriesHeld(history'[a])
           /\ \A b \in Accounts \ {a} : history'[b] = history[b]
  <1> DEFINE e == [stake |-> s, time |-> now + 1]
             n == Len(history[a])
  <1>1. /\ history \in [Accounts -> Seq([stake : Nat, time : Nat])]
        /\ now \in Nat
    BY DEF ProjectTypeOK
  <1>2. history' = [history EXCEPT ![a] = Append(@, e)]
    BY DEF RecordStake, Stamp
  <1>3. e \in [stake : Nat, time : Nat] /\ e.stake = s
    BY <1>1
  <1> HIDE DEF e
  <1>4. /\ history'[a] = Append(history[a], e)
        /\ \A b \in Accounts \ {a} : history'[b] = history[b]
    BY <1>1, <1>2
  <1>5. /\ n \in Nat /\ DOMAIN history[a] = 1 .. n
        /\ DOMAIN history'[a] = 1 .. n + 1
        /\ history'[a][n + 1] = e
        /\ \A i \in 1 .. n : history'[a][i] = history[a][i]
    BY <1>1, <1>3, <1>4
  <1>6. ASSUME NEW i \in 1 .. n + 1
        PROVE  history'[a][i].stake >= StakeMin
    <2>1. CASE i \in 1 .. n
      BY <1>5, <2>1 DEF EntriesHeld
    <2>2. CASE i = n + 1
      BY <1>3, <1>5, <2>2
    <2> QED BY <1>5, <2>1, <2>2
  <1> QED BY <1>4, <1>5, <1>6 DEF EntriesHeld

LEMMA MinimumInit == ProjectInit => MinimumKept
  <1> SUFFICES ASSUME ProjectInit PROVE MinimumKept
    OBVIOUS
  <1>1. StakeMin \in Nat /\ Founder \in Accounts /\ StakeVoting \in BOOLEAN
    BY ProjectConstants DEF ProjectConstants
  <1>2. members = {Founder} /\ member[Founder] = NewMember(StakeMin, 0)
    BY <1>1 DEF ProjectInit
  <1>3. NewMember(StakeMin, 0).stake = StakeMin /\ NewMember(StakeMin, 0).unstakeRequested = 0
    BY DEF NewMember, NoMember
  <1>4. EntriesHeld(history[Founder])
    <2>1. history[Founder] = <<[stake |-> StakeMin, time |-> now]>>
      BY <1>1 DEF ProjectInit
    <2> QED BY <1>1, <2>1, EntriesOfOne
  <1> QED BY <1>1, <1>2, <1>3, <1>4 DEF MinimumKept, MinimumHeld

LEMMA MinimumStep ==
    ASSUME ProjectTypeOK, MinimumKept, [ProjectNext]_projectVars
    PROVE  MinimumKept'
  <1>1. /\ \A a \in members : MinimumHeld(member[a]) /\ EntriesHeld(history[a])
        /\ members \subseteq Accounts
        /\ \A a \in Accounts : member[a] \in Member
        /\ member \in [Accounts -> Member]
        /\ history \in [Accounts -> Seq([stake : Nat, time : Nat])]
    BY DEF MinimumKept, ProjectTypeOK
  <1>2. StakeMin \in Nat /\ StakeVoting \in BOOLEAN
    BY ProjectConstants DEF ProjectConstants
  <1>3. ASSUME NEW a \in Accounts, NEW d \in Deposits, JoinProject(a, d)
        PROVE  MinimumKept'
    <2>1. d \in Nat
      BY ProjectConstants DEF ProjectConstants
    <2>2. DepositAccepted(d)
      BY <1>3 DEF JoinProject, AdmitMember
    <2>3. IF StakeVoting THEN d >= StakeMin ELSE d = StakeMin
      <3>1. CASE StakeMin = 0
        <4>1. d = 0
          BY <1>2, <2>2, <3>1 DEF DepositAccepted
        <4> QED BY <3>1, <4>1
      <3>2. CASE StakeMin > 0 /\ StakeVoting
        BY <1>2, <2>2, <3>2 DEF DepositAccepted
      <3>3. CASE StakeMin > 0 /\ ~StakeVoting
        BY <1>2, <2>2, <3>3 DEF DepositAccepted
      <3> QED BY <1>2, <3>1, <3>2, <3>3
    <2>4. NewMember(d, joinSeq).stake = d /\ NewMember(d, joinSeq).unstakeRequested = 0
      BY DEF NewMember, NoMember
    <2>5. MinimumHeld(NewMember(d, joinSeq))
      BY <2>3, <2>4 DEF MinimumHeld
    <2>6. /\ members' = members \cup {a}
          /\ member' = [member EXCEPT ![a] = NewMember(d, joinSeq)]
          /\ history' = [history EXCEPT ![a] = <<[stake |-> d, time |-> now]>>]
      BY <1>3 DEF JoinProject, AdmitMember
    <2>7. EntriesHeld(<<[stake |-> d, time |-> now]>>)
      <3>1. d >= StakeMin
        BY <1>2, <2>1, <2>3
      <3> QED BY <2>1, <3>1, EntriesOfOne
    <2>8. /\ member'[a] = NewMember(d, joinSeq)
          /\ history'[a] = <<[stake |-> d, time |-> now]>>
          /\ \A b \in Accounts \ {a} : member'[b] = member[b] /\ history'[b] = history[b]
      BY <1>1, <2>6
    <2>9. \A b \in members \ {a} : MinimumHeld(member'[b]) /\ EntriesHeld(history'[b])
      BY <1>1, <2>8
    <2>10. MinimumHeld(member'[a]) /\ EntriesHeld(history'[a])
      BY <2>5, <2>7, <2>8
    <2> QED BY <2>6, <2>9, <2>10 DEF MinimumKept
  <1>4. ASSUME NEW a \in Accounts, RequestLeave(a)
        PROVE  MinimumKept'
    <2>1. /\ members' = members /\ history' = history
          /\ member' = [member EXCEPT ![a].exitRequested = now]
      BY <1>4 DEF RequestLeave
    <2>2. \A b \in members : /\ member'[b].stake = member[b].stake
                             /\ member'[b].unstakeRequested = member[b].unstakeRequested
                             /\ member'[b].unstakePending = member[b].unstakePending
      BY <1>1, <2>1 DEF Member
    <2> QED BY <1>1, <2>1, <2>2 DEF MinimumKept, MinimumHeld
  <1>5. ASSUME NEW a \in Accounts, FinishLeave(a)
        PROVE  MinimumKept'
    BY <1>1, <1>5 DEF FinishLeave, RemoveMembers, MinimumKept
  <1>6. ASSUME NEW a \in Accounts, NEW amount \in UnstakeAmounts, RequestUnstake(a, amount)
        PROVE  MinimumKept'
    <2>1. /\ StakeVoting /\ members' = members /\ history' = history
          /\ member[a].stake - amount >= StakeMin
          /\ member' = [member EXCEPT ![a].unstakeRequested = now,
                                      ![a].unstakePending = amount]
      BY <1>6 DEF RequestUnstake, UnstakeAllowed, Unstakable
    <2>2. /\ member'[a].stake = member[a].stake
          /\ member'[a].unstakePending = amount
      BY <1>1, <2>1 DEF Member
    <2>3. \A b \in members \ {a} : member'[b] = member[b]
      BY <1>1, <2>1
    <2>4. a \in members => MinimumHeld(member'[a])
      BY <1>1, <2>1, <2>2 DEF MinimumHeld
    <2> QED BY <1>1, <2>1, <2>3, <2>4 DEF MinimumKept
  <1>7. ASSUME NEW a \in Accounts, FinishUnstake(a)
        PROVE  MinimumKept'
    <2> DEFINE u == UnstakeAmount(a)
    <2>1. /\ a \in members /\ members' = members
          /\ \A b \in Accounts \ {a} : member'[b] = member[b]
          /\ u \in 0 .. member[a].stake
          /\ member'[a].stake = member[a].stake - u
          /\ member'[a].unstakeRequested = 0
      BY <1>7, FinishUnstakeEffect
    <2>2. StakeVoting /\ member[a].unstakeRequested # 0
      BY <1>7 DEF FinishUnstake, UnstakeAllowed
    <2>3. member[a].stake \in Nat /\ member[a].unstakePending \in Nat
      BY <1>1 DEF Member
    <2>4. member[a].stake - member[a].unstakePending >= StakeMin
      BY <1>1, <2>1, <2>2 DEF MinimumHeld
    <2>5. member[a].stake - u >= StakeMin
      BY <1>2, <2>3, <2>4 DEF UnstakeAmount
    <2> HIDE DEF u
    <2>6. MinimumHeld(member'[a])
      BY <2>1, <2>2, <2>5 DEF MinimumHeld
    <2>7. /\ EntriesHeld(history'[a])
          /\ \A b \in Accounts \ {a} : history'[b] = history[b]
      <3>1. CASE u = 0
        BY <1>1, <1>7, <2>1, <3>1 DEF FinishUnstake, u
      <3>2. CASE u # 0
        <4>1. RecordStake(a, member[a].stake - u)
          BY <1>7, <3>2 DEF FinishUnstake, u
        <4>2. member[a].stake - u \in Nat /\ EntriesHeld(history[a])
          BY <1>1, <2>1, <2>3
        <4> QED BY <2>5, <4>1, <4>2, RecordKeepsEntries
      <3> QED BY <3>1, <3>2
    <2>8. \A b \in members \ {a} : MinimumHeld(member'[b]) /\ EntriesHeld(history'[b])
      BY <1>1, <2>1, <2>7
    <2> QED BY <1>1, <2>1, <2>6, <2>7, <2>8 DEF MinimumKept
  <1>8. ASSUME NEW a \in Accounts, NEW batch \in Batches, AddFundsToStake(a, batch)
        PROVE  MinimumKept'
    <2> DEFINE u == batch[FundsAsset]
    <2>1. /\ a \in members /\ members' = members
          /\ \A b \in Accounts \ {a} : member'[b] = member[b]
          /\ u \in Nat
          /\ member'[a].stake = member[a].stake + u
          /\ member'[a].unstakeRequested = 0
      BY <1>8, AddFundsToStakeEffect
    <2>2. StakeVoting
      BY <1>8 DEF AddFundsToStake
    <2>3. member[a].stake \in Nat /\ member[a].stake >= StakeMin
      BY <1>1, <2>1, <2>2 DEF Member, MinimumHeld
    <2> HIDE DEF u
    <2>4. member[a].stake + u >= StakeMin
      BY <1>2, <2>1, <2>3
    <2>5. MinimumHeld(member'[a])
      BY <2>1, <2>2, <2>4 DEF MinimumHeld
    <2>6. /\ EntriesHeld(history'[a])
          /\ \A b \in Accounts \ {a} : history'[b] = history[b]
      <3>1. RecordStake(a, member[a].stake + u)
        BY <1>8 DEF AddFundsToStake, u
      <3>2. member[a].stake + u \in Nat /\ EntriesHeld(history[a])
        BY <1>1, <2>1, <2>3
      <3> QED BY <2>4, <3>1, <3>2, RecordKeepsEntries
    <2>7. \A b \in members \ {a} : MinimumHeld(member'[b]) /\ EntriesHeld(history'[b])
      BY <1>1, <2>1, <2>6
    <2> QED BY <1>1, <2>1, <2>5, <2>6, <2>7 DEF MinimumKept
  <1>9. ASSUME UNCHANGED memberVars
        PROVE  MinimumKept'
    BY <1>1, <1>9 DEF memberVars, MinimumKept
  <1>10. CASE UNCHANGED projectVars
    BY <1>9, <1>10 DEF projectVars
  <1> QED
    BY <1>3, <1>4, <1>5, <1>6, <1>7, <1>8, <1>9, <1>10
    DEF ProjectNext, AddFundsToTreasury, WhitelistMembers, RemoveWhitelistedMembers,
        TransferProjectOwnership, EmergencyPauseImmediate, Tick

-----------------------------------------------------------------------------
(* The stake history                                                       *)

Entry == [stake : Nat, time : Nat]

GoodHistory(h, stake, t) ==
    /\ h # <<>> /\ h[Len(h)].stake = stake
    /\ \A i \in DOMAIN h : h[i].time <= t + 1
    /\ \A i, j \in DOMAIN h : i < j => h[i].time <= h[j].time

\* No increase of the stake is later than the armed exit, if there is one.
ExitAfter(h, exit) ==
    exit # 0 => \A i \in 2 .. Len(h) :
                    h[i].stake > h[i - 1].stake => h[i].time <= exit + 1

HistoryKept ==
    \A a \in members : /\ GoodHistory(history[a], member[a].stake, now)
                       /\ ExitAfter(history[a], member[a].exitRequested)

LEMMA HistoryByMember == HistoryKept <=> HistoryEndsAtStake /\ ExitArmedAfterTopUps
  BY DEF HistoryKept, HistoryEndsAtStake, ExitArmedAfterTopUps, GoodHistory, ExitAfter

\* A new history has one entry, not later than now.
LEMMA HistoryOfOne ==
    ASSUME NEW stake \in Nat, NEW t \in Nat
    PROVE  /\ GoodHistory(<<[stake |-> stake, time |-> t]>>, stake, t)
           /\ ExitAfter(<<[stake |-> stake, time |-> t]>>, 0)
  BY DEF GoodHistory, ExitAfter

\* Appending an entry stamped one second from now.
LEMMA HistoryExtended ==
    ASSUME NEW h \in Seq(Entry), NEW t \in Nat, NEW stake \in Nat, NEW s \in Nat,
           GoodHistory(h, s, t), NEW exit \in Nat, ExitAfter(h, exit),
           stake > s => exit = 0
    PROVE  LET g == Append(h, [stake |-> stake, time |-> t + 1])
           IN  GoodHistory(g, stake, t) /\ ExitAfter(g, exit)
  <1> DEFINE e == [stake |-> stake, time |-> t + 1]
             g == Append(h, e)
             n == Len(h)
  <1>1. /\ n \in Nat \ {0} /\ DOMAIN h = 1 .. n
        /\ h[n].stake = s
        /\ \A i \in 1 .. n : h[i] \in Entry
    BY DEF GoodHistory
  <1>2. /\ Len(g) = n + 1 /\ DOMAIN g = 1 .. n + 1
        /\ g # <<>> /\ g[n + 1] = e
        /\ \A i \in 1 .. n : g[i] = h[i]
    <2>1. e \in Entry
      BY DEF Entry
    <2> HIDE DEF e
    <2> QED BY <1>1, <2>1
  <1>3. e.stake = stake /\ e.time = t + 1
    OBVIOUS
  <1> HIDE DEF e, g
  <1>4. GoodHistory(g, stake, t)
    <2>1. \A i \in 1 .. n : h[i].time <= t + 1 /\ h[i].time \in Nat
      BY <1>1 DEF GoodHistory, Entry
    <2>2. \A i, j \in 1 .. n : i < j => h[i].time <= h[j].time
      BY <1>1 DEF GoodHistory
    <2> HIDE DEF n
    <2>3. \A i \in 1 .. n + 1 : g[i].time <= t + 1
      <3> TAKE i \in 1 .. n + 1
      <3>1. CASE i \in 1 .. n
        BY <1>2, <2>1, <3>1
      <3>2. CASE i = n + 1
        BY <1>2, <1>3, <3>2
      <3> QED BY <1>1, <3>1, <3>2
    <2>4. ASSUME NEW i \in 1 .. n + 1, NEW j \in 1 .. n + 1, i < j
          PROVE  g[i].time <= g[j].time
      <3>1. i \in 1 .. n
        BY <1>1, <2>4
      <3>2. CASE j \in 1 .. n
        BY <1>2, <2>2, <2>4, <3>1, <3>2
      <3>3. CASE j = n + 1
        BY <1>2, <1>3, <2>1, <3>1, <3>3
      <3> QED BY <1>1, <3>2, <3>3
    <2> QED BY <1>2, <1>3, <2>3, <2>4 DEF GoodHistory
  <1>5. ExitAfter(g, exit)
    <2> SUFFICES ASSUME exit # 0, NEW i \in 2 .. n + 1, g[i].stake > g[i - 1].stake
                 PROVE  g[i].time <= exit + 1
      BY <1>2 DEF ExitAfter
    <2>1. CASE i \in 2 .. n
      <3>1. i \in 1 .. n /\ i - 1 \in 1 .. n
        BY <1>1, <2>1
      <3>2. g[i] = h[i] /\ g[i - 1] = h[i - 1]
        BY <1>2, <3>1
      <3>3. \A k \in 2 .. n : h[k].stake > h[k - 1].stake => h[k].time <= exit + 1
        BY DEF ExitAfter
      <3> QED BY <2>1, <3>2, <3>3
    <2>2. CASE i = n + 1
      <3>1. g[i].stake = stake /\ g[i - 1].stake = s
        <4>1. i - 1 = n /\ n \in 1 .. n
          BY <1>1, <2>2
        <4> QED BY <1>1, <1>2, <1>3, <2>2, <4>1
      <3> QED BY <3>1
    <2> QED BY <1>1, <2>1, <2>2
  <1> QED BY <1>4, <1>5 DEF g, e

LEMMA EntryOfHistory ==
    ASSUME NEW h \in Seq(Entry), NEW i \in DOMAIN h
    PROVE  h[i] \in Entry
  OBVIOUS

LEMMA HistoryInit == ProjectInit => HistoryKept
  <1> SUFFICES ASSUME ProjectInit PROVE HistoryKept
    OBVIOUS
  <1>1. Founder \in Accounts /\ StakeMin \in Nat
    BY ProjectConstants DEF ProjectConstants
  <1>2. members = {Founder} /\ member[Founder] = NewMember(StakeMin, 0) /\ now = 1
    BY <1>1 DEF ProjectInit
  <1>3. history[Founder] = <<[stake |-> StakeMin, time |-> now]>>
    BY <1>1 DEF ProjectInit
  <1>4. NewMember(StakeMin, 0).stake = StakeMin /\ NewMember(StakeMin, 0).exitRequested = 0
    BY DEF NewMember, NoMember
  <1>5. /\ GoodHistory(<<[stake |-> StakeMin, time |-> now]>>, StakeMin, now)
        /\ ExitAfter(<<[stake |-> StakeMin, time |-> now]>>, 0)
    BY <1>1, <1>2, HistoryOfOne
  <1> QED BY <1>2, <1>3, <1>4, <1>5 DEF HistoryKept

\* A step that extends the history of one member to its new stake.
LEMMA RecordKeepsHistory ==
    ASSUME ProjectTypeOK, HistoryKept, NEW a \in members, NEW s \in Nat,
           RecordStake(a, s), member'[a].stake = s,
           \A b \in Accounts \ {a} : member'[b] = member[b],
           UNCHANGED <<members, now>>,
           \/ member'[a].exitRequested = 0
           \/ /\ s < member[a].stake
              /\ member'[a].exitRequested = member[a].exitRequested
    PROVE  HistoryKept'
  <1>1. /\ members \subseteq Accounts /\ now \in Nat
        /\ history \in [Accounts -> Seq(Entry)]
        /\ member[a].stake \in Nat /\ member[a].exitRequested \in Nat
    BY DEF ProjectTypeOK, Member, Entry
  <1>2. history' = [history EXCEPT ![a] = Append(@, [stake |-> s, time |-> now + 1])]
    BY DEF RecordStake, Stamp
  <1>3. /\ history'[a] = Append(history[a], [stake |-> s, time |-> now + 1])
        /\ \A b \in Accounts \ {a} : history'[b] = history[b]
    BY <1>1, <1>2
  <1>4. /\ GoodHistory(history[a], member[a].stake, now)
        /\ ExitAfter(history[a], member[a].exitRequested)
        /\ history[a] \in Seq(Entry)
    BY <1>1 DEF HistoryKept
  <1>5. GoodHistory(history'[a], s, now) /\ ExitAfter(history'[a], member'[a].exitRequested)
    <2>1. CASE member'[a].exitRequested = 0
      <3>1. ExitAfter(history[a], 0)
        BY DEF ExitAfter
      <3>2. LET g == Append(history[a], [stake |-> s, time |-> now + 1])
            IN  GoodHistory(g, s, now) /\ ExitAfter(g, 0)
        BY <1>1, <1>4, <3>1, HistoryExtended
      <3> QED BY <1>3, <2>1, <3>2
    <2>2. CASE /\ s < member[a].stake
               /\ member'[a].exitRequested = member[a].exitRequested
      <3>1. ~ (s > member[a].stake)
        BY <1>1, <2>2
      <3> QED BY <1>1, <1>3, <1>4, <2>2, <3>1, HistoryExtended
    <2> QED BY <2>1, <2>2
  <1>6. \A b \in members \ {a} : /\ GoodHistory(history'[b], member'[b].stake, now)
                                 /\ ExitAfter(history'[b], member'[b].exitRequested)
    BY <1>1, <1>3 DEF HistoryKept
  <1> QED BY <1>5, <1>6 DEF HistoryKept

LEMMA HistoryStep ==
    ASSUME ProjectTypeOK, HistoryKept, [ProjectNext]_projectVars
    PROVE  HistoryKept'
  <1>1. /\ members \subseteq Accounts /\ now \in Nat /\ now # 0
        /\ history \in [Accounts -> Seq(Entry)]
        /\ member \in [Accounts -> Member]
    BY DEF ProjectTypeOK, Entry
  <1>2. ASSUME NEW a \in Accounts, NEW d \in Deposits, JoinProject(a, d)
        PROVE  HistoryKept'
    <2>1. d \in Nat
      BY ProjectConstants DEF ProjectConstants
    <2>2. /\ members' = members \cup {a} /\ now' = now
          /\ member' = [member EXCEPT ![a] = NewMember(d, joinSeq)]
          /\ history' = [history EXCEPT ![a] = <<[stake |-> d, time |-> now]>>]
      BY <1>2 DEF JoinProject, AdmitMember
    <2>3. NewMember(d, joinSeq).stake = d /\ NewMember(d, joinSeq).exitRequested = 0
      BY DEF NewMember, NoMember
    <2>4. /\ GoodHistory(<<[stake |-> d, time |-> now]>>, d, now)
          /\ ExitAfter(<<[stake |-> d, time |-> now]>>, 0)
      BY <1>1, <2>1, HistoryOfOne
    <2>5. /\ history'[a] = <<[stake |-> d, time |-> now]>>
          /\ member'[a] = NewMember(d, joinSeq)
          /\ \A b \in Accounts \ {a} : history'[b] = history[b] /\ member'[b] = member[b]
      BY <1>1, <2>2
    <2>6. /\ GoodHistory(history'[a], member'[a].stake, now')
          /\ ExitAfter(history'[a], member'[a].exitRequested)
      BY <2>2, <2>3, <2>4, <2>5
    <2>7. \A b \in members \ {a} : /\ GoodHistory(history'[b], member'[b].stake, now')
                                   /\ ExitAfter(history'[b], member'[b].exitRequested)
      BY <1>1, <2>2, <2>5 DEF HistoryKept
    <2> QED BY <2>2, <2>6, <2>7 DEF HistoryKept
  <1>3. ASSUME NEW a \in Accounts, RequestLeave(a)
        PROVE  HistoryKept'
    <2>1. /\ members' = members /\ now' = now /\ history' = history
          /\ a \in members
          /\ member' = [member EXCEPT ![a].exitRequested = now]
      BY <1>3 DEF RequestLeave, LeaveAllowed
    <2>2. /\ \A b \in Accounts : member'[b].stake = member[b].stake
          /\ \A b \in Accounts \ {a} : member'[b] = member[b]
          /\ member'[a].exitRequested = now
      BY <1>1, <2>1 DEF Member
    <2>3. ExitAfter(history[a], now)
      <3>1. \A i \in DOMAIN history[a] : history[a][i].time <= now + 1
        BY <2>1 DEF HistoryKept, GoodHistory
      <3>2. DOMAIN history[a] = 1 .. Len(history[a]) /\ Len(history[a]) \in Nat
        BY <1>1
      <3> QED BY <3>1, <3>2 DEF ExitAfter
    <2> QED BY <1>1, <2>1, <2>2, <2>3 DEF HistoryKept
  <1>4. ASSUME NEW a \in Accounts, FinishLeave(a)
        PROVE  HistoryKept'
    <2>1. /\ members' = members \ {a} /\ now' = now
          /\ \A b \in Accounts \ {a} : history'[b] = history[b] /\ member'[b] = member[b]
      BY <1>4 DEF FinishLeave, RemoveMembers
    <2> QED BY <1>1, <2>1 DEF HistoryKept
  <1>5. ASSUME NEW a \in Accounts, NEW amount \in UnstakeAmounts, RequestUnstake(a, amount)
        PROVE  HistoryKept'
    <2>1. /\ members' = members /\ now' = now /\ history' = history
          /\ member' = [member EXCEPT ![a].unstakeRequested = now,
                                      ![a].unstakePending = amount]
      BY <1>5 DEF RequestUnstake
    <2>2. \A b \in Accounts : /\ member'[b].stake = member[b].stake
                              /\ member'[b].exitRequested = member[b].exitRequested
      BY <1>1, <2>1 DEF Member
    <2> QED BY <1>1, <2>1, <2>2 DEF HistoryKept
  <1>6. ASSUME NEW a \in Accounts, FinishUnstake(a)
        PROVE  HistoryKept'
    <2> DEFINE u == UnstakeAmount(a)
               s == member[a].stake - u
    <2>1. /\ a \in members /\ members' = members
          /\ \A b \in Accounts \ {a} : member'[b] = member[b]
          /\ u \in 0 .. member[a].stake
          /\ member'[a].stake = s
          /\ member'[a].exitRequested = member[a].exitRequested
      BY <1>6, FinishUnstakeEffect
    <2>2. member[a].stake \in Nat /\ now' = now
      BY <1>1, <1>6 DEF FinishUnstake, Member
    <2>3. CASE u = 0
      <3>1. history' = history
        BY <1>6, <2>3 DEF FinishUnstake
      <3>2. member'[a].stake = member[a].stake
        BY <2>1, <2>2, <2>3
      <3> QED BY <1>1, <2>1, <2>2, <3>1, <3>2 DEF HistoryKept
    <2>4. CASE u # 0
      <3>1. RecordStake(a, s)
        BY <1>6, <2>4 DEF FinishUnstake
      <3>2. s \in Nat /\ s < member[a].stake
        <4> HIDE DEF u
        <4> QED BY <2>1, <2>2, <2>4
      <3> HIDE DEF s
      <3> QED BY <2>1, <2>2, <3>1, <3>2, RecordKeepsHistory
    <2> QED BY <2>3, <2>4
  <1>7. ASSUME NEW a \in Accounts, NEW batch \in Batches, AddFundsToStake(a, batch)
        PROVE  HistoryKept'
    <2> DEFINE s == member[a].stake + batch[FundsAsset]
    <2>1. /\ a \in members /\ members' = members /\ now' = now
          /\ \A b \in Accounts \ {a} : member'[b] = member[b]
          /\ batch[FundsAsset] \in Nat
          /\ member'[a].stake = s
          /\ member'[a].exitRequested = 0
      BY <1>7, AddFundsToStakeEffect DEF AddFundsToStake
    <2>2. s \in Nat
      BY <1>1, <2>1 DEF Member
    <2>3. RecordStake(a, s)
      BY <1>7 DEF AddFundsToStake
    <2> HIDE DEF s
    <2> QED BY <2>1, <2>2, <2>3, RecordKeepsHistory
  <1>8. CASE Tick
    <2>1. UNCHANGED memberVars /\ now' = now + 1
      BY <1>8 DEF Tick
    <2>2. ASSUME NEW a \in members
          PROVE  GoodHistory(history[a], member[a].stake, now + 1)
      <3>1. history[a] \in Seq(Entry) /\ GoodHistory(history[a], member[a].stake, now)
        BY <1>1 DEF HistoryKept
      <3>2. \A i \in DOMAIN history[a] : history[a][i].time \in Nat
        BY <3>1, EntryOfHistory DEF Entry
      <3> QED BY <1>1, <3>1, <3>2 DEF GoodHistory
    <2> QED BY <2>1, <2>2 DEF HistoryKept, memberVars
  <1>9. ASSUME UNCHANGED memberVars, now' = now
        PROVE  HistoryKept'
    BY <1>9 DEF HistoryKept, memberVars
  <1>10. CASE UNCHANGED projectVars
    BY <1>9, <1>10 DEF projectVars
  <1> QED
    BY <1>2, <1>3, <1>4, <1>5, <1>6, <1>7, <1>8, <1>9, <1>10
    DEF ProjectNext, AddFundsToTreasury, WhitelistMembers, RemoveWhitelistedMembers,
        TransferProjectOwnership, EmergencyPauseImmediate

-----------------------------------------------------------------------------
(* The inductive invariant                                                 *)

ProjectInv ==
    /\ ProjectTypeOK
    /\ FinanceMatchesMembers
    /\ LedgerBalanced
    /\ OwnerIsMember
    /\ MinimumKept
    /\ HistoryKept

LEMMA ProjectInvInit == ProjectInit => ProjectInv
  BY ProjectInitTyped, FinanceInit, LedgerInit, OwnerInit, MinimumInit, HistoryInit
  DEF ProjectInv

LEMMA ProjectInvStep == ProjectInv /\ [ProjectNext]_projectVars => ProjectInv'
  <1> SUFFICES ASSUME ProjectInv, [ProjectNext]_projectVars
               PROVE  ProjectInv'
    OBVIOUS
  <1>1. ProjectTypeOK
    BY DEF ProjectInv
  <1>2. ProjectTypeOK'
    BY <1>1, ProjectStepTyped
  <1>3. FinanceMatchesMembers' /\ LedgerBalanced'
    BY <1>1, FinanceStep, LedgerStep DEF ProjectInv
  <1>4. OwnerIsMember' /\ MinimumKept' /\ HistoryKept'
    BY <1>1, OwnerStep, MinimumStep, HistoryStep DEF ProjectInv
  <1> QED BY <1>2, <1>3, <1>4 DEF ProjectInv

\* Holds in every state, whatever is called in whatever order.
THEOREM ProjectInvariant == ProjectSpec => []ProjectInv
  BY ProjectInvInit, ProjectInvStep, PTL DEF ProjectSpec

-----------------------------------------------------------------------------
(* Theorems                                                                *)

\* The aborts of refunds that leave and kick_member have for an accounting
\* error never happen: the stakes of any members are within the recorded total
\* and within what the host holds.
RefundsCovered ==
    \A K \in SUBSET members :
        /\ StakeOf(K) \in 0 .. stakeTotal
        /\ StakeOf(K) <= vault[FundsAsset]
        /\ Cardinality(K) <= memberCount

LEMMA InvCoversRefunds == ProjectInv => RefundsCovered
  <1> SUFFICES ASSUME ProjectInv, NEW K \in SUBSET members
               PROVE  /\ StakeOf(K) \in 0 .. stakeTotal
                      /\ StakeOf(K) <= vault[FundsAsset]
                      /\ Cardinality(K) <= memberCount
    BY DEF RefundsCovered
  <1>1. ProjectTypeOK /\ FinanceMatchesMembers /\ LedgerBalanced
    BY DEF ProjectInv
  <1>2. /\ IsFiniteSet(members) /\ Stakes \in [Accounts -> Nat]
        /\ StakeOf(K) \in Nat /\ StakeOf(members \ K) \in Nat
        /\ members \subseteq Accounts
    BY <1>1, StakesTyped
  <1>3. StakeOf(members) = StakeOf(K) + StakeOf(members \ K)
    <2>1. \A x \in members : Stakes[x] \in Nat
      BY <1>2
    <2> QED BY <1>2, <2>1, SumOfParts DEF StakeOf
  <1>4. stakeTotal = StakeOf(members)
    BY <1>1 DEF FinanceMatchesMembers
  <1>5. Cardinality(K) <= memberCount
    BY <1>1, <1>2, FS_Subset DEF FinanceMatchesMembers
  <1>6. stakeTotal <= vault[FundsAsset]
    BY <1>1, BalancesTyped DEF LedgerBalanced
  <1>7. vault[FundsAsset] \in Nat
    BY <1>1, BalancesTyped
  <1> QED BY <1>2, <1>3, <1>4, <1>5, <1>6, <1>7

\* The membership entry points keep the aggregates exact, the ledger balanced,
\* the owner a member, every stake at its minimum, the stake histories current,
\* exits no older than top-ups, and every refund covered.
THEOREM MembershipSafe ==
    ProjectSpec => [](/\ FinanceMatchesMembers /\ LedgerBalanced /\ OwnerIsMember
                      /\ StakesRespectMinimum /\ HistoryEndsAtStake
                      /\ ExitArmedAfterTopUps /\ RefundsCovered)
  <1>1. ProjectInv => /\ FinanceMatchesMembers /\ LedgerBalanced /\ OwnerIsMember
                      /\ StakesRespectMinimum /\ HistoryEndsAtStake
                      /\ ExitArmedAfterTopUps /\ RefundsCovered
    BY MinimumByMember, HistoryByMember, InvCoversRefunds DEF ProjectInv
  <1> QED BY <1>1, ProjectInvariant, PTL

\* While a project is paused no membership entry point changes its members or
\* what they have at stake.
THEOREM PauseFreezes == ProjectSpec => PauseFreezesStake
  <1>1. [ProjectNext]_projectVars
          => [paused => /\ UNCHANGED <<members, history, memberCount, stakeTotal>>
                        /\ \A a \in Accounts : member'[a].stake = member[a].stake]_projectVars
    BY PauseStep DEF StakeFrozen
  <1> QED BY <1>1, PTL DEF ProjectSpec, PauseFreezesStake
=============================================================================
