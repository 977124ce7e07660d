SPECIFICATION ProjectSpec
SYMMETRY MCSymmetry
CONSTANTS
    f = f
    a = a
    b = b
    none = none
    hive = hive
    hbd = hbd
    Accounts = {f, a, b}
    NoAccount = none
    Founder = f
    Assets = {hive, hbd}
    FundsAsset = hive
    StakeVoting = TRUE
    StakeMin = 1
    FoundingExcess = 1
    FullPercent = 100
    AmountScale = 1
    Hour = 1
    Deposits = {1, 2}
    UnstakeAmounts = {1}
    MaxTime = 4
    MaxHolding = 4
    MaxJoinSeq = 3
    MaxHistory = 3
    InitialConfig <- MCConfig
    Batches <- MCBatches
    Heirs = {f, a, b}
    PauseCalls = {TRUE, FALSE}
    AddressLists <- MCAddressLists
INVARIANTS
    ProjectTypeOK
    FinanceMatchesMembers
    LedgerBalanced
    OwnerIsMember
    StakesRespectMinimum
    HistoryEndsAtStake
    ExitArmedAfterTopUps
PROPERTIES
    PauseFreezesStake
CHECK_DEADLOCK FALSE
