SPECIFICATION Spec
CONSTANTS
    f = f
    a = a
    b = b
    none = none
    hive = hive
    Accounts = {f, a}
    NoAccount = none
    Founder = f
    Assets = {hive}
    FundsAsset = hive
    StakeVoting = FALSE
    StakeMin = 1
    FoundingExcess = 1
    FullPercent = 100
    AmountScale = 1
    MinPercent = 1
    MaxPercent = 100
    MaxVotingHours = 2
    MaxDelayHours = 2
    Hour = 1
    Deposits = {1}
    UnstakeAmounts = {}
    Durations = {0}
    Forms <- Ballot
    ChoiceSets <- NoOrYes
    MaxTime = 3
    MaxHolding = 5
    MaxJoinSeq = 3
    MaxHistory = 3
    MaxOptions = 2
    MaxProposals = 1
    InitialConfig <- RecoveryConfig
    Outcomes <- Recoveries
    Batches <- NoBatches
    AddressLists = {}
    Heirs = {a}
    PauseCalls = {TRUE, FALSE}
    Proposers = {f, a}
INVARIANTS
    TypeOK
    LedgerBalanced
    OwnerIsMember
PROPERTIES
    TreasuryMovesByDecision
    PauseFreezesStake
CHECK_DEADLOCK FALSE
