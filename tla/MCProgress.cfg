SPECIFICATION ProgressSpec
CONSTANTS
    f = f
    a = a
    none = none
    hive = hive
    Accounts = {f, a}
    NoAccount = none
    Founder = f
    Assets = {hive}
    FundsAsset = hive
    StakeVoting = TRUE
    StakeMin = 1
    FoundingExcess = 1
    FullPercent = 100
    AmountScale = 1
    MinPercent = 1
    MaxPercent = 100
    MaxVotingHours = 2
    MaxDelayHours = 2
    Hour = 1
    Deposits = {2}
    UnstakeAmounts = {}
    Durations = {0}
    Forms <- Ballot
    ChoiceSets <- NoOrYes
    MaxTime = 3
    MaxHolding = 4
    MaxJoinSeq = 2
    MaxHistory = 3
    MaxOptions = 2
    MaxProposals = 1
    InitialConfig <- BaseConfig
    Outcomes <- RecoveriesAndPayouts
    Batches <- NoBatches
    AddressLists = {}
    Heirs = {a}
    PauseCalls = {TRUE, FALSE}
    Proposers = {a}
PROPERTIES
    VotesAreDecided
    RecoveriesGoThrough
    LocksAreReleased
    ExitsComplete
CHECK_DEADLOCK FALSE
