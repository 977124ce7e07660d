SPECIFICATION CallbackSpec
CONSTANTS
    f = f
    a = a
    none = none
    hive = hive
    Accounts = {f, a}
    NoAccount = none
    Founder = f
    Assets = {hive}
    FundsAsset = hive
    StakeVoting = FALSE
    StakeMin = 0
    FoundingExcess = 0
    FullPercent = 100
    AmountScale = 1
    MinPercent = 1
    MaxPercent = 100
    MaxVotingHours = 2
    MaxDelayHours = 2
    Hour = 1
    Deposits = {0}
    UnstakeAmounts = {}
    Durations = {}
    ChoiceSets = {}
    MaxTime = 2
    MaxHolding = 4
    MaxJoinSeq = 3
    MaxHistory = 2
    MaxOptions = 2
    MaxProposals = 1
    MaxDepth = 2
    Entries = {"project_join"}
    Forms <- Ballot
    InitialConfig <- OpenConfig
    Outcomes <- NothingAsked
    Batches <- NothingAsked
    AddressLists = {}
    Heirs = {}
    PauseCalls = {}
    Proposers = {}
    Uses <- AnyUse
INVARIANTS
    FinanceMatchesMembers
CHECK_DEADLOCK FALSE
