SPECIFICATION Spec
CONSTANTS
    f = f
    a = a
    b = b
    none = none
    hive = hive
    Accounts = {f, a}
    NoAccount = none
    Founder = f
    Assets = {hive}
    FundsAsset = hive
    StakeVoting = TRUE
    StakeMin = 1
    FoundingExcess = 0
    FullPercent = 100
    AmountScale = 1
    MinPercent = 1
    MaxPercent = 100
    MaxVotingHours = 2
    MaxDelayHours = 2
    Hour = 1
    Deposits = {1, 2}
    UnstakeAmounts = {}
    Durations = {0}
    Forms <- BallotOrPoll
    ChoiceSets <- OneOrTwo
    MaxTime = 3
    MaxHolding = 4
    MaxJoinSeq = 3
    MaxHistory = 3
    MaxOptions = 3
    MaxProposals = 1
    InitialConfig <- BaseConfig
    Outcomes <- NothingToDo
    Batches <- OneBatch
    AddressLists = {}
    Heirs = {}
    PauseCalls = {}
    Proposers = {f}
INVARIANTS
    TotalsMatchReceipts
    BallotsWithinSnapshot
    PassedWasApproved
PROPERTIES
    ImplementsDecisions
CHECK_DEADLOCK FALSE
