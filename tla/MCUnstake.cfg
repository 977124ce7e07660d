SPECIFICATION Spec
CONSTANTS
    f = f
    a = a
    b = b
    none = none
    hive = hive
    Accounts = {f, a}
    NoAccount = none
    Founder = f
    Assets = {hive}
    FundsAsset = hive
    StakeVoting = TRUE
    StakeMin = 1
    FoundingExcess = 0
    FullPercent = 100
    AmountScale = 1
    MinPercent = 1
    MaxPercent = 100
    MaxVotingHours = 2
    MaxDelayHours = 2
    Hour = 1
    Deposits = {2}
    UnstakeAmounts = {1}
    Durations = {0}
    Forms <- Ballot
    ChoiceSets <- NoOrYes
    MaxTime = 4
    MaxHolding = 4
    MaxJoinSeq = 2
    MaxHistory = 3
    MaxOptions = 2
    MaxProposals = 1
    InitialConfig <- LongVoteConfig
    Outcomes <- NothingToDo
    Batches <- OneBatch
    AddressLists = {}
    Heirs = {}
    PauseCalls = {}
    Proposers = {f}
INVARIANTS
    TotalsMatchReceipts
    BallotsBackedByStake
PROPERTIES
    VotersStayUntilDeadline
CHECK_DEADLOCK FALSE
