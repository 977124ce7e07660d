SPECIFICATION CallbackSpec
CONSTANTS
    f = f
    a = a
    none = none
    hive = hive
    Accounts = {f, a}
    NoAccount = none
    Founder = f
    Assets = {hive}
    FundsAsset = hive
    StakeVoting = TRUE
    StakeMin = 1
    FoundingExcess = 1
    FullPercent = 100
    AmountScale = 1
    MinPercent = 1
    MaxPercent = 100
    MaxVotingHours = 2
    MaxDelayHours = 2
    Hour = 1
    Deposits = {1}
    UnstakeAmounts = {1}
    Durations = {0}
    ChoiceSets = {{1}}
    MaxTime = 2
    MaxHolding = 3
    MaxJoinSeq = 2
    MaxHistory = 2
    MaxOptions = 2
    MaxProposals = 2
    MaxDepth = 2
    Entries = {"project_join", "project_leave", "project_funds", "project_whitelist", "proposal_execute", "project_pause", "project_transfer", "project_unstake"}
    Forms <- Ballot
    InitialConfig <- InviteConfig
    Outcomes <- CallsAndInvites
    Batches <- OneBatch
    AddressLists = {{a}}
    Heirs = {a}
    PauseCalls = {TRUE}
    Proposers = {f}
    Uses <- NoJoinWhileJoining
INVARIANTS
    FinanceMatchesMembers
    LedgerBalanced
    DebitedOnce
    ApprovalsPending
CHECK_DEADLOCK FALSE
