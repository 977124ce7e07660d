SPECIFICATION StorageSpec
CONSTANTS
    MaxPayoutReceivers = 2
    MaxICCCalls = 2
    MaxProposalOptions = 2
    MaxRecords = 2
    RecordIds <- AllRecords
    Shapes <- SomeShapes
INVARIANTS
    RecordsStayApart
    SavedCanBeLoaded
    FieldsKeepTheirMeaning
    RulesReadNoDefault
