SPECIFICATION FairSpec
CONSTANTS
    Paths = {"p", "q"}
    Contents = {"a", "b"}
    Clients = {"c1", "c2"}
    Incomplete = {"unstable"}
    Baselines = {"complete", "legacy_unobserved"}
    InitialFiles <- MCInitialFiles
    MaxWrites = 1
    MaxEdits = 1
    MaxCrashes = 1
    MaxPauses = 1
    MaxRequests = 2
    MaxEvents = 8
INVARIANT CheckpointsTrue ProvenanceTrue DeletedOnDecision
PROPERTY RetainedAsFrozen DiscardFinishes
CHECK_DEADLOCK FALSE
