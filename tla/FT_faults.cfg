SPECIFICATION FairSpec
CONSTANTS
    Files = {f1}
    ChunksOf <- TwoChunks
    NameOf <- SameName
    NoFile = NoFile
    Inline = FALSE
    IoFaults = TRUE
    MaxRestarts = 1
CHECK_DEADLOCK FALSE
INVARIANTS TypeOK SavedIsIntact FailedSendIsNeverSaved SentIsReceived TakenLeavesNoEntry
PROPERTIES SendReturns UsesTransport
