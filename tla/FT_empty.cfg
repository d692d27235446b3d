SPECIFICATION FairSpec
CONSTANTS
    Files = {f1}
    ChunksOf <- EmptyFile
    NameOf <- SameName
    NoFile = NoFile
    Inline = TRUE
    IoFaults = FALSE
    MaxRestarts = 0
CHECK_DEADLOCK FALSE
PROPERTY EverySendIsSaved
