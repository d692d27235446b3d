SPECIFICATION Spec
CONSTANTS
    Files = {f1, f2, f3}
    ChunksOf <- OneChunk
    NameOf <- SameName
    NoFile = NoFile
    Inline = TRUE
    IoFaults = FALSE
    MaxRestarts = 0
CHECK_DEADLOCK FALSE
PROPERTY ChosenNameIsFree
