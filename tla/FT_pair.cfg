SPECIFICATION Spec
CONSTANTS
    Files = {f1, f2}
    ChunksOf <- OneChunk
    NameOf <- SameName
    NoFile = NoFile
    Inline = FALSE
    IoFaults = TRUE
    MaxRestarts = 1
SYMMETRY Interchangeable
CHECK_DEADLOCK FALSE
INVARIANT SavedIsIntact
PROPERTIES ImplementsDelivery TempFileIsNotRecreated
