SPECIFICATION Spec
CONSTANTS
    Handlers = {h1, h2}
    Faults = FALSE
    MaxScans = 2
INVARIANT StopReleasesCamera
