CONSTANTS
    Clients = {"eod", "sweep", "sweep2"}
    Names = {"sb-remote", "sb-orb-sweep"}
    NameOf <- ProjectOf
    Forced = {"sweep", "sweep2"}
    FilePaths <- Modes
    Imports <- ModeImports
    Files = {1, 2}
    Versions <- TwoVersions
    Reverts = TRUE
    Deletes = TRUE
    Concurrent = TRUE
    LegacyOwners = {"sb-remote"}
    MaxProjects = 3
    MaxStarts = 2
    MaxTries = 2
SPECIFICATION Spec
CHECK_DEADLOCK FALSE
INVARIANTS
    ForcedSyncHeals
