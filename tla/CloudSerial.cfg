CONSTANTS
    Clients = {"eod", "intraday"}
    Names = {"sb-remote"}
    NameOf <- ProjectOf
    Forced = {}
    FilePaths <- Modes
    Imports <- ModeImports
    Files = {1, 2}
    Versions <- ThreeVersions
    Reverts = FALSE
    Deletes = FALSE
    Concurrent = FALSE
    LegacyOwners = {"sb-remote"}
    MaxProjects = 2
    MaxStarts = 3
    MaxTries = 2
SPECIFICATION Spec
CHECK_DEADLOCK FALSE
INVARIANTS
    
    
    OneProjectPerName
PROPERTIES
    ProcessesEnd
