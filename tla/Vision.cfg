CONSTANTS
    Images = {i1}
    NumUploaders = 2
    NumDeleters = 2
    NumSubmitters = 2
    MaxQueue = 1
    MaxScan = 2
    MaxFiles = 2
    MaxAnalyses = 3
    MaxStops = 1
    MaxCrashes = 1
    None = None
SPECIFICATION Spec
INVARIANTS RowHasFile OrphansComeFromFailures ActiveRowsHaveOwners OvershootIsBounded ShutdownLeavesNoneActive
PROPERTIES ImplementsVisionContract
CHECK_DEADLOCK FALSE
