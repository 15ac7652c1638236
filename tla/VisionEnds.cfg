CONSTANTS
    Images = {i1}
    NumUploaders = 1
    NumDeleters = 1
    NumSubmitters = 2
    MaxQueue = 2
    MaxScan = 2
    MaxFiles = 2
    MaxAnalyses = 2
    MaxStops = 1
    MaxCrashes = 1
    None = None
SPECIFICATION FairSpec
PROPERTIES AnalysesEnd
CHECK_DEADLOCK FALSE
