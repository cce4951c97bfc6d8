SPECIFICATION IpaSpec
CONSTANTS
    NoApp = NoApp
    Apps <- AllApps
    Faults <- AllFaults
    Platforms = {"unix", "windows"}
    MaxCalls = 3
INVARIANTS IpaTypeOK SavedIsComplete PanicsOnlyWithoutSinfs
PROPERTIES ReplacedOnlyByDownload PackageSurvives
