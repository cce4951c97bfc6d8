SPECIFICATION IpaSpec
CONSTANTS
    NoApp = NoApp
    Apps <- AllApps
    Faults = {}
    Platforms = {"unix"}
    MaxCalls = 1
INVARIANTS SinfsReplicated
