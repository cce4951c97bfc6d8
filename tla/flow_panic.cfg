SPECIFICATION Spec
CONSTANTS
    NAddons = 1
    Limit = 2
    Sizes <- BodySizes
    MaxRequests = 2
INVARIANT OnlyAddonsPanic
