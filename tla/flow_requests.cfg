SPECIFICATION Spec
CONSTANTS
    NAddons = 2
    Limit = 2
    Sizes <- BodySizes
    MaxRequests = 3
INVARIANTS TypeOK AnsweredOnce BodiesWhole StreamSkipsHooks EncodingFitsBody
