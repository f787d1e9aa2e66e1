SPECIFICATION Spec
CONSTANTS
    Sent <- SentDef
    Unknown <- UnknownDef
    Params = {"p", "q"}
    Loads <- LoadsDef
    Mappings <- MappingsDef
    Console <- ConsoleDef
    MaxMessages = 4
    MaxUpsets = 1
INVARIANTS TypeOK DecodesInStep
PROPERTIES SavedIsPlayed LatestIsShown
