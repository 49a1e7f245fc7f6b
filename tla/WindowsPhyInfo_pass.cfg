CONSTANTS
    Words <- MC_Words
    NumTags <- MC_NumTags
    ForWord = "for"
    Lower <- MC_Lower
    Names <- MC_Names
    PhyInfos <- MC_PhyInfos
    Width <- MC_Width
    MaxRows = 3
SPECIFICATION Spec
INVARIANTS
    NarrowRequestedAdapterReported
    ReportedFromRequestedOrFirst
CHECK_DEADLOCK FALSE
