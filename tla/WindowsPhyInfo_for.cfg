CONSTANTS
    Words <- MC_Words
    NumTags <- MC_NumTags
    ForWord = "for"
    Lower <- MC_Lower
    Names <- MC_NamesFor
    PhyInfos <- MC_PhyInfos
    Width <- MC_Width
    MaxRows = 2
SPECIFICATION Spec
INVARIANTS
    RequestedAdapterReported
CHECK_DEADLOCK FALSE
