CONSTANTS
    Props <- MC_PropsProfile
    Values <- MC_Values
    DisplayValues <- MC_DisplayValues
    Valid <- MC_Valid
    Default <- MC_Default
    Display <- MC_Display
    Braced <- MC_Braced
    InName <- MC_InName
SPECIFICATION Spec
INVARIANTS
    GetReadsNamedProperty
