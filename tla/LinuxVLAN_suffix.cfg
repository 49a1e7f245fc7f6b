CONSTANTS
    eth1 = eth1
    veth1 = veth1
    c1 = c1
    c2 = c2
    Parents <- MC_Parents
    Clients <- MC_OneClient
    VlanIds <- MC_VlanIdsNoZero
    SuffixOf <- MC_Suffix
    MaxFaults = 0
    DownParents <- MC_NoneDown
SPECIFICATION Spec
PROPERTIES
    AlreadyExistsTruthful
