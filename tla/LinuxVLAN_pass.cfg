CONSTANTS
    eth1 = eth1
    veth1 = veth1
    c1 = c1
    c2 = c2
    Parents <- MC_Parents
    Clients <- MC_Clients
    VlanIds <- MC_VlanIds
    SuffixOf <- MC_NoSuffix
    MaxFaults = 1
    DownParents <- MC_DownVeth
SPECIFICATION FairSpec
INVARIANTS
    TypeOK
    DownLinkAccounted
PROPERTIES
    AlreadyExistsTruthful
    CallsReturn
