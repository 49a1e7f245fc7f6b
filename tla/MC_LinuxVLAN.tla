---------------------------- MODULE MC_LinuxVLAN ----------------------------
(* Small instances of LinuxVLAN for TLC.                                    *)
EXTENDS LinuxVLAN

CONSTANTS eth1, veth1, c1, c2

\* Two interfaces whose names do not overlap, and two callers.
MC_Parents  == {eth1, veth1}
MC_Clients  == {c1, c2}
\* 0 (remove_vlan's default), a valid id, and one the kernel refuses.
MC_VlanIds  == {0, 7, 4095}
MC_NoSuffix == {}
\* eth1 is a suffix of veth1.
MC_Suffix   == {<<eth1, veth1>>}
MC_VlanIdsNoZero == {7, 9}
MC_OneClient == {c1}
\* Two valid ids and one the kernel refuses; 0 is left out (see vlan_zero).
MC_VlanIdsRefine == {7, 9, 4095}
MC_NoneDown == {}
\* veth1 is down: bringing up one of its VLAN links fails with ENETDOWN.
MC_DownVeth == {veth1}
=============================================================================
