------------------------------- MODULE VLANSet -------------------------------
(***************************************************************************)
(* What the VLAN feature promises its callers, as the docstrings of        *)
(* src/mfd_network_adapter/network_interface/feature/vlan/linux.py state   *)
(* it: each interface carries a set of VLANs, and each call of get_vlan_ids,*)
(* add_vlan or remove_vlan takes effect at one instant, with a result that *)
(* is true of the set at that instant.  A call that fails leaves the set   *)
(* as it was.                                                              *)
(*                                                                         *)
(* A call that issues several commands first becomes busy (Begin), and     *)
(* takes effect later; other callers may act in between.                   *)
(***************************************************************************)
EXTENDS Naturals, FiniteSets

CONSTANTS
    Parents,   \* the interfaces
    Clients,   \* the callers
    VlanIds,   \* the VLAN ids a caller can name
    MaxId      \* the largest VLAN id the host accepts

VARIABLES
    vlans,     \* vlans[p]: the VLANs of interface p
    res,       \* res[c]: the result of c's last call ("none" while busy)
    shown      \* shown[c]: the ids c's last listing returned

vars == <<vlans, res, shown>>

Init ==
    /\ vlans \in [Parents -> SUBSET {v \in VlanIds : v <= MaxId}]
    /\ res = [c \in Clients |-> "none"]
    /\ shown = [c \in Clients |-> {}]

\* c starts a call of several commands, possibly after a listing of p.
Begin(c, p) ==
    /\ res' = [res EXCEPT ![c] = "none"]
    /\ shown' \in {shown, [shown EXCEPT ![c] = vlans[p]]}
    /\ UNCHANGED vlans

\* get_vlan_ids: the VLANs of p.
List(c, p) ==
    /\ res' = [res EXCEPT ![c] = "ok"]
    /\ shown' = [shown EXCEPT ![c] = vlans[p]]
    /\ UNCHANGED vlans

\* add_vlan(v) raises VlanAlreadyExistsException: v is a VLAN of p.
AddExists(c, p, v) ==
    /\ v \in vlans[p]
    /\ res' = [res EXCEPT ![c] = "exists"]
    /\ shown' = [shown EXCEPT ![c] = vlans[p]]
    /\ UNCHANGED vlans

\* add_vlan(v) returns: v becomes a VLAN of p.
AddDone(c, p, v) ==
    /\ v \notin vlans[p] /\ v <= MaxId
    /\ vlans' = [vlans EXCEPT ![p] = @ \cup {v}]
    /\ res' = [res EXCEPT ![c] = "ok"]
    /\ UNCHANGED shown

\* remove_vlan returns: v is no longer a VLAN of p.
RemoveDone(c, p, v) ==
    /\ v \in vlans[p]
    /\ vlans' = [vlans EXCEPT ![p] = @ \ {v}]
    /\ res' = [res EXCEPT ![c] = "ok"]
    /\ UNCHANGED shown

\* remove_vlan() raises VlanNotFoundException: p has no VLAN.
RemoveNotFound(c, p) ==
    /\ vlans[p] = {}
    /\ res' = [res EXCEPT ![c] = "notfound"]
    /\ shown' = [shown EXCEPT ![c] = {}]
    /\ UNCHANGED vlans

\* A call raises a command error: nothing changes.
Fail(c) ==
    /\ res' = [res EXCEPT ![c] = "failed"]
    /\ UNCHANGED <<vlans, shown>>

Next ==
    \E c \in Clients :
        \/ Fail(c)
        \/ \E p \in Parents :
              \/ Begin(c, p) \/ List(c, p) \/ RemoveNotFound(c, p)
              \/ \E v \in VlanIds :
                    AddExists(c, p, v) \/ AddDone(c, p, v) \/ RemoveDone(c, p, v)

Spec == Init /\ [][Next]_vars
=============================================================================
