------------------------------ MODULE LinuxVLAN ------------------------------
(***************************************************************************)
(* The VLAN feature of a Linux network interface, LinuxVLAN in            *)
(* src/mfd_network_adapter/network_interface/feature/vlan/linux.py, used   *)
(* by several callers against one host.                                    *)
(*                                                                         *)
(* The host's link table is the shared state: link[p][v] is the state of   *)
(* the VLAN link named "<p>.<v>".  Every execute_command call of the       *)
(* feature is one atomic step on it; the steps of one call are separate    *)
(* actions, so the calls of different callers interleave between them.    *)
(* A call ends with an outcome: "ok", one of the two typed exceptions      *)
(* ("exists" = VlanAlreadyExistsException, "notfound" =                    *)
(* VlanNotFoundException) or "failed" (a non-zero return code refused by   *)
(* expected_return_codes={0}, or a transport error of the connection).     *)
(***************************************************************************)
EXTENDS Naturals, FiniteSets

CONSTANTS
    Parents,    \* the interfaces the feature is used on (model values)
    Clients,    \* callers issuing commands to the same host
    VlanIds,    \* VLAN ids passed as arguments (0 is remove_vlan's default)
    SuffixOf,   \* <<p, q>> \in SuffixOf: the name of p is a proper suffix of
                \* the name of q (as "eth1" is of "veth1")
    MaxFaults,  \* bound on execute_command calls that fail on the transport
    DownParents \* interfaces whose link is down (the feature never changes it)

ASSUME ConstantsAssumption ==
    /\ Parents # {}
    /\ VlanIds \subseteq Nat
    /\ SuffixOf \subseteq Parents \X Parents
    /\ \A p \in Parents : <<p, p>> \notin SuffixOf
    /\ MaxFaults \in Nat
    /\ DownParents \subseteq Parents

\* The kernel refuses "ip link add ... type vlan id v" for v above 4094.
MaxVlanId == 4094

LinkState == {"absent", "down", "up"}
Outcome   == {"none", "ok", "exists", "notfound", "failed"}
\* Where a call is: idle, or about to issue its next command.
PcValue   == {"idle", "add_link", "add_up", "remove_del"}
Target    == [parent : Parents, vlan : VlanIds \cup {0}]
StepKind  == {"listing", "command", "local"}

VARIABLES
    link,      \* link[p][v]: state of the VLAN link "<p>.<v>" on the host
    pc,        \* pc[c]: the step client c takes next
    target,    \* target[c]: interface and VLAN id of c's current call
    listed,    \* listed[c]: VLAN ids of c's last get_vlan_ids
    outcome,   \* outcome[c]: how c's last call ended ("none" while running)
    faults,    \* transport failures so far
    step       \* observer: <<client, kind>> of the last step taken

vars == <<link, pc, target, listed, outcome, faults, step>>

-----------------------------------------------------------------------------
(***************************************************************************)
(* The host.  "ifconfig" without -a prints only interfaces that are UP.    *)
(***************************************************************************)

\* A get_vlan_ids whose pattern lost the interface name (r"\.\d+").
GetVlanIdsAnyParent(p) ==
    {v \in VlanIds : \E q \in Parents : link[q][v] = "up"}

\* get_vlan_ids: the ids that re.findall(name + r"\.\d+") finds in the
\* ifconfig output, split at "." and kept as a set; the pattern is neither
\* anchored nor escaped, so it also matches "<q>.<v>" when p's name is a
\* suffix of q's name.  sorted() is kept by GetVlanId.
GetVlanIds(p) ==
    {v \in VlanIds :
        \E q \in Parents : (q = p \/ <<p, q>> \in SuffixOf) /\ link[q][v] = "up"}

\* A get_vlan_id that returns len(vlan_ids) where it means vlan_ids[0].
GetVlanIdOfCount(ids) ==
    IF ids = {} THEN {0} ELSE {Cardinality(ids)}

\* A get_vlan_id that tests len(vlan_ids) > 1 where it means a non-empty list.
GetVlanIdOfSingle(ids) ==
    IF Cardinality(ids) <= 1 THEN {0} ELSE {m \in ids : \A w \in ids : m <= w}

\* get_vlan_id: the first of the sorted ids, or 0 when there is none; the
\* set of the values it can return (one value).
GetVlanIdOf(ids) ==
    IF ids = {} THEN {0} ELSE {m \in ids : \A w \in ids : m <= w}

\* The three ip commands and when the kernel accepts them.  "ip link add"
\* also refuses a name longer than 15 characters; like the refusals kept
\* here it only ends the call with "failed", and it is left out.  "ip link
\* set dev <p>.<v> up" fails with ENETDOWN while the parent p is down.
IpLinkAddOk(p, v)   == link[p][v] = "absent" /\ v <= MaxVlanId
IpLinkSetUpOk(p, v) == link[p][v] # "absent" /\ p \notin DownParents
IpLinkDelOk(p, v)   == link[p][v] # "absent"

-----------------------------------------------------------------------------
(***************************************************************************)
(* Helpers for the steps of a call.                                        *)
(***************************************************************************)

Finish(c, o) ==
    /\ pc' = [pc EXCEPT ![c] = "idle"]
    /\ outcome' = [outcome EXCEPT ![c] = o]

Goto(c, where) ==
    /\ pc' = [pc EXCEPT ![c] = where]
    /\ outcome' = [outcome EXCEPT ![c] = "none"]

\* The connection raises: the command did not reach the host or its answer
\* was lost, so it may or may not have taken effect.
TransportFault == faults < MaxFaults /\ faults' = faults + 1

\* One execute_command(cmd, expected_return_codes={0}) on link "<p>.<v>":
\* on success the link becomes new and the call goes on with Then; a
\* refused command or a transport fault ends the call with "failed".
RunCommand(c, ok, p, v, new, Then) ==
    /\ step' = <<c, "command">>
    /\ \/ /\ ok
          /\ link' = [link EXCEPT ![p][v] = new]
          /\ Then
          /\ UNCHANGED faults
       \/ /\ ~ok
          /\ Finish(c, "failed")
          /\ UNCHANGED <<link, faults>>
       \/ /\ TransportFault
          /\ \/ UNCHANGED link
             \/ ok /\ link' = [link EXCEPT ![p][v] = new]
          /\ Finish(c, "failed")

-----------------------------------------------------------------------------
(***************************************************************************)
(* The operations of LinuxVLAN.                                            *)
(***************************************************************************)

\* get_vlan_ids() / get_vlan_id(): one "ifconfig".
GetVlanIdsCall(c, p) ==
    /\ pc[c] = "idle"
    /\ target' = [target EXCEPT ![c] = [parent |-> p, vlan |-> 0]]
    /\ step' = <<c, "listing">>
    /\ \/ /\ listed' = [listed EXCEPT ![c] = GetVlanIds(p)]
          /\ Finish(c, "ok")
          /\ UNCHANGED faults
       \/ /\ TransportFault
          /\ Finish(c, "failed")
          /\ UNCHANGED listed
    /\ UNCHANGED link

\* add_vlan(v), first step: "ifconfig" and the check against its ids.
AddVlanCheck(c, p, v) ==
    /\ pc[c] = "idle"
    /\ target' = [target EXCEPT ![c] = [parent |-> p, vlan |-> v]]
    /\ step' = <<c, "listing">>
    /\ \/ /\ listed' = [listed EXCEPT ![c] = GetVlanIds(p)]
          /\ \/ v \in GetVlanIds(p) /\ Finish(c, "exists")
             \/ v \notin GetVlanIds(p) /\ Goto(c, "add_link")
          /\ UNCHANGED faults
       \/ /\ TransportFault
          /\ Finish(c, "failed")
          /\ UNCHANGED listed
    /\ UNCHANGED link

\* add_vlan that returns after "ip link add" without bringing the link up.
AddVlanCreateNoBringUp(c) ==
    /\ pc[c] = "add_link"
    /\ LET p == target[c].parent
           v == target[c].vlan
       IN  RunCommand(c, IpLinkAddOk(p, v), p, v, "down", Finish(c, "ok"))
    /\ UNCHANGED <<target, listed>>

\* add_vlan, second step: "ip link add link <p> name <p>.<v> type vlan id <v>".
AddVlanCreate(c) ==
    /\ pc[c] = "add_link"
    /\ LET p == target[c].parent
           v == target[c].vlan
       IN  RunCommand(c, IpLinkAddOk(p, v), p, v, "down", Goto(c, "add_up"))
    /\ UNCHANGED <<target, listed>>

\* add_vlan that retries "ip link set dev ... up" while the kernel refuses it.
AddVlanBringUpRetry(c) ==
    /\ pc[c] = "add_up"
    /\ LET p == target[c].parent
           v == target[c].vlan
       IN  \/ /\ IpLinkSetUpOk(p, v)
              /\ RunCommand(c, TRUE, p, v, "up", Finish(c, "ok"))
           \/ /\ ~IpLinkSetUpOk(p, v)
              /\ step' = <<c, "command">>
              /\ UNCHANGED <<link, pc, outcome, faults>>
    /\ UNCHANGED <<target, listed>>

\* add_vlan, last step: "ip link set dev <p>.<v> up".
AddVlanBringUp(c) ==
    /\ pc[c] = "add_up"
    /\ LET p == target[c].parent
           v == target[c].vlan
       IN  RunCommand(c, IpLinkSetUpOk(p, v), p, v, "up", Finish(c, "ok"))
    /\ UNCHANGED <<target, listed>>

\* remove_vlan(v), first step: with v = 0 the id is get_vlan_id() of one
\* "ifconfig", and a result of 0 raises VlanNotFoundException.
RemoveVlanResolve(c, p, v) ==
    /\ pc[c] = "idle"
    /\ \/ /\ v # 0
          /\ target' = [target EXCEPT ![c] = [parent |-> p, vlan |-> v]]
          /\ Goto(c, "remove_del")
          /\ step' = <<c, "local">>
          /\ UNCHANGED <<listed, faults>>
       \/ /\ v = 0
          /\ step' = <<c, "listing">>
          /\ \/ LET ids == GetVlanIds(p) IN
                /\ listed' = [listed EXCEPT ![c] = ids]
                /\ UNCHANGED faults
                /\ \E m \in GetVlanIdOf(ids) :
                      /\ target' = [target EXCEPT ![c] = [parent |-> p, vlan |-> m]]
                      /\ \/ m = 0 /\ Finish(c, "notfound")
                         \/ m # 0 /\ Goto(c, "remove_del")
             \/ /\ TransportFault
                /\ target' = [target EXCEPT ![c] = [parent |-> p, vlan |-> 0]]
                /\ Finish(c, "failed")
                /\ UNCHANGED listed
    /\ UNCHANGED link

\* remove_vlan, last step: "ip link del link <p> name <p>.<v> type vlan id <v>".
RemoveVlanDelete(c) ==
    /\ pc[c] = "remove_del"
    /\ LET p == target[c].parent
           v == target[c].vlan
       IN  RunCommand(c, IpLinkDelOk(p, v), p, v, "absent", Finish(c, "ok"))
    /\ UNCHANGED <<target, listed>>

-----------------------------------------------------------------------------
\* The host starts with any set of VLAN links; they are up, except on a
\* parent that is down, whose VLAN links the kernel holds down.
Init ==
    /\ link \in [Parents -> [VlanIds -> {"absent", "down", "up"}]]
    /\ \A p \in Parents, v \in VlanIds :
          link[p][v] # (IF p \in DownParents THEN "up" ELSE "down")
    /\ \A p \in Parents, v \in VlanIds : v > MaxVlanId => link[p][v] = "absent"
    /\ pc = [c \in Clients |-> "idle"]
    /\ target = [c \in Clients |-> [parent |-> CHOOSE p \in Parents : TRUE, vlan |-> 0]]
    /\ listed = [c \in Clients |-> {}]
    /\ outcome = [c \in Clients |-> "none"]
    /\ faults = 0
    /\ step = <<>>

Next ==
    \E c \in Clients :
        \/ \E p \in Parents : GetVlanIdsCall(c, p)
        \/ \E p \in Parents, v \in VlanIds : AddVlanCheck(c, p, v)
        \/ AddVlanCreate(c)
        \/ AddVlanBringUp(c)
        \/ \E p \in Parents, v \in VlanIds \cup {0} : RemoveVlanResolve(c, p, v)
        \/ RemoveVlanDelete(c)

Spec == Init /\ [][Next]_vars

\* A call that has started goes on to its next command: the code issues it
\* as soon as the previous execute_command returns, and waits for nothing
\* else.  Starting a call is the caller's choice and is not fair.
Fairness ==
    \A c \in Clients :
        WF_vars(AddVlanCreate(c) \/ AddVlanBringUp(c) \/ RemoveVlanDelete(c))

FairSpec == Spec /\ Fairness

-----------------------------------------------------------------------------
(***************************************************************************)
(* Properties.                                                             *)
(***************************************************************************)

TypeOK ==
    /\ link \in [Parents -> [VlanIds -> LinkState]]
    /\ pc \in [Clients -> PcValue]
    /\ target \in [Clients -> Target]
    /\ listed \in [Clients -> SUBSET VlanIds]
    /\ outcome \in [Clients -> Outcome]
    /\ faults \in 0..MaxFaults
    /\ step \in {<<>>} \cup (Clients \X StepKind)

\* add_vlan creates a link down and brings it up in a second command.  A
\* link the kernel holds down is invisible to every later get_vlan_ids;
\* without a transport fault, no link of an interface that is up is down
\* except one whose add_vlan is between its two commands, whatever the
\* other callers do meanwhile.
DownLinkAccounted ==
    \A p \in Parents, v \in VlanIds :
        link[p][v] = "down" =>
            \/ faults > 0
            \/ p \in DownParents
            \/ \E c \in Clients :
                  pc[c] = "add_up" /\ target[c] = [parent |-> p, vlan |-> v]

\* The step is one taken by client c.
StepOf(c) == step' # <<>> /\ step'[1] = c

\* add_vlan raises VlanAlreadyExistsException "in case required VLAN
\* interface already exists" (its docstring): when it raises, the link
\* "<p>.<v>" is present on the host.
AlreadyExistsTruthful ==
    [][\A c \in Clients :
         (StepOf(c) /\ outcome'[c] = "exists")
            => link[target'[c].parent][target'[c].vlan] # "absent"]_vars

\* remove_vlan() raises VlanNotFoundException "No VLANs found on interface"
\* only when the ifconfig it read showed no VLAN of the interface.
NotFoundOnlyWithoutVlans ==
    [][\A c \in Clients :
         (StepOf(c) /\ outcome'[c] = "notfound") => listed'[c] = {}]_vars

\* get_vlan_ids returns "all VLAN IDs on Linux network interface" (its
\* docstring): every VLAN link of the interface present on the host.
ListingComplete ==
    [][\A c \in Clients :
         (StepOf(c) /\ step'[2] = "listing" /\ outcome'[c] # "failed")
            => {v \in VlanIds : link[target'[c].parent][v] # "absent"}
                  \subseteq listed'[c]]_vars

\* Every call of add_vlan and remove_vlan returns or raises, whatever the
\* other callers do to the same link between its commands.
CallsReturn == \A c \in Clients : pc[c] # "idle" ~> pc[c] = "idle"

-----------------------------------------------------------------------------
(***************************************************************************)
(* Refinement: LinuxVLAN as an implementation of VLANSet.  The VLANs of an *)
(* interface are its links that are up (the ones ifconfig lists); a        *)
(* caller's result is its outcome once its call has returned.               *)
(***************************************************************************)
UpLinks == [p \in Parents |-> {v \in VlanIds : link[p][v] = "up"}]
Result  == [c \in Clients |-> IF pc[c] = "idle" THEN outcome[c] ELSE "none"]

VSet == INSTANCE VLANSet WITH vlans <- UpLinks, res <- Result, shown <- listed,
                              MaxId <- MaxVlanId

\* The calls of add_vlan, remove_vlan and get_vlan_ids behave as the atomic
\* operations of VLANSet: each returns a result true of the VLANs at one
\* instant of the call, and a call that raises leaves the VLANs unchanged.
ImplementsVLANSet == VSet!Spec

=============================================================================
