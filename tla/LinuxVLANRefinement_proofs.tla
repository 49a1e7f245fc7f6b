--------------------- MODULE LinuxVLANRefinement_proofs ---------------------
(***************************************************************************)
(* Proof that LinuxVLAN implements VLANSet (ImplementsVLANSet) when one    *)
(* caller uses the feature, no command is lost on the transport, no        *)
(* interface's name ends with another's, 0 is not a VLAN id and every     *)
(* interface is up.  Without these conditions the runs vlan_race,          *)
(* vlan_suffix, vlan_zero and vlan_hidden find counterexamples; with an    *)
(* interface down, remove_vlan deletes a down link that is no VLAN of the  *)
(* abstract set.                                                           *)
(***************************************************************************)
EXTENDS LinuxVLAN_proofs

RefinementHypothesis ==
    /\ \E c0 \in Clients : Clients = {c0}
    /\ MaxFaults = 0
    /\ SuffixOf = {}
    /\ 0 \notin VlanIds
    /\ DownParents = {}

\* A caller inside a call has a real VLAN id as target, and between the
\* two commands of add_vlan its link is down and has an id the kernel took.
AddUpInv ==
    \A c \in Clients :
        /\ pc[c] # "idle" => target[c].vlan \in VlanIds
        /\ pc[c] = "add_up" =>
              /\ link[target[c].parent][target[c].vlan] = "down"
              /\ target[c].vlan <= MaxVlanId

-----------------------------------------------------------------------------
(***************************************************************************)
(* How the refinement mapping moves under the helpers of the actions.      *)
(***************************************************************************)

LEMMA ResultUpdate ==
    ASSUME TypeOK, NEW c \in Clients, NEW x, NEW o,
           pc' = [pc EXCEPT ![c] = x], outcome' = [outcome EXCEPT ![c] = o]
    PROVE  Result' = [Result EXCEPT ![c] = IF x = "idle" THEN o ELSE "none"]
BY DEF Result, TypeOK

LEMMA UpLinksUpdate ==
    ASSUME TypeOK, NEW p \in Parents, NEW v \in VlanIds, NEW new \in LinkState,
           link' = [link EXCEPT ![p][v] = new]
    PROVE  UpLinks' = [UpLinks EXCEPT ![p] = IF new = "up" THEN @ \cup {v}
                                                           ELSE @ \ {v}]
<1> DEFINE U == [UpLinks EXCEPT ![p] = IF new = "up" THEN @ \cup {v} ELSE @ \ {v}]
<1>1. link'[p] = [link[p] EXCEPT ![v] = new]
  BY DEF TypeOK
<1>2. UpLinks'[p] = U[p]
  BY <1>1 DEF UpLinks, TypeOK
<1>3. \A q \in Parents \ {p} : UpLinks'[q] = U[q]
  BY DEF UpLinks, TypeOK
<1>4. QED
  BY <1>2, <1>3 DEF UpLinks

\* Without suffix names the listing of p is exactly the up links of p.
LEMMA ListingIsUpLinks ==
    ASSUME SuffixOf = {}, NEW p \in Parents
    PROVE  GetVlanIds(p) = UpLinks[p]
BY DEF GetVlanIds, UpLinks

\* Without faults budget, no command fails on the transport.
LEMMA NoTransportFault ==
    ASSUME TypeOK, MaxFaults = 0
    PROVE  ~TransportFault
BY DEF TransportFault, TypeOK

\* A command that fails ends its caller's call with "failed" and nothing
\* else the mapping sees.
LEMMA FailRefines ==
    ASSUME TypeOK, NEW c \in Clients, Finish(c, "failed"),
           UNCHANGED <<link, listed>>
    PROVE  VSet!Fail(c)
<1>1. Result' = [Result EXCEPT ![c] = "failed"]
  BY ResultUpdate DEF Finish
<1>2. UpLinks' = UpLinks
  BY DEF UpLinks
<1>3. QED
  BY <1>1, <1>2 DEF VSet!Fail

-----------------------------------------------------------------------------
(***************************************************************************)
(* One lemma per operation: its step is a step of VLANSet or a stutter.    *)
(***************************************************************************)

LEMMA GetVlanIdsCallRefines ==
    ASSUME RefinementHypothesis, TypeOK, NEW c \in Clients, NEW p \in Parents,
           GetVlanIdsCall(c, p)
    PROVE  VSet!List(c, p)
<1>1. ~TransportFault
  BY NoTransportFault DEF RefinementHypothesis
<1>2. /\ listed' = [listed EXCEPT ![c] = GetVlanIds(p)]
      /\ Finish(c, "ok")
      /\ link' = link
  BY <1>1 DEF GetVlanIdsCall
<1>3. Result' = [Result EXCEPT ![c] = "ok"]
  BY <1>2, ResultUpdate DEF Finish
<1>4. UpLinks' = UpLinks
  BY <1>2 DEF UpLinks
<1>5. QED
  BY <1>2, <1>3, <1>4, ListingIsUpLinks DEF VSet!List, RefinementHypothesis

LEMMA AddVlanCheckRefines ==
    ASSUME RefinementHypothesis, TypeOK, NEW c \in Clients, NEW p \in Parents,
           NEW v \in VlanIds, AddVlanCheck(c, p, v)
    PROVE  VSet!AddExists(c, p, v) \/ VSet!Begin(c, p)
<1>1. ~TransportFault
  BY NoTransportFault DEF RefinementHypothesis
<1>2. /\ listed' = [listed EXCEPT ![c] = UpLinks[p]]
      /\ link' = link
  BY <1>1, ListingIsUpLinks DEF AddVlanCheck, RefinementHypothesis
<1>3. UpLinks' = UpLinks
  BY <1>2 DEF UpLinks
<1>4. CASE v \in UpLinks[p]
  <2>1. Finish(c, "exists")
    BY <1>1, <1>4, ListingIsUpLinks DEF AddVlanCheck, RefinementHypothesis
  <2>2. Result' = [Result EXCEPT ![c] = "exists"]
    BY <2>1, ResultUpdate DEF Finish
  <2>3. QED
    BY <1>2, <1>3, <1>4, <2>2 DEF VSet!AddExists
<1>5. CASE v \notin UpLinks[p]
  <2>1. Goto(c, "add_link")
    BY <1>1, <1>5, ListingIsUpLinks DEF AddVlanCheck, RefinementHypothesis
  <2>2. Result' = [Result EXCEPT ![c] = "none"]
    BY <2>1, ResultUpdate DEF Goto
  <2>3. QED
    BY <1>2, <1>3, <2>2 DEF VSet!Begin
<1>6. QED
  BY <1>4, <1>5

LEMMA AddVlanCreateRefines ==
    ASSUME RefinementHypothesis, TypeOK, AddUpInv, NEW c \in Clients,
           AddVlanCreate(c)
    PROVE  VSet!Fail(c) \/ UNCHANGED VSet!vars
<1> DEFINE p == target[c].parent
           v == target[c].vlan
<1>1. p \in Parents /\ v \in VlanIds
  BY DEF AddVlanCreate, AddUpInv, TypeOK, Target
<1>2. ~TransportFault
  BY NoTransportFault DEF RefinementHypothesis
<1>3. UNCHANGED listed
  BY DEF AddVlanCreate
<1>4. CASE IpLinkAddOk(p, v)
  <2>1. /\ link' = [link EXCEPT ![p][v] = "down"]
        /\ Goto(c, "add_up")
    BY <1>2, <1>4 DEF AddVlanCreate, RunCommand
  <2>2. UpLinks' = UpLinks
    <3>1. UpLinks' = [UpLinks EXCEPT ![p] = @ \ {v}]
      BY <1>1, <2>1, UpLinksUpdate DEF LinkState
    <3>2. v \notin UpLinks[p]
      BY <1>1, <1>4 DEF IpLinkAddOk, UpLinks
    <3>3. QED
      BY <1>1, <3>1, <3>2 DEF UpLinks
  <2>3. Result' = Result
    <3>1. Result' = [Result EXCEPT ![c] = "none"]
      BY <2>1, ResultUpdate DEF Goto
    <3>2. Result[c] = "none"
      BY DEF AddVlanCreate, Result
    <3>3. QED
      BY <3>1, <3>2 DEF Result
  <2>4. QED
    BY <1>3, <2>2, <2>3 DEF VSet!vars
<1>5. CASE ~IpLinkAddOk(p, v)
  <2>1. Finish(c, "failed") /\ UNCHANGED link
    BY <1>2, <1>5 DEF AddVlanCreate, RunCommand
  <2>2. QED
    BY <1>3, <2>1, FailRefines
<1>6. QED
  BY <1>4, <1>5

LEMMA AddVlanBringUpRefines ==
    ASSUME RefinementHypothesis, TypeOK, AddUpInv, NEW c \in Clients,
           AddVlanBringUp(c)
    PROVE  VSet!AddDone(c, target[c].parent, target[c].vlan)
<1> DEFINE p == target[c].parent
           v == target[c].vlan
<1>1. /\ p \in Parents /\ v \in VlanIds
      /\ link[p][v] = "down" /\ v <= MaxVlanId
  BY DEF AddVlanBringUp, AddUpInv, TypeOK, Target
<1>2. ~TransportFault
  BY NoTransportFault DEF RefinementHypothesis
<1>3. /\ link' = [link EXCEPT ![p][v] = "up"]
      /\ Finish(c, "ok")
      /\ UNCHANGED listed
  BY <1>1, <1>2 DEF AddVlanBringUp, RunCommand, IpLinkSetUpOk, RefinementHypothesis
<1>4. UpLinks' = [UpLinks EXCEPT ![p] = @ \cup {v}]
  BY <1>1, <1>3, UpLinksUpdate DEF LinkState
<1>5. v \notin UpLinks[p]
  BY <1>1 DEF UpLinks
<1>6. Result' = [Result EXCEPT ![c] = "ok"]
  BY <1>3, ResultUpdate DEF Finish
<1>7. QED
  BY <1>1, <1>3, <1>4, <1>5, <1>6 DEF VSet!AddDone

LEMMA RemoveVlanResolveRefines ==
    ASSUME RefinementHypothesis, TypeOK, NEW c \in Clients, NEW p \in Parents,
           NEW v \in VlanIds \cup {0}, RemoveVlanResolve(c, p, v)
    PROVE  VSet!Begin(c, p) \/ VSet!RemoveNotFound(c, p)
<1>1. ~TransportFault
  BY NoTransportFault DEF RefinementHypothesis
<1>2. UpLinks' = UpLinks
  BY DEF RemoveVlanResolve, UpLinks
<1>3. CASE v # 0
  <2>1. Goto(c, "remove_del") /\ UNCHANGED listed
    BY <1>3 DEF RemoveVlanResolve
  <2>2. Result' = [Result EXCEPT ![c] = "none"]
    BY <2>1, ResultUpdate DEF Goto
  <2>3. QED
    BY <1>2, <2>1, <2>2 DEF VSet!Begin
<1>4. CASE v = 0
  <2>1. /\ listed' = [listed EXCEPT ![c] = UpLinks[p]]
        /\ \E m \in GetVlanIdOf(UpLinks[p]) :
              \/ m = 0 /\ Finish(c, "notfound")
              \/ m # 0 /\ Goto(c, "remove_del")
    BY <1>1, <1>4, ListingIsUpLinks DEF RemoveVlanResolve, RefinementHypothesis
  <2>2. PICK m \in GetVlanIdOf(UpLinks[p]) :
              \/ m = 0 /\ Finish(c, "notfound")
              \/ m # 0 /\ Goto(c, "remove_del")
    BY <2>1
  <2>3. m = 0 => UpLinks[p] = {}
    BY DEF GetVlanIdOf, UpLinks, RefinementHypothesis
  <2>4. CASE m = 0
    <3>1. Result' = [Result EXCEPT ![c] = "notfound"]
      BY <2>2, <2>4, ResultUpdate DEF Finish
    <3>2. QED
      BY <1>2, <2>1, <2>3, <2>4, <3>1 DEF VSet!RemoveNotFound
  <2>5. CASE m # 0
    <3>1. Result' = [Result EXCEPT ![c] = "none"]
      BY <2>2, <2>5, ResultUpdate DEF Goto
    <3>2. QED
      BY <1>2, <2>1, <3>1 DEF VSet!Begin
  <2>6. QED
    BY <2>4, <2>5
<1>5. QED
  BY <1>3, <1>4

LEMMA RemoveVlanDeleteRefines ==
    ASSUME RefinementHypothesis, TypeOK, DownLinkAccounted, AddUpInv,
           NEW c \in Clients, RemoveVlanDelete(c)
    PROVE  VSet!RemoveDone(c, target[c].parent, target[c].vlan) \/ VSet!Fail(c)
<1> DEFINE p == target[c].parent
           v == target[c].vlan
<1>1. p \in Parents /\ v \in VlanIds
  BY DEF RemoveVlanDelete, AddUpInv, TypeOK, Target
<1>2. ~TransportFault
  BY NoTransportFault DEF RefinementHypothesis
<1>3. UNCHANGED listed
  BY DEF RemoveVlanDelete
<1>4. CASE IpLinkDelOk(p, v)
  <2>1. link[p][v] # "down"
    <3>1. Clients = {c}
      BY DEF RefinementHypothesis
    <3>2. faults = 0
      BY DEF TypeOK, RefinementHypothesis
    <3>3. pc[c] # "add_up"
      BY DEF RemoveVlanDelete
    <3>4. ~\E d \in Clients :
                pc[d] = "add_up" /\ target[d] = [parent |-> p, vlan |-> v]
      BY <3>1, <3>3
    <3>5. p \notin DownParents
      BY DEF RefinementHypothesis
    <3>6. QED
      BY <1>1, <3>2, <3>4, <3>5 DEF DownLinkAccounted
  <2>2. link[p][v] = "up"
    BY <1>1, <1>4, <2>1 DEF IpLinkDelOk, TypeOK, LinkState
  <2>3. /\ link' = [link EXCEPT ![p][v] = "absent"]
        /\ Finish(c, "ok")
    BY <1>2, <1>4 DEF RemoveVlanDelete, RunCommand
  <2>4. UpLinks' = [UpLinks EXCEPT ![p] = @ \ {v}]
    BY <1>1, <2>3, UpLinksUpdate DEF LinkState
  <2>5. Result' = [Result EXCEPT ![c] = "ok"]
    BY <2>3, ResultUpdate DEF Finish
  <2>6. v \in UpLinks[p]
    BY <1>1, <2>2 DEF UpLinks
  <2>7. QED
    BY <1>3, <2>4, <2>5, <2>6 DEF VSet!RemoveDone
<1>5. CASE ~IpLinkDelOk(p, v)
  <2>1. Finish(c, "failed") /\ UNCHANGED link
    BY <1>2, <1>5 DEF RemoveVlanDelete, RunCommand
  <2>2. QED
    BY <1>3, <2>1, FailRefines
<1>6. QED
  BY <1>4, <1>5

-----------------------------------------------------------------------------
(***************************************************************************)
(* AddUpInv is inductive when there is one caller and no fault.            *)
(***************************************************************************)

LEMMA AddUpInvInit == Init => AddUpInv
BY DEF Init, AddUpInv

\* A step that ends the only caller's call keeps AddUpInv.
LEMMA IdleKeepsAddUpInv ==
    ASSUME NEW c, Clients = {c}, pc'[c] = "idle"
    PROVE  AddUpInv'
BY DEF AddUpInv

LEMMA AddUpInvStep ==
    ASSUME RefinementHypothesis, TypeOK, AddUpInv, [Next]_vars
    PROVE  AddUpInv'
<1>1. PICK c \in Clients : Clients = {c}
  BY DEF RefinementHypothesis
<1>2. ~TransportFault
  BY NoTransportFault DEF RefinementHypothesis
<1>3. CASE UNCHANGED vars
  BY <1>3 DEF AddUpInv, vars
<1>4. CASE \E p \in Parents : GetVlanIdsCall(c, p)
  <2>1. pc'[c] = "idle"
    BY <1>2, <1>4 DEF GetVlanIdsCall, Finish, TypeOK
  <2>2. QED
    BY <1>1, <2>1, IdleKeepsAddUpInv
<1>5. CASE \E p \in Parents, v \in VlanIds : AddVlanCheck(c, p, v)
  <2>1. PICK p \in Parents, v \in VlanIds : AddVlanCheck(c, p, v)
    BY <1>5
  <2>2. pc'[c] \in {"idle", "add_link"} /\ target'[c].vlan = v
    BY <1>2, <2>1 DEF AddVlanCheck, Finish, Goto, TypeOK
  <2>3. QED
    BY <1>1, <2>2 DEF AddUpInv
<1>6. CASE AddVlanCreate(c)
  <2> DEFINE p == target[c].parent
             v == target[c].vlan
  <2>1. p \in Parents /\ v \in VlanIds
    BY <1>6 DEF AddVlanCreate, AddUpInv, TypeOK, Target
  <2>2. CASE IpLinkAddOk(p, v)
    <3>1. /\ link' = [link EXCEPT ![p][v] = "down"]
          /\ pc'[c] = "add_up"
          /\ target' = target
      BY <1>2, <1>6, <2>2 DEF AddVlanCreate, RunCommand, Goto, TypeOK
    <3>2. link'[p][v] = "down" /\ v <= MaxVlanId
      BY <2>1, <2>2, <3>1 DEF IpLinkAddOk, TypeOK
    <3>3. QED
      BY <1>1, <2>1, <3>1, <3>2 DEF AddUpInv
  <2>3. CASE ~IpLinkAddOk(p, v)
    <3>1. pc'[c] = "idle"
      BY <1>2, <1>6, <2>3 DEF AddVlanCreate, RunCommand, Finish, TypeOK
    <3>2. QED
      BY <1>1, <3>1, IdleKeepsAddUpInv
  <2>4. QED
    BY <2>2, <2>3
<1>7. CASE AddVlanBringUp(c)
  <2>1. pc'[c] = "idle"
    BY <1>2, <1>7 DEF AddVlanBringUp, RunCommand, Finish, TypeOK
  <2>2. QED
    BY <1>1, <2>1, IdleKeepsAddUpInv
<1>8. CASE \E p \in Parents, v \in VlanIds \cup {0} : RemoveVlanResolve(c, p, v)
  <2>1. PICK p \in Parents, v \in VlanIds \cup {0} : RemoveVlanResolve(c, p, v)
    BY <1>8
  <2>2. CASE v # 0
    <3>1. pc'[c] = "remove_del" /\ target'[c].vlan = v
      BY <2>1, <2>2 DEF RemoveVlanResolve, Goto, TypeOK
    <3>2. QED
      BY <1>1, <2>2, <3>1 DEF AddUpInv
  <2>3. CASE v = 0
    <3>1. PICK m \in GetVlanIdOf(GetVlanIds(p)) :
              /\ target' = [target EXCEPT ![c] = [parent |-> p, vlan |-> m]]
              /\ \/ m = 0 /\ Finish(c, "notfound")
                 \/ m # 0 /\ Goto(c, "remove_del")
      BY <1>2, <2>1, <2>3 DEF RemoveVlanResolve
    <3>2. m # 0 => m \in VlanIds
      BY DEF GetVlanIdOf, GetVlanIds
    <3>3. pc'[c] \in {"idle", "remove_del"} /\ target'[c].vlan = m
      BY <3>1 DEF Finish, Goto, TypeOK
    <3>4. pc'[c] = "remove_del" => m # 0
      BY <3>1 DEF Finish, Goto, TypeOK
    <3>5. QED
      BY <1>1, <3>2, <3>3, <3>4 DEF AddUpInv
  <2>4. QED
    BY <2>2, <2>3
<1>9. CASE RemoveVlanDelete(c)
  <2>1. pc'[c] = "idle"
    BY <1>2, <1>9 DEF RemoveVlanDelete, RunCommand, Finish, TypeOK
  <2>2. QED
    BY <1>1, <2>1, IdleKeepsAddUpInv
<1>10. QED
  BY <1>1, <1>3, <1>4, <1>5, <1>6, <1>7, <1>8, <1>9 DEF Next


-----------------------------------------------------------------------------
LEMMA InitRefines == Init => VSet!Init
<1> SUFFICES ASSUME Init PROVE VSet!Init
  OBVIOUS
<1>1. \A p \in Parents, v \in VlanIds : link[p][v] = "up" => v <= MaxVlanId
  BY ConstantsAssumption DEF Init, MaxVlanId
<1>2. UpLinks \in [Parents -> SUBSET {v \in VlanIds : v <= MaxVlanId}]
  BY <1>1 DEF UpLinks
<1>3. Result = [c \in Clients |-> "none"]
  BY DEF Init, Result
<1>4. QED
  BY <1>2, <1>3 DEF Init, VSet!Init

\* Every step of LinuxVLAN is a step of VLANSet or leaves its variables alone.
LEMMA StepRefines ==
    ASSUME RefinementHypothesis, TypeOK, DownLinkAccounted, AddUpInv, [Next]_vars
    PROVE  [VSet!Next]_VSet!vars
<1>1. CASE UNCHANGED vars
  BY <1>1 DEF vars, VSet!vars, UpLinks, Result
<1>2. ASSUME NEW c \in Clients, NEW p \in Parents, GetVlanIdsCall(c, p)
      PROVE  VSet!Next
  BY <1>2, GetVlanIdsCallRefines DEF VSet!Next
<1>3. ASSUME NEW c \in Clients, NEW p \in Parents, NEW v \in VlanIds,
             AddVlanCheck(c, p, v)
      PROVE  VSet!Next
  BY <1>3, AddVlanCheckRefines DEF VSet!Next
<1>4. ASSUME NEW c \in Clients, AddVlanCreate(c)
      PROVE  [VSet!Next]_VSet!vars
  BY <1>4, AddVlanCreateRefines DEF VSet!Next
<1>5. ASSUME NEW c \in Clients, AddVlanBringUp(c)
      PROVE  VSet!Next
  <2>1. target[c].parent \in Parents /\ target[c].vlan \in VlanIds
    BY <1>5 DEF AddVlanBringUp, AddUpInv, TypeOK, Target
  <2>2. QED
    BY <1>5, <2>1, AddVlanBringUpRefines DEF VSet!Next
<1>6. ASSUME NEW c \in Clients, NEW p \in Parents, NEW v \in VlanIds \cup {0},
             RemoveVlanResolve(c, p, v)
      PROVE  VSet!Next
  BY <1>6, RemoveVlanResolveRefines DEF VSet!Next
<1>7. ASSUME NEW c \in Clients, RemoveVlanDelete(c)
      PROVE  VSet!Next
  <2>1. target[c].parent \in Parents /\ target[c].vlan \in VlanIds
    BY <1>7 DEF RemoveVlanDelete, AddUpInv, TypeOK, Target
  <2>2. QED
    BY <1>7, <2>1, RemoveVlanDeleteRefines DEF VSet!Next
<1>8. QED
  BY <1>1, <1>2, <1>3, <1>4, <1>5, <1>6, <1>7 DEF Next

\* With one caller, no transport fault, no interface whose name ends with
\* another's, no VLAN 0 and no interface down, the calls of get_vlan_ids, add_vlan and
\* remove_vlan behave as the atomic operations of VLANSet (the refinement
\* vlan_refine checks): each result is true of the VLANs at one instant,
\* and a call that raises leaves them unchanged.
THEOREM RefinementOneCaller ==
    RefinementHypothesis => (Spec => ImplementsVLANSet)
<1> SUFFICES ASSUME RefinementHypothesis PROVE Spec => VSet!Spec
  BY DEF ImplementsVLANSet
<1>1. Spec => []AddUpInv
  <2>1. TypeOK /\ AddUpInv /\ [Next]_vars => AddUpInv'
    BY AddUpInvStep
  <2>2. QED
    BY <2>1, AddUpInvInit, TypeCorrect, PTL DEF Spec
<1>2. TypeOK /\ DownLinkAccounted /\ AddUpInv /\ [Next]_vars
        => [VSet!Next]_VSet!vars
  BY StepRefines
<1>3. QED
  BY <1>1, <1>2, InitRefines, TypeCorrect, DownLinkAccountedInvariant,
     PTL DEF Spec, VSet!Spec

=============================================================================
