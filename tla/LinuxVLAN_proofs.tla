--------------------------- MODULE LinuxVLAN_proofs ---------------------------
(***************************************************************************)
(* Proofs about the VLAN feature of LinuxVLAN, for every set of           *)
(* interfaces, callers and VLAN ids and every bound on transport faults.  *)
(***************************************************************************)
EXTENDS LinuxVLAN, TLAPS

\* Updating one link of the host table keeps its shape.
LEMMA LinkUpdateType ==
    ASSUME NEW S, NEW T, NEW U, NEW f \in [S -> [T -> U]], NEW p \in S, NEW v,
           NEW new \in U
    PROVE  [f EXCEPT ![p][v] = new] \in [S -> [T -> U]]
OBVIOUS

\* get_vlan_ids returns ids of the interface's VLAN links.
LEMMA GetVlanIdsType ==
    ASSUME NEW p
    PROVE  GetVlanIds(p) \in SUBSET VlanIds
BY DEF GetVlanIds

\* get_vlan_id returns one of the listed ids, or 0.
LEMMA GetVlanIdOfType ==
    ASSUME NEW ids \in SUBSET VlanIds
    PROVE  GetVlanIdOf(ids) \subseteq VlanIds \cup {0}
BY DEF GetVlanIdOf

\* One execute_command keeps the host table, the fault count and the
\* observer in their types, whatever the command and its continuation.
LEMMA RunCommandType ==
    ASSUME TypeOK, NEW c \in Clients, NEW ok, NEW p \in Parents, NEW v,
           NEW new \in LinkState, NEW ACTION Then,
           RunCommand(c, ok, p, v, new, Then)
    PROVE  /\ link' \in [Parents -> [VlanIds -> LinkState]]
           /\ faults' \in 0..MaxFaults
           /\ step' \in {<<>>} \cup (Clients \X StepKind)
<1>1. link' = link \/ link' = [link EXCEPT ![p][v] = new]
  BY DEF RunCommand
<1>2. [link EXCEPT ![p][v] = new] \in [Parents -> [VlanIds -> LinkState]]
  BY LinkUpdateType DEF TypeOK
<1>3. link' \in [Parents -> [VlanIds -> LinkState]]
  BY <1>1, <1>2 DEF TypeOK
<1>4. faults' \in 0..MaxFaults
  BY ConstantsAssumption DEF RunCommand, TransportFault, TypeOK
<1>5. step' \in {<<>>} \cup (Clients \X StepKind)
  BY DEF RunCommand, StepKind
<1>6. QED
  BY <1>3, <1>4, <1>5

\* The three commands, one lemma each: the link they change is the one of
\* the caller's target, and their continuation sets pc and outcome.
LEMMA AddVlanCreateType ==
    ASSUME TypeOK, NEW c \in Clients, AddVlanCreate(c)
    PROVE  TypeOK'
<1> DEFINE p == target[c].parent
           v == target[c].vlan
<1>1. RunCommand(c, IpLinkAddOk(p, v), p, v, "down", Goto(c, "add_up"))
  BY DEF AddVlanCreate
<1>2. /\ link' \in [Parents -> [VlanIds -> LinkState]]
      /\ faults' \in 0..MaxFaults
      /\ step' \in {<<>>} \cup (Clients \X StepKind)
  BY <1>1, RunCommandType DEF TypeOK, Target, LinkState
<1>3. /\ pc' \in [Clients -> PcValue]
      /\ outcome' \in [Clients -> Outcome]
  BY <1>1 DEF RunCommand, Goto, Finish, TypeOK, PcValue, Outcome
<1>4. /\ target' \in [Clients -> Target]
      /\ listed' \in [Clients -> SUBSET VlanIds]
  BY DEF AddVlanCreate, TypeOK
<1>5. QED
  BY <1>2, <1>3, <1>4 DEF TypeOK

LEMMA AddVlanBringUpType ==
    ASSUME TypeOK, NEW c \in Clients, AddVlanBringUp(c)
    PROVE  TypeOK'
<1> DEFINE p == target[c].parent
           v == target[c].vlan
<1>1. RunCommand(c, IpLinkSetUpOk(p, v), p, v, "up", Finish(c, "ok"))
  BY DEF AddVlanBringUp
<1>2. /\ link' \in [Parents -> [VlanIds -> LinkState]]
      /\ faults' \in 0..MaxFaults
      /\ step' \in {<<>>} \cup (Clients \X StepKind)
  BY <1>1, RunCommandType DEF TypeOK, Target, LinkState
<1>3. /\ pc' \in [Clients -> PcValue]
      /\ outcome' \in [Clients -> Outcome]
  BY <1>1 DEF RunCommand, Finish, TypeOK, PcValue, Outcome
<1>4. /\ target' \in [Clients -> Target]
      /\ listed' \in [Clients -> SUBSET VlanIds]
  BY DEF AddVlanBringUp, TypeOK
<1>5. QED
  BY <1>2, <1>3, <1>4 DEF TypeOK

LEMMA RemoveVlanDeleteType ==
    ASSUME TypeOK, NEW c \in Clients, RemoveVlanDelete(c)
    PROVE  TypeOK'
<1> DEFINE p == target[c].parent
           v == target[c].vlan
<1>1. RunCommand(c, IpLinkDelOk(p, v), p, v, "absent", Finish(c, "ok"))
  BY DEF RemoveVlanDelete
<1>2. /\ link' \in [Parents -> [VlanIds -> LinkState]]
      /\ faults' \in 0..MaxFaults
      /\ step' \in {<<>>} \cup (Clients \X StepKind)
  BY <1>1, RunCommandType DEF TypeOK, Target, LinkState
<1>3. /\ pc' \in [Clients -> PcValue]
      /\ outcome' \in [Clients -> Outcome]
  BY <1>1 DEF RunCommand, Finish, TypeOK, PcValue, Outcome
<1>4. /\ target' \in [Clients -> Target]
      /\ listed' \in [Clients -> SUBSET VlanIds]
  BY DEF RemoveVlanDelete, TypeOK
<1>5. QED
  BY <1>2, <1>3, <1>4 DEF TypeOK

\* Finish and Goto set the caller's pc and outcome within their types.
LEMMA FinishType ==
    ASSUME TypeOK, NEW c \in Clients, NEW o \in Outcome, Finish(c, o)
    PROVE  pc' \in [Clients -> PcValue] /\ outcome' \in [Clients -> Outcome]
BY DEF Finish, TypeOK, PcValue

LEMMA GotoType ==
    ASSUME TypeOK, NEW c \in Clients, NEW w \in PcValue, Goto(c, w)
    PROVE  pc' \in [Clients -> PcValue] /\ outcome' \in [Clients -> Outcome]
BY DEF Goto, TypeOK, Outcome

\* The common type argument of the steps that leave the host table alone:
\* the caller's target is a record of its interface and an id or 0, the
\* listing is get_vlan_ids of an interface, at most one more fault.
LEMMA ListingStepType ==
    ASSUME TypeOK, NEW c \in Clients, NEW p \in Parents,
           NEW m \in VlanIds \cup {0}, NEW k \in StepKind,
           link' = link,
           pc' \in [Clients -> PcValue] /\ outcome' \in [Clients -> Outcome],
           target' = [target EXCEPT ![c] = [parent |-> p, vlan |-> m]],
           listed' = listed \/ listed' = [listed EXCEPT ![c] = GetVlanIds(p)],
           faults' = faults \/ (faults < MaxFaults /\ faults' = faults + 1),
           step' = <<c, k>>
    PROVE  TypeOK'
<1>1. link' \in [Parents -> [VlanIds -> LinkState]]
  BY DEF TypeOK
<1>2. target' \in [Clients -> Target]
  BY DEF TypeOK, Target
<1>3. listed' \in [Clients -> SUBSET VlanIds]
  BY GetVlanIdsType DEF TypeOK
<1>4. faults' \in 0..MaxFaults
  BY ConstantsAssumption DEF TypeOK
<1>5. step' \in {<<>>} \cup (Clients \X StepKind)
  OBVIOUS
<1>6. QED
  BY <1>1, <1>2, <1>3, <1>4, <1>5 DEF TypeOK

\* The steps that run "ifconfig" or no command: the host table is
\* untouched; each lemma first states the shape of every primed variable,
\* then its type.
LEMMA GetVlanIdsCallType ==
    ASSUME TypeOK, NEW c \in Clients, NEW p \in Parents, GetVlanIdsCall(c, p)
    PROVE  TypeOK'
<1>1. link' = link
  BY DEF GetVlanIdsCall
<1>2. Finish(c, "ok") \/ Finish(c, "failed")
  BY DEF GetVlanIdsCall
<1>3. pc' \in [Clients -> PcValue] /\ outcome' \in [Clients -> Outcome]
  BY <1>2, FinishType DEF Outcome
<1>4. target' = [target EXCEPT ![c] = [parent |-> p, vlan |-> 0]]
  BY DEF GetVlanIdsCall
<1>5. listed' = listed \/ listed' = [listed EXCEPT ![c] = GetVlanIds(p)]
  BY DEF GetVlanIdsCall
<1>6. faults' = faults \/ (faults < MaxFaults /\ faults' = faults + 1)
  BY DEF GetVlanIdsCall, TransportFault
<1>7. step' = <<c, "listing">>
  BY DEF GetVlanIdsCall
<1>8. QED
  BY <1>1, <1>3, <1>4, <1>5, <1>6, <1>7, ListingStepType DEF StepKind

LEMMA AddVlanCheckType ==
    ASSUME TypeOK, NEW c \in Clients, NEW p \in Parents, NEW v \in VlanIds,
           AddVlanCheck(c, p, v)
    PROVE  TypeOK'
<1>1. link' = link
  BY DEF AddVlanCheck
<1>2. Finish(c, "exists") \/ Finish(c, "failed") \/ Goto(c, "add_link")
  BY DEF AddVlanCheck
<1>3. pc' \in [Clients -> PcValue] /\ outcome' \in [Clients -> Outcome]
  BY <1>2, FinishType, GotoType DEF Outcome, PcValue
<1>4. target' = [target EXCEPT ![c] = [parent |-> p, vlan |-> v]]
  BY DEF AddVlanCheck
<1>5. listed' = listed \/ listed' = [listed EXCEPT ![c] = GetVlanIds(p)]
  BY DEF AddVlanCheck
<1>6. faults' = faults \/ (faults < MaxFaults /\ faults' = faults + 1)
  BY DEF AddVlanCheck, TransportFault
<1>7. step' = <<c, "listing">>
  BY DEF AddVlanCheck
<1>8. QED
  BY <1>1, <1>3, <1>4, <1>5, <1>6, <1>7, ListingStepType DEF StepKind

LEMMA RemoveVlanResolveType ==
    ASSUME TypeOK, NEW c \in Clients, NEW p \in Parents,
           NEW v \in VlanIds \cup {0}, RemoveVlanResolve(c, p, v)
    PROVE  TypeOK'
<1>1. link' = link
  BY DEF RemoveVlanResolve
<1>2. Finish(c, "notfound") \/ Finish(c, "failed") \/ Goto(c, "remove_del")
  BY DEF RemoveVlanResolve
<1>3. pc' \in [Clients -> PcValue] /\ outcome' \in [Clients -> Outcome]
  BY <1>2, FinishType, GotoType DEF Outcome, PcValue
<1>4. \E m \in {v, 0} \cup GetVlanIdOf(GetVlanIds(p)) :
         target' = [target EXCEPT ![c] = [parent |-> p, vlan |-> m]]
  BY DEF RemoveVlanResolve
<1>5. listed' = listed \/ listed' = [listed EXCEPT ![c] = GetVlanIds(p)]
  BY DEF RemoveVlanResolve
<1>6. faults' = faults \/ (faults < MaxFaults /\ faults' = faults + 1)
  BY DEF RemoveVlanResolve, TransportFault
<1>7. step' = <<c, "listing">> \/ step' = <<c, "local">>
  BY DEF RemoveVlanResolve
<1>8. {v, 0} \cup GetVlanIdOf(GetVlanIds(p)) \subseteq VlanIds \cup {0}
  BY GetVlanIdsType, GetVlanIdOfType
<1>9. PICK m \in {v, 0} \cup GetVlanIdOf(GetVlanIds(p)) :
         target' = [target EXCEPT ![c] = [parent |-> p, vlan |-> m]]
  BY <1>4
<1>10. QED
  BY <1>1, <1>3, <1>5, <1>6, <1>7, <1>8, <1>9, ListingStepType DEF StepKind

\* The initial states are typed.
LEMMA InitType == Init => TypeOK
BY ConstantsAssumption
   DEF Init, TypeOK, Target, LinkState, PcValue, Outcome, StepKind

\* Every step keeps the types, one lemma per operation.
LEMMA NextType == TypeOK /\ [Next]_vars => TypeOK'
<1> SUFFICES ASSUME TypeOK, [Next]_vars PROVE TypeOK'
  OBVIOUS
<1>1. CASE UNCHANGED vars
  BY <1>1 DEF vars, TypeOK
<1>2. QED
  BY <1>1, GetVlanIdsCallType, AddVlanCheckType, AddVlanCreateType,
     AddVlanBringUpType, RemoveVlanResolveType, RemoveVlanDeleteType
     DEF Next

\* Whatever the interleaving of the callers' commands and the transport
\* faults, every variable of the feature keeps its type: the host's link
\* table, the step each call of add_vlan and remove_vlan is at, the VLAN
\* ids get_vlan_ids lists and get_vlan_id picks, and the outcomes.
THEOREM TypeCorrect == Spec => []TypeOK
BY InitType, NextType, PTL DEF Spec

-----------------------------------------------------------------------------
(***************************************************************************)
(* DownLinkAccounted.  It is inductive together with TypeOK: a down link  *)
(* is made only by a successful "ip link add", whose caller then waits at *)
(* add_up on that very link, and every caller keeps its target while it  *)
(* is not idle, so no other caller's step can take the witness away.      *)
(***************************************************************************)
IInv == TypeOK /\ DownLinkAccounted

\* A step of caller c that leaves the host table alone, taken while c is
\* idle (so c witnesses no down link), keeps every down link accounted.
LEMMA AccountedListing ==
    ASSUME TypeOK, DownLinkAccounted, NEW c \in Clients, pc[c] = "idle",
           link' = link,
           \A d \in Clients \ {c} : pc'[d] = pc[d] /\ target'[d] = target[d],
           faults' \in Nat, faults' >= faults
    PROVE  DownLinkAccounted'
<1> SUFFICES ASSUME NEW q \in Parents \ DownParents, NEW w \in VlanIds,
                    link'[q][w] = "down"
             PROVE  \/ faults' > 0
                    \/ \E d \in Clients :
                          pc'[d] = "add_up" /\ target'[d] = [parent |-> q, vlan |-> w]
  BY DEF DownLinkAccounted
<1>1. link[q][w] = "down"
  OBVIOUS
<1>2. \A d \in Clients : pc[d] = "add_up" => d # c
  OBVIOUS
<1>3. QED
  BY <1>1, <1>2 DEF DownLinkAccounted, TypeOK

\* A command of caller c on the link <<p, v>> of its target keeps every
\* down link accounted, provided the link it touches is accounted after
\* the step: by a fault, by c itself, or by the witness it had before
\* when that witness is not c.
LEMMA AccountedCommand ==
    ASSUME TypeOK, DownLinkAccounted, NEW c \in Clients, NEW p \in Parents,
           NEW v, target[c] = [parent |-> p, vlan |-> v],
           \A d \in Clients \ {c} : pc'[d] = pc[d] /\ target'[d] = target[d],
           faults' \in Nat, faults' >= faults,
           \A q \in Parents, w \in VlanIds :
              <<q, w>> # <<p, v>> => link'[q][w] = link[q][w],
           v \in VlanIds /\ link'[p][v] = "down" =>
              \/ faults' > 0
              \/ p \in DownParents
              \/ pc'[c] = "add_up" /\ target'[c] = target[c]
              \/ link[p][v] = "down" /\ pc[c] # "add_up"
    PROVE  DownLinkAccounted'
<1> SUFFICES ASSUME NEW q \in Parents \ DownParents, NEW w \in VlanIds,
                    link'[q][w] = "down"
             PROVE  \/ faults' > 0
                    \/ \E d \in Clients :
                          pc'[d] = "add_up" /\ target'[d] = [parent |-> q, vlan |-> w]
  BY DEF DownLinkAccounted
<1>1. CASE <<q, w>> = <<p, v>>
  BY <1>1 DEF DownLinkAccounted, TypeOK
<1>2. CASE <<q, w>> # <<p, v>>
  <2>1. link[q][w] = "down"
    BY <1>2
  <2>2. ~(pc[c] = "add_up" /\ target[c] = [parent |-> q, vlan |-> w])
    BY <1>2
  <2>3. QED
    BY <2>1, <2>2 DEF DownLinkAccounted, TypeOK
<1>3. QED
  BY <1>1, <1>2

\* What one execute_command leaves alone: every link but its own, and the
\* count of faults, which it can only raise.
LEMMA RunCommandFrame ==
    ASSUME TypeOK, NEW c \in Clients, NEW ok, NEW p \in Parents, NEW v,
           NEW new \in LinkState, NEW ACTION Then,
           RunCommand(c, ok, p, v, new, Then)
    PROVE  /\ faults' \in Nat /\ faults' >= faults
           /\ \A q \in Parents, w \in VlanIds :
                 <<q, w>> # <<p, v>> => link'[q][w] = link[q][w]
<1>1. faults' \in Nat /\ faults' >= faults
  BY ConstantsAssumption DEF RunCommand, TransportFault, TypeOK
<1>2. link' = link \/ link' = [link EXCEPT ![p][v] = new]
  BY DEF RunCommand
<1>3. QED
  BY <1>1, <1>2 DEF TypeOK

\* The steps that issue no command keep every down link accounted.
LEMMA ListingAccounted ==
    ASSUME TypeOK, DownLinkAccounted, NEW c \in Clients, NEW p \in Parents,
           NEW v \in VlanIds \cup {0},
           \/ GetVlanIdsCall(c, p)
           \/ AddVlanCheck(c, p, v)
           \/ RemoveVlanResolve(c, p, v)
    PROVE  DownLinkAccounted'
<1>1. pc[c] = "idle" /\ link' = link
  BY DEF GetVlanIdsCall, AddVlanCheck, RemoveVlanResolve
<1>2. \A d \in Clients \ {c} : pc'[d] = pc[d] /\ target'[d] = target[d]
  BY DEF GetVlanIdsCall, AddVlanCheck, RemoveVlanResolve, Finish, Goto, TypeOK
<1>3. faults' \in Nat /\ faults' >= faults
  BY ConstantsAssumption
     DEF GetVlanIdsCall, AddVlanCheck, RemoveVlanResolve, TransportFault, TypeOK
<1>4. QED
  BY <1>1, <1>2, <1>3, AccountedListing

\* add_vlan's "ip link add": the link it creates down is accounted by its
\* caller, now waiting at add_up with that target.
LEMMA AddVlanCreateAccounted ==
    ASSUME TypeOK, DownLinkAccounted, NEW c \in Clients, AddVlanCreate(c)
    PROVE  DownLinkAccounted'
<1> DEFINE p == target[c].parent
           v == target[c].vlan
<1>1. p \in Parents /\ target[c] = [parent |-> p, vlan |-> v]
  BY DEF TypeOK, Target
<1>2. RunCommand(c, IpLinkAddOk(p, v), p, v, "down", Goto(c, "add_up"))
  BY DEF AddVlanCreate
<1>3. \A d \in Clients \ {c} : pc'[d] = pc[d] /\ target'[d] = target[d]
  BY <1>2 DEF AddVlanCreate, RunCommand, Finish, Goto, TypeOK
<1>4. /\ faults' \in Nat /\ faults' >= faults
      /\ \A q \in Parents, w \in VlanIds :
            <<q, w>> # <<p, v>> => link'[q][w] = link[q][w]
  BY <1>1, <1>2, RunCommandFrame DEF LinkState
<1>5. v \in VlanIds /\ link'[p][v] = "down" =>
         \/ faults' > 0
         \/ pc'[c] = "add_up" /\ target'[c] = target[c]
         \/ link[p][v] = "down" /\ pc[c] # "add_up"
  BY <1>2, ConstantsAssumption
     DEF AddVlanCreate, RunCommand, Finish, Goto, TransportFault, TypeOK
<1>6. QED
  BY <1>1, <1>3, <1>4, <1>5, AccountedCommand

\* add_vlan's "ip link set up": success brings the link up, a refusal
\* means it was absent, and only a fault can leave it down.
LEMMA AddVlanBringUpAccounted ==
    ASSUME TypeOK, DownLinkAccounted, NEW c \in Clients, AddVlanBringUp(c)
    PROVE  DownLinkAccounted'
<1> DEFINE p == target[c].parent
           v == target[c].vlan
<1>1. p \in Parents /\ target[c] = [parent |-> p, vlan |-> v]
  BY DEF TypeOK, Target
<1>2. RunCommand(c, IpLinkSetUpOk(p, v), p, v, "up", Finish(c, "ok"))
  BY DEF AddVlanBringUp
<1>3. \A d \in Clients \ {c} : pc'[d] = pc[d] /\ target'[d] = target[d]
  BY <1>2 DEF AddVlanBringUp, RunCommand, Finish, TypeOK
<1>4. /\ faults' \in Nat /\ faults' >= faults
      /\ \A q \in Parents, w \in VlanIds :
            <<q, w>> # <<p, v>> => link'[q][w] = link[q][w]
  BY <1>1, <1>2, RunCommandFrame DEF LinkState
<1>5. v \in VlanIds /\ link'[p][v] = "down" => faults' > 0 \/ p \in DownParents
  <2> SUFFICES ASSUME v \in VlanIds, link'[p][v] = "down", p \notin DownParents
               PROVE  faults' > 0
    OBVIOUS
  <2>1. CASE IpLinkSetUpOk(p, v) /\ link' = [link EXCEPT ![p][v] = "up"]
    BY <1>1, <2>1 DEF TypeOK
  <2>2. CASE ~IpLinkSetUpOk(p, v) /\ link' = link
    BY <2>2 DEF IpLinkSetUpOk
  <2>3. CASE faults' = faults + 1
    BY <2>3, ConstantsAssumption DEF TypeOK
  <2>4. QED
    BY <1>2, <2>1, <2>2, <2>3 DEF RunCommand, TransportFault
<1>6. QED
  BY <1>1, <1>3, <1>4, <1>5, AccountedCommand

\* remove_vlan's "ip link del": it removes the link or, refused, leaves a
\* down link with the witness it had, which is not its caller.
LEMMA RemoveVlanDeleteAccounted ==
    ASSUME TypeOK, DownLinkAccounted, NEW c \in Clients, RemoveVlanDelete(c)
    PROVE  DownLinkAccounted'
<1> DEFINE p == target[c].parent
           v == target[c].vlan
<1>1. p \in Parents /\ target[c] = [parent |-> p, vlan |-> v]
  BY DEF TypeOK, Target
<1>2. RunCommand(c, IpLinkDelOk(p, v), p, v, "absent", Finish(c, "ok"))
  BY DEF RemoveVlanDelete
<1>3. \A d \in Clients \ {c} : pc'[d] = pc[d] /\ target'[d] = target[d]
  BY <1>2 DEF RemoveVlanDelete, RunCommand, Finish, TypeOK
<1>4. /\ faults' \in Nat /\ faults' >= faults
      /\ \A q \in Parents, w \in VlanIds :
            <<q, w>> # <<p, v>> => link'[q][w] = link[q][w]
  BY <1>1, <1>2, RunCommandFrame DEF LinkState
<1>5. v \in VlanIds /\ link'[p][v] = "down" =>
         faults' > 0 \/ (link[p][v] = "down" /\ pc[c] # "add_up")
  BY <1>2, ConstantsAssumption
     DEF RemoveVlanDelete, RunCommand, Finish, TransportFault, TypeOK
<1>6. QED
  BY <1>1, <1>3, <1>4, <1>5, AccountedCommand

\* No interleaving of add_vlan, remove_vlan and get_vlan_ids of any
\* number of callers, with any bound on transport faults, leaves a VLAN
\* link down on the host unless a fault occurred, its interface is down (so
\* that "ip link set up" fails with ENETDOWN), or its add_vlan is still
\* between "ip link add" and "ip link set up".
THEOREM DownLinkAccountedInvariant == Spec => []DownLinkAccounted
<1>1. Init => IInv
  <2> SUFFICES ASSUME Init PROVE DownLinkAccounted
    BY InitType DEF IInv
  <2>1. \A p \in Parents, v \in VlanIds : link[p][v] = "down" => p \in DownParents
    BY DEF Init
  <2>2. QED
    BY <2>1 DEF DownLinkAccounted
<1>2. IInv /\ [Next]_vars => IInv'
  <2> SUFFICES ASSUME TypeOK, DownLinkAccounted, [Next]_vars
               PROVE  DownLinkAccounted'
    BY NextType DEF IInv
  <2>1. CASE UNCHANGED vars
    BY <2>1 DEF vars, DownLinkAccounted
  <2>2. QED
    BY <2>1, ListingAccounted, AddVlanCreateAccounted,
       AddVlanBringUpAccounted, RemoveVlanDeleteAccounted
       DEF Next
<1>3. IInv => DownLinkAccounted
  BY DEF IInv
<1>4. QED
  BY <1>1, <1>2, <1>3, PTL DEF Spec

-----------------------------------------------------------------------------
(***************************************************************************)
(* AlreadyExistsTruthful, when no interface's name is a suffix of another *)
(* one's (the run vlan_suffix shows it fails otherwise).                  *)
(***************************************************************************)
ExistsStepTruthful ==
    \A c \in Clients :
        (StepOf(c) /\ outcome'[c] = "exists")
           => link[target'[c].parent][target'[c].vlan] # "absent"

\* Only the check of add_vlan ends a call with "exists", and then the
\* ifconfig it read listed the link as up.
LEMMA AddVlanCheckTruthful ==
    ASSUME TypeOK, SuffixOf = {}, NEW c \in Clients, NEW p \in Parents,
           NEW v \in VlanIds, AddVlanCheck(c, p, v)
    PROVE  ExistsStepTruthful
<1> SUFFICES ASSUME NEW e \in Clients, StepOf(e), outcome'[e] = "exists"
             PROVE  link[target'[e].parent][target'[e].vlan] # "absent"
  BY DEF ExistsStepTruthful
<1>1. e = c
  BY DEF StepOf, AddVlanCheck
<1>2. v \in GetVlanIds(p)
  BY <1>1 DEF AddVlanCheck, Finish, Goto, TypeOK
<1>3. link[p][v] = "up"
  BY <1>2 DEF GetVlanIds
<1>4. QED
  BY <1>1, <1>3 DEF AddVlanCheck, TypeOK

\* Every other step of a caller ends its call otherwise or not at all.
LEMMA OtherStepTruthful ==
    ASSUME TypeOK, NEW c \in Clients,
           \/ \E p \in Parents : GetVlanIdsCall(c, p)
           \/ AddVlanCreate(c) \/ AddVlanBringUp(c) \/ RemoveVlanDelete(c)
           \/ \E p \in Parents, v \in VlanIds \cup {0} : RemoveVlanResolve(c, p, v)
    PROVE  ExistsStepTruthful
<1> SUFFICES ASSUME NEW e \in Clients, StepOf(e), outcome'[e] = "exists"
             PROVE  FALSE
  BY DEF ExistsStepTruthful
<1>1. e = c
  BY DEF StepOf, GetVlanIdsCall, AddVlanCreate, AddVlanBringUp,
         RemoveVlanDelete, RemoveVlanResolve, RunCommand
<1>2. outcome'[c] \in {"ok", "failed", "notfound", "none"}
  BY DEF GetVlanIdsCall, AddVlanCreate, AddVlanBringUp, RemoveVlanDelete,
         RemoveVlanResolve, RunCommand, Finish, Goto, TypeOK
<1>3. QED
  BY <1>1, <1>2

\* When no interface's name ends with another's, add_vlan raises
\* VlanAlreadyExistsException only when the link it was asked to create
\* is on the host, however the callers interleave.
THEOREM AlreadyExistsTruthfulWithoutSuffixes ==
    SuffixOf = {} => (Spec => AlreadyExistsTruthful)
<1> SUFFICES ASSUME SuffixOf = {} PROVE Spec => AlreadyExistsTruthful
  OBVIOUS
<1>1. TypeOK /\ [Next]_vars => [ExistsStepTruthful]_vars
  <2> SUFFICES ASSUME TypeOK, [Next]_vars PROVE [ExistsStepTruthful]_vars
    OBVIOUS
  <2>1. CASE UNCHANGED vars
    BY <2>1
  <2>2. QED
    BY <2>1, AddVlanCheckTruthful, OtherStepTruthful DEF Next
<1>2. QED
  BY <1>1, TypeCorrect, PTL DEF Spec, AlreadyExistsTruthful, ExistsStepTruthful

-----------------------------------------------------------------------------
(***************************************************************************)
(* NotFoundOnlyWithoutVlans, when 0 is not a VLAN id the host uses (the   *)
(* run vlan_zero shows it fails otherwise).                                *)
(***************************************************************************)
NotFoundStepTruthful ==
    \A c \in Clients :
        (StepOf(c) /\ outcome'[c] = "notfound") => listed'[c] = {}

\* get_vlan_id returns 0 only for an empty listing when 0 is not an id.
LEMMA GetVlanIdOfZero ==
    ASSUME 0 \notin VlanIds, NEW ids \in SUBSET VlanIds, 0 \in GetVlanIdOf(ids)
    PROVE  ids = {}
BY DEF GetVlanIdOf

\* remove_vlan() ends with "notfound" only when get_vlan_id was 0, and the
\* listing it read is the one it returns.
LEMMA RemoveVlanResolveNotFound ==
    ASSUME TypeOK, 0 \notin VlanIds, NEW c \in Clients, NEW p \in Parents,
           NEW v \in VlanIds \cup {0}, RemoveVlanResolve(c, p, v)
    PROVE  NotFoundStepTruthful
<1> SUFFICES ASSUME NEW e \in Clients, StepOf(e), outcome'[e] = "notfound"
             PROVE  listed'[e] = {}
  BY DEF NotFoundStepTruthful
<1>1. e = c
  BY DEF StepOf, RemoveVlanResolve
<1>2. /\ v = 0
      /\ listed' = [listed EXCEPT ![c] = GetVlanIds(p)]
      /\ 0 \in GetVlanIdOf(GetVlanIds(p))
  BY <1>1 DEF RemoveVlanResolve, Finish, Goto, TypeOK
<1>3. GetVlanIds(p) = {}
  BY <1>2, GetVlanIdOfZero DEF GetVlanIds
<1>4. QED
  BY <1>1, <1>2, <1>3 DEF TypeOK

\* Every other step of a caller ends its call otherwise or not at all.
LEMMA OtherStepNotFound ==
    ASSUME TypeOK, NEW c \in Clients,
           \/ \E p \in Parents : GetVlanIdsCall(c, p)
           \/ \E p \in Parents, v \in VlanIds : AddVlanCheck(c, p, v)
           \/ AddVlanCreate(c) \/ AddVlanBringUp(c) \/ RemoveVlanDelete(c)
    PROVE  NotFoundStepTruthful
<1> SUFFICES ASSUME NEW e \in Clients, StepOf(e), outcome'[e] = "notfound"
             PROVE  FALSE
  BY DEF NotFoundStepTruthful
<1>1. e = c
  BY DEF StepOf, GetVlanIdsCall, AddVlanCheck, AddVlanCreate, AddVlanBringUp,
         RemoveVlanDelete, RunCommand
<1>2. outcome'[c] \in {"ok", "failed", "exists", "none"}
  BY DEF GetVlanIdsCall, AddVlanCheck, AddVlanCreate, AddVlanBringUp,
         RemoveVlanDelete, RunCommand, Finish, Goto, TypeOK
<1>3. QED
  BY <1>1, <1>2

\* When 0 is not the id of a VLAN, remove_vlan() raises
\* VlanNotFoundException only when the ifconfig it read showed no VLAN of
\* the interface, however the callers interleave and whatever faults occur.
THEOREM NotFoundOnlyWithoutVlansNoZero ==
    0 \notin VlanIds => (Spec => NotFoundOnlyWithoutVlans)
<1> SUFFICES ASSUME 0 \notin VlanIds PROVE Spec => NotFoundOnlyWithoutVlans
  OBVIOUS
<1>1. TypeOK /\ [Next]_vars => [NotFoundStepTruthful]_vars
  <2> SUFFICES ASSUME TypeOK, [Next]_vars PROVE [NotFoundStepTruthful]_vars
    OBVIOUS
  <2>1. CASE UNCHANGED vars
    BY <2>1
  <2>2. QED
    BY <2>1, RemoveVlanResolveNotFound, OtherStepNotFound DEF Next
<1>2. QED
  BY <1>1, TypeCorrect, PTL DEF Spec, NotFoundOnlyWithoutVlans, NotFoundStepTruthful

=============================================================================
