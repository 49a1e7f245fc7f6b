# Formal models of mfd-network-adapter

This directory holds TLA+ models of the parts of `mfd-network-adapter` whose
code is under `src/`, and the TLC runs and TLAPS proofs about them.

## The system and its parts

`mfd-network-adapter` drives network adapters on a remote host. It sends
shell or PowerShell commands through a connection object from the external
package `mfd_connect`. It is made of these parts:

| Part | Code | State it changes | Modelled |
|---|---|---|---|
| Linux VLAN feature: `get_vlan_ids`, `get_vlan_id`, `add_vlan`, `remove_vlan` | `src/.../feature/vlan/linux.py` | the VLAN links of the host (`ip link`) | yes: `LinuxVLAN`, implementing the abstract `VLANSet` |
| Windows utils feature: advanced properties, interface index, PHY info | `src/.../feature/utils/windows.py` | the adapter's advanced properties (by `Set-`/`Reset-NetAdapterAdvancedProperty`); otherwise it reads and parses | yes: `WindowsAdvancedProperty`, `WindowsPhyInfo` |
| Linux adapter owner discovery pipeline (PCI and sysfs readers, the 11 marking passes) | not under `src/`; described by `spec.md` and `test_linux_network_owner.py` | the list of interface records it builds | not yet (planned: `DiscoveryPipeline`, from the spec) |
| Linux virtualization (SR-IOV VFs) and GTP tunnel features | not under `src/`; only their tests are | one `ip`/sysfs command per operation | no: each operation is one command with no state of the library's own |
| Connection (`execute_command`) | external package | the host | only its contract, inside `LinuxVLAN` |

The features do not call each other. They interact only through the host they
all command. For that reason the model of a feature holds the host's state it
touches, and several callers act on that state.

## LinuxVLAN: the VLAN feature

### State and actions

The code and the model correspond as follows:

- **Host state.** `link[p][v]` is the state of the link named `<p>.<v>` on the host: `"absent"`, `"down"` or `"up"`.
- **Interfaces that are down.** `DownParents` is a constant: the interfaces whose link is down. The feature never changes it. The kernel holds every VLAN link of such an interface down, so `Init` starts those links absent or down. It refuses `ip link set dev <p>.<v> up` with ENETDOWN.
- **Callers.** Each caller `c` in `Clients` is one user of the feature, for example two test threads or two controller processes on the same host. The caller's state is:
  - `pc[c]`: which command of its current call it issues next;
  - `target[c]`: the interface and VLAN id the call is about;
  - `listed[c]`: the ids its last `ifconfig` parsing returned;
  - `outcome[c]`: how the call ended (`"ok"`, `"exists"` for `VlanAlreadyExistsException`, `"notfound"` for `VlanNotFoundException`, `"failed"` for a command that raised).
- **Actions.** Each `execute_command` is one atomic step, so the calls of different callers interleave between their commands:

  | Action | Code (linux.py) | What it does |
  |---|---|---|
  | `GetVlanIdsCall` | 21-57 | one `ifconfig`; the ids are computed by `GetVlanIds` |
  | `AddVlanCheck` | 68-76 | `ifconfig`, then `vlan_id in get_vlan_ids()` either raises or goes on |
  | `AddVlanCreate` | 78-86 | `ip link add` |
  | `AddVlanBringUp` | 88-90 | `ip link set dev ... up` |
  | `RemoveVlanResolve` | 92-102 | the explicit id, or `get_vlan_id()` of one `ifconfig`; 0 raises |
  | `RemoveVlanDelete` | 104-109 | `ip link del` |

- **`RunCommand`** is the contract of `execute_command(..., expected_return_codes={0})`. Exactly one of three things happens:
  - the kernel accepts the command and the link changes. `IpLinkAddOk`, `IpLinkSetUpOk` and `IpLinkDelOk` say when it does: `ip link add` needs an absent link and an id up to 4094; `ip link set up` needs an existing link on an interface that is up; `ip link del` needs an existing link;
  - it refuses it and the call raises;
  - the transport fails (at most `MaxFaults` times). Then the command may or may not have run, and the call raises either way.
- **The `ifconfig` parsing** is modelled by what the regex matches.
  - `ifconfig` without `-a` lists only links that are up.
  - The pattern `name + r"\.\d+"` is unanchored, so it also matches `<q>.<v>` when `p`'s name is a suffix of `q`'s. `SuffixOf` says which interface names are suffixes of which.
  - `GetVlanIdOf` is `get_vlan_id`: the least listed id, or 0.
- **What the model leaves out.** The wording of log messages and exceptions. Interface names are model values, so the IFNAMSIZ limit (`ip link add` refuses a name over 15 characters) is not modelled. It would only be one more refusal that ends the call with `"failed"`, like the refusals that are modelled.

### Runs (`MC_LinuxVLAN.tla`)

| Run | cfg | Checks | Result |
|---|---|---|---|
| `vlan_pass` | `LinuxVLAN_pass.cfg` | `TypeOK`, `DownLinkAccounted`, `AlreadyExistsTruthful`, and `CallsReturn` under `FairSpec`; `veth1` is down | passes: 245,916 distinct states, depth 16, about 40 s |
| `vlan_suffix` | `LinuxVLAN_suffix.cfg` | `AlreadyExistsTruthful` with `eth1` a suffix of `veth1` | violated |
| `vlan_zero` | `LinuxVLAN_zero.cfg` | `NotFoundOnlyWithoutVlans` | violated |
| `vlan_hidden` | `LinuxVLAN_hidden.cfg` | `ListingComplete` | violated |

**Bounds.** Each bound is chosen so that an interesting case can happen:

- Two callers is the least number for which the check-then-act of `add_vlan`, and a `remove_vlan` between two commands of another caller, can happen.
- Two interfaces let a command on one interface interleave with a listing of the other. One of them (`veth1`) is down, so the ENETDOWN refusal of `ip link set up` happens, and the VLAN links it starts with are down.
- The VLAN ids are 0 (remove_vlan's default, and a valid VLAN id), 7 (an ordinary id), and 4095 (which the kernel refuses).
- One transport fault is enough to reach every fault path, since a call ends at its first fault.
- Every execution is finite: each call ends after at most three steps, and faults are bounded. The state space is nevertheless closed under any number of calls, so the runs cover unbounded sequences of calls.

**The properties** of the pass run:

- `DownLinkAccounted`: without a transport fault, a link of an interface that is up is down only while the `add_vlan` that made it is between its two commands. This holds whatever the other callers do, including a `remove_vlan` of the same link. A mutant that returns after `ip link add` breaks it. The property says nothing of an interface that is down or of a run with a fault: those leave a down link behind, which is what `vlan_hidden` shows.
- `AlreadyExistsTruthful`: when `add_vlan` raises `VlanAlreadyExistsException`, the requested link is on the host. A mutant whose pattern drops the interface name breaks it.
- `TypeOK`. A mutant `get_vlan_id` that returns `len(vlan_ids)` breaks it.

### Findings

Each violation run shows a disagreement between the code and what its docstring says:

1. **Unanchored pattern** (`linux.py:37`). `get_vlan_ids` of `eth1` also returns the VLANs of `veth1`. As a result, `add_vlan(9)` on `eth1` raises "already exists" when only `veth1.9` exists.
2. **VLAN 0** (`linux.py:66`, `101`). 0 means both "none" and VLAN id 0. When `<if>.0` exists, `remove_vlan()` raises "No VLANs found".
3. **Links left down** (`linux.py:86`). In the trace of `vlan_hidden`:
   - the reply of `ip link add` is lost after the host ran it;
   - `add_vlan` raises before `ip link set up`, and the link stays down;
   - the next `get_vlan_ids` does not list it, because `ifconfig` without `-a` shows only links that are up.

   A bring-up refused with ENETDOWN (`linux.py:90`) leaves a down link in the same way.

### Proofs (`LinuxVLAN_proofs.tla`)

The proofs hold for every value of the constants. They rest on `ConstantsAssumption`:

- `Parents` is not empty;
- the VLAN ids are naturals;
- `SuffixOf` relates distinct interfaces;
- `MaxFaults` is a natural;
- `DownParents` is a set of interfaces.

The theorems are:

- **`TypeCorrect`**: `Spec => []TypeOK`. TypeOK is inductive as it stands. The proof has one lemma per operation. Each lemma first states the shape of every primed variable, then its type. The shared parts are the lemmas `RunCommandType`, `ListingStepType`, `FinishType` and `GotoType`.
- **`DownLinkAccountedInvariant`**: `Spec => []DownLinkAccounted`, for every set of interfaces that are down. The proof uses the inductive invariant `IInv == TypeOK /\ DownLinkAccounted`. TypeOK is needed because the argument relies on two facts from it:
  - `target[c]` is a record of an interface and an id;
  - `faults` is a natural that only grows.

  The argument runs as follows:
  - a step of caller `c` changes only `c`'s pc and target, and at most the one link of `c`'s target;
  - `c` witnesses a down link only while it is at `add_up`, and only the link of its target;
  - a caller's target does not change while the caller is not idle.

  So the only link whose accounting a step can disturb is the one it commands. `AccountedCommand` proves this frame argument once. Each command lemma then shows that its own link stays accounted:
  - `ip link add` makes its caller the witness;
  - `ip link set up` either succeeds, or was refused because the link is absent or because its interface is down (a link the property exempts);
  - `ip link del` either removes the link, or leaves it with its old witness.
- **`AlreadyExistsTruthfulWithoutSuffixes`**: `SuffixOf = {} => (Spec => AlreadyExistsTruthful)`. It follows from `TypeCorrect`: only the check of `add_vlan` sets the outcome `"exists"`, and then the link was listed as up.
- **`NotFoundOnlyWithoutVlansNoZero`**: `0 \notin VlanIds => (Spec => NotFoundOnlyWithoutVlans)`. The theorem holds for any number of callers and faults. The argument:
  - only `remove_vlan()` with the default id ends a call with `"notfound"`;
  - it does so only when `get_vlan_id` gave 0;
  - when 0 is not an id, `get_vlan_id` gives 0 only for an empty listing, and that listing is what the caller saw.

  The run `vlan_zero` shows that the hypothesis is needed. The property is also checked in `vlan_refine`. A mutant whose `get_vlan_id` tests `len(vlan_ids) > 1` breaks it.

Out of the provers' reach, and left to TLC:

- **Liveness.** `CallsReturn` (below) is checked by TLC only: TLAPS does not reason about `ENABLED` and fairness.
- **What the violation runs show.**

### Refinement: `VLANSet` (`VLANSet.tla`)

`VLANSet` is what the docstrings of `linux.py` promise, written as an abstract specification. Each interface has a set of VLANs, and every call takes effect at one instant:

- `List` is `get_vlan_ids`.
- `AddExists` and `AddDone` are `add_vlan`: it raises when the VLAN is already there, and otherwise adds it.
- `RemoveDone` and `RemoveNotFound` are `remove_vlan`.
- `Fail` is a call that raises a command error and changes nothing.
- `Begin` is the start of a call of several commands, which makes the caller busy.

`LinuxVLAN` maps onto it through `VSet == INSTANCE VLANSet WITH ...`:

- `vlans <- UpLinks`: the VLANs of an interface are its links that are up;
- `res <- Result`: a caller's outcome once it is idle, and `"none"` while it is busy;
- `shown <- listed`.

`ImplementsVLANSet == VSet!Spec` is checked as a PROPERTY.

| Run | cfg | Checks | Result |
|---|---|---|---|
| `vlan_refine` | `LinuxVLAN_refine.cfg` | `NotFoundOnlyWithoutVlans`, `ImplementsVLANSet`; one caller; ids 7, 9 and the refused 4095; no transport fault; both interfaces up | passes, 1,008 distinct states |
| `vlan_race` | `LinuxVLAN_race.cfg` | `ImplementsVLANSet`, with two callers | violated |

The hypotheses of `vlan_refine` leave out what the other findings already show:

- a fault leaves a down link, which no atomic operation explains;
- a suffix name makes the listing wrong;
- VLAN id 0 is taken as "none";
- an interface that is down holds VLAN links that are down. A `remove_vlan` of such a link succeeds, but no VLAN of `VSet` is removed. With `DownParents = {veth1}`, TLC finds this in a short trace, with one caller and no fault.

A mutant `add_vlan` that returns after `ip link add` breaks the refinement.

**Finding 4: concurrent add and remove** (`linux.py:109`). With two callers and no fault, the refinement fails as follows:

1. Caller 1 runs `add_vlan(7)` and creates `eth1.7`, which is still down.
2. Caller 2 runs `remove_vlan(7)`, deletes that link and returns success. VLAN 7 was never an up VLAN.
3. Caller 1's `ip link set up` then fails.

No order of the two calls as atomic operations gives these results. The docstrings say nothing about concurrent callers, and the class holds no lock.

**Liveness** (checked in `vlan_pass`). `CallsReturn` says that every started call eventually returns or raises. The fairness assumed is weak fairness, per caller, of the actions that continue a started call: `AddVlanCreate`, `AddVlanBringUp` and `RemoveVlanDelete`. The code justifies this: the next `execute_command` is issued as soon as the previous one returns, with no wait and no retry. Starting a call is not assumed fair. A mutant whose bring-up retries while the kernel refuses it breaks `CallsReturn`, because a link deleted by another caller stays absent and the retry never ends.

### Proof of the refinement (`LinuxVLANRefinement_proofs.tla`)

**`RefinementOneCaller`**: `RefinementHypothesis => (Spec => ImplementsVLANSet)`, for every set of interfaces and ids. `RefinementHypothesis` assumes:

- one caller;
- `MaxFaults = 0`;
- no suffix names;
- VLAN id 0 is not used;
- no interface is down (`DownParents = {}`).

The proof follows the usual pattern:

- `InitRefines`: the initial states map to initial states of `VSet`.
- `StepRefines`: every step of `Next` maps to a step of `VSet!Next` or to a stutter. It has one lemma per action:
  - the listing is `List`;
  - the check of `add_vlan` is `AddExists` or `Begin`;
  - `ip link add` changes no up link;
  - `ip link set up` is `AddDone`;
  - the resolution of `remove_vlan()` is `Begin` or `RemoveNotFound`;
  - `ip link del` is `RemoveDone`, or `Fail` when the kernel refuses it.

The step proof needs the invariant `AddUpInv`, together with `TypeOK` and `DownLinkAccounted`:

- `AddUpInv` says that a caller at `add_up` has a down link of a valid id, so its bring-up really adds a VLAN.
- `DownLinkAccounted` is needed because, with a single caller, the link that `ip link del` removes is up whenever that caller is resolving a remove. That is why `ip link del` removes a VLAN of `VSet`.

## WindowsAdvancedProperty: advanced properties (`windows.py` 33-93)

**State.** `value[k]` is the registry value of keyword `k` on the host. `got` is what the last `get_advanced_property` returned, with its request. `seen` is a history variable: the table as that get read it.

**Actions.** Each operation is one `execute_powershell`, so each is one atomic step:

- `GetAdvancedProperty(a, registry)` (33-59): `Matching` is the list comprehension of lines 47-51 (as a set of table positions), and `FoundProperty` is its least position, the first property whose RegistryKeyword or DisplayName contains `a`, case-insensitively. The substring test is the constant relation `InName(a, b)`, so names are model values and the test is modelled by what it accepts. No match raises `UtilsException`. In registry mode the value is stripped of braces (`RegistryText`, `StripBraces`).
- `SetAdvancedProperty(k, v)` (74-87): the host accepts `v` only if it is in `Valid(k)`. Otherwise the command fails and the table is unchanged.
- `ResetAdvancedProperties` (89-93): every value goes back to its default.

`get_advanced_properties`, `get_advanced_property_valid_values` and `get_interface_index` only read and return one command's output. In the model they are the table that a get reads.

**Runs** (`MC_WindowsAdvancedProperty.tla`):

| Run | Checks | Result |
|---|---|---|
| `advprop_pass` | `TypeOK`, `GetReadsNamedProperty` on `*JumboPacket`, `*SpeedDuplex`, `*RSS`, values 0, 1 and the refused 2 | passes, 776 distinct states |
| `advprop_substring` | `GetReadsNamedProperty` with `*RSSProfile` listed before `*RSS` | violated |

`GetReadsNamedProperty` says that a get by a property's own name returns that property's value as the host held it, after any sequence of sets, refused sets and resets. Two mutants break it or `TypeOK`: taking `properties[0]` in place of `found_property[0]`, and swapping the value column.

**Finding** (`windows.py:50`). After `set_advanced_property("*RSS", 1)`, `get_advanced_property("*RSS", True)` returns `*RSSProfile`'s value, because `"*rss"` is in `"*rssprofile"` and that property is listed first.

**Proof** (`WindowsAdvancedProperty_proofs.tla`). The theorem is **`GetReadsNamedWithoutSubstrings`**: `NoNameInAnother => (Spec => []GetReadsNamedProperty)`. The hypothesis `NoNameInAnother` says that no name contains another within the same column. The table of `advprop_pass` satisfies it; the table of `advprop_substring` does not.

The argument:

1. The lemma `MatchingOwnName` shows that the only line matching a property's own name is that line. This uses `InName(a, a)` from the assumption of the module.
2. So `found_property[0]` is that property, whichever line comes first (`FoundOwnName`). This argument needs no least-element lemma.
3. `GetReadsNamedProperty` is inductive on its own, because `seen` records the table as the get read it.

**`TypeCorrect`**: `Spec => []TypeOK`, with no hypothesis. `TypeOK` is inductive as it stands. The one fact it needs beyond the assumption on the constants is `FoundPropertyMatches`: `found_property[0]` is a matching line whenever one matches. The model writes `found_property[0]` as the least matching position, so the proof needs that a non-empty set of naturals has a least element.

That fact is the lemma `LeastChosen` of `LeastElement.tla`. The library states it twice:
- `SmallestNatural` takes an operator parameter, which the provers cannot instantiate;
- `WFMin` combined with `NatLessThanWellFounded` (WellFoundedInduction) has none.

`LeastElement` derives the fact from the second pair, so the proof needs no induction of its own.

## WindowsPhyInfo: `get_phy_info` (`windows.py` 108-196)

**The data.** Text is abstracted to words:

- An adapter name is a sequence of words. `Lower` is `str.lower` on one word. `"for"` and the `"#N"` tags are distinguished words.
- A row of the WMI table is an instance name and its PhyInfo array. The header lines, which the code filters out at 128-133, are not rows.
- `Width(n)` is the number of characters of name `n`. `Format-Table -auto` (116-119) makes the InstanceName column as wide as the widest name, or as the 12-character header `InstanceName` (`HeaderWidth`) if that is wider. It then puts one space before the PhyInfo column. The MC module computes `Width` from the words.

**The call.** The method keeps no state between calls, so a behaviour is one `GetPhyInfo(rs, d)` on a table `rs` of at most `MaxRows` adapters and a description `d`. Every sequence of calls is a sequence of such behaviours. `CHECK_DEADLOCK FALSE` is set because the call ends.

**How the code maps to the model:**

| Definition | Code (lines) |
|---|---|
| `CutForClause`, `StripNumTag`, `BaseName` | the normalised description (135-139) |
| `HasInstanceName` | `re.match(r"^(.*?)\s{2,}", line)` (144-148): a line with PHY values whose name is narrower than the column, so that two spaces or more follow it |
| `NormalizedName` | the instance names (149-153): `#N` stripped, but no cut at `" for "` |
| `MatchingLine` | the exact match, else the first line (141-162) |
| `PhyValues` | `split(None, 1)[-1].split(",")` (166-169): only the first word of the name is split off, so the rest stays in front of the first value |
| `Bit` | the decoding of bits 0 and 1 (175-178) |

`ParsesAsInt` models the `ValueError` branch (188-189). That branch is reached only when the third field is not a bare number. With names of words and no commas in names, the model never reaches it.

**Runs** (`MC_WindowsPhyInfo.tla`):

| Run | Checks | Result |
|---|---|---|
| `phy_pass` | `NarrowRequestedAdapterReported`, `ReportedFromRequestedOrFirst` | passes, 97,657 distinct states, a few seconds |
| `phy_for` | `RequestedAdapterReported` with `"x710 for io"` (narrower than the header) | violated |
| `phy_pad` | `RequestedAdapterReported` with `"intel ethernet x710"` (19 characters) and `"intel e810"` | violated |
| `phy_raw` | `RawValuesAreThePhyInfo` | violated |

The pass run covers every table of up to three adapters. Its names come in two cases, with one, two or three words, and one of them is wider than the header. Its PhyInfo arrays are of 0, 2, 3 and 4 values, whose third value sets both auto-negotiation bits, one bit, or neither. It also covers every description, including none. Its names have no `" for "` clause and no twins.

`RequestedAdapterReported` says that the requested adapter is reported whenever the table lists it once with three values. It fails on that table, because of the padding. `NarrowRequestedAdapterReported` adds the condition under which the code can find the line: the name is narrower than the column. The violation runs show what goes wrong:

- A `" for "` clause is cut from the description but not from the instance names, so such an adapter is never matched and the first line is reported (`windows.py:138`).
- The widest name, once wider than the header, is followed by a single space. The line of that adapter is never matched, and the first line is reported (`windows.py:145`).
- `raw_values[0]` carries the rest of a multi-word instance name (`windows.py:166`). The unit test at `test_utils_windows.py:255-296` expects the bare values, and its instance names have several words. So that test fails against this code.

Twin adapters `X` and `X #2` normalise to the same name (`windows.py:150`). The code comment and the test of a `#N` description show this is intended, so no run reports it. The theorems assume names without a tag.

The mutants are a `normalized_name` without `.lower()` (it breaks `NarrowRequestedAdapterReported`) and a fallback to the last line (it breaks `ReportedFromRequestedOrFirst`).

`FirstIn(I)` is the least position of a set, or 0. It models a loop over the lines that breaks at the first hit (142-158), and the cut at the first `" for "`. The model uses no community module, so that it can be reasoned about.

**Proofs** (`WindowsPhyInfo_proofs.tla`). Both properties of `phy_pass` are proved for every table, every description and every `Width` whose names satisfy `PlainNames`: no name has a `" for "` clause or ends with a `"#N"` tag. This is the case the pass run covers. `phy_for` shows that the first half of the hypothesis is needed. Without the second half, `"intel x710 #2"` is reported from the line of `"intel x710"`.

- **`NarrowRequestedReportedPlainNames`**: `PlainNames => (Spec => []NarrowRequestedAdapterReported)`.
- **`ReportedFromRequestedOrFirstPlainNames`**: `PlainNames => (Spec => []ReportedFromRequestedOrFirst)`.

Both proofs use the inductive invariant `IInv`: the table and description are well typed, and `result = PhyInfoOf(rows, desc)`. The call keeps no state, so the properties become facts about `PhyInfoOf`, proved as lemmas about the model's operators:

- `PlainBaseName` and `PlainNormalizedName`: for plain names, `base_name` and `normalized_name` are the lowered names.
- `MatchesAreRequested`: so a line matches exactly when it names the requested adapter and the code finds its instance name.
- `MatchingLineRequestedOrFirst`: `matching_line` is a requested line, the first line, or none. This uses the least element (`FirstInMember`).
- `MatchingLineRequested`: a requested adapter listed once, whose instance name the code finds, is its own matching line.
- `PhyValuesOfRow` and `PhyInfoOfLine`: the decoding of the matching line reports its third value exactly when it has one.

`RawValuesAreThePhyInfo` is only a violation run, and is not proved.

## Plan for the remaining parts

1. **`DiscoveryPipeline`** (modelled from `spec.md`, since its code is not under `src/`). The record list passes through the eleven passes as one action each. The properties to check are:
   - each VPORT stub is matched at most once;
   - unmatched PF stubs are dropped;
   - bonding marks BOND before BOND_SLAVE;
   - tunnels are removed last.
2. **What stays with TLC.** Three things stay model-checked only:
   - `CallsReturn`, a liveness property;
   - the refinement with two callers, with faults or with an interface down, which fails (`vlan_race`, `vlan_hidden`, and the trace described under `vlan_refine`);
   - the violation runs.
3. **Not covered by a property.** Three hazards have no property:
   - the IFNAMSIZ limit on `<if>.<id>` (`linux.py:83`). Interface names are model values, and the refusal would only end the call with `"failed"`;
   - a stale id in `remove_vlan()` (`linux.py:100`). Its delete is refused, and `VLANSet` allows any call to fail;
   - the merging of `#N` twins (`windows.py:150`), which the code intends.
