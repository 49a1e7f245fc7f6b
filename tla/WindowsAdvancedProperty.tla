------------------------ MODULE WindowsAdvancedProperty ------------------------
(***************************************************************************)
(* The advanced-property operations of WindowsUtils in                     *)
(* src/mfd_network_adapter/network_interface/feature/utils/windows.py:     *)
(* get_advanced_property, set_advanced_property and                        *)
(* reset_advanced_properties, against the adapter's property table on the  *)
(* host (what Get-/Set-/Reset-NetAdapterAdvancedProperty read and write).  *)
(*                                                                         *)
(* Each operation is one execute_powershell, an atomic step.  Names are    *)
(* model values; "a.lower() in b.lower()" is the constant relation       *)
(* InName, so that the case-insensitive substring test is modelled by     *)
(* what it accepts.                                                        *)
(***************************************************************************)
EXTENDS Naturals, Sequences

CONSTANTS
    Props,        \* the table: a sequence of [kw |-> RegistryKeyword,
                  \*   disp |-> DisplayName], in Get-NetAdapterAdvancedProperty order
    Values,       \* registry values
    DisplayValues,\* display values
    Valid(_),     \* ValidRegistryValues of a keyword
    Default(_),   \* the default registry value of a keyword
    Display(_, _),\* the DisplayValue shown for a keyword's registry value
    Braced,       \* keywords whose RegistryValue the host prints inside "{}"
    InName(_, _)  \* InName(a, b): a.lower() in b.lower()

Keywords == {Props[i].kw : i \in DOMAIN Props}
Names    == Keywords \cup {Props[i].disp : i \in DOMAIN Props}

ASSUME AdvancedPropertyAssumption ==
    /\ Props \in Seq([kw : Keywords, disp : Names])
    /\ \A i, j \in DOMAIN Props : Props[i].kw = Props[j].kw => i = j
    /\ \A k \in Keywords : Default(k) \in Valid(k) /\ Valid(k) \subseteq Values
    /\ \A k \in Keywords, v \in Values : Display(k, v) \in DisplayValues
    /\ \A a \in Names : InName(a, a)

VARIABLES
    value,   \* value[k]: the registry value of keyword k on the host
    got,     \* the last get_advanced_property: its request and what it returned
    seen     \* the table as it was when that get read it (a history variable)

vars == <<value, got, seen>>

NoGet == [ask |-> "none", registry |-> FALSE, val |-> "none", ok |-> FALSE]

-----------------------------------------------------------------------------
\* The RegistryValue text of the property at i: its value, in braces for
\* the keywords the host prints that way.
RegistryText(i) == [digits |-> value[Props[i].kw], braced |-> Props[i].kw \in Braced]

\* re.sub(r"[{}]", "", found_value)
StripBraces(t) == t.digits

\* The name column a request is compared with: item[name].
NameOf(i, registry) == IF registry THEN Props[i].kw ELSE Props[i].disp

\* found_property: the lines whose name contains the request,
\* case-insensitively.
Matching(a, registry) == {i \in DOMAIN Props : InName(a, NameOf(i, registry))}

\* properties[0] in place of found_property[0]: the first line of the
\* table whenever some property matches.
FoundPropertyUnfiltered(a, registry) ==
    IF Matching(a, registry) = {} THEN 0 ELSE 1

\* found_property[0]: the first of them in table order; 0 for none.
FoundProperty(a, registry) ==
    IF Matching(a, registry) = {} THEN 0
    ELSE CHOOSE i \in Matching(a, registry) : \A j \in Matching(a, registry) : i <= j

\* found_property[0][value], with the value column swapped: DisplayValue
\* read in registry mode.
FoundValueSwapped(i, registry) ==
    IF registry THEN Display(Props[i].kw, value[Props[i].kw])
    ELSE StripBraces(RegistryText(i))

\* found_value: RegistryValue stripped of braces, or DisplayValue.
FoundValue(i, registry) ==
    IF registry THEN StripBraces(RegistryText(i))
    ELSE Display(Props[i].kw, value[Props[i].kw])

-----------------------------------------------------------------------------
Init ==
    /\ value = [k \in Keywords |-> Default(k)]
    /\ seen = value
    /\ got = NoGet

\* get_advanced_property(a, use_registry): one Get-NetAdapterAdvancedProperty;
\* UtilsException when no property matches.
GetAdvancedProperty(a, registry) ==
    LET i == FoundProperty(a, registry) IN
    /\ got' = IF i = 0 THEN [ask |-> a, registry |-> registry, val |-> "none", ok |-> FALSE]
              ELSE [ask |-> a, registry |-> registry, val |-> FoundValue(i, registry),
                    ok |-> TRUE]
    /\ seen' = value
    /\ UNCHANGED value

\* set_advanced_property(k, v): the host refuses a value outside
\* ValidRegistryValues, and execute_powershell then raises.
SetAdvancedProperty(k, v) ==
    /\ \/ /\ v \in Valid(k)
          /\ value' = [value EXCEPT ![k] = v]
       \/ /\ v \notin Valid(k)
          /\ UNCHANGED value
    /\ UNCHANGED <<got, seen>>

\* reset_advanced_properties(): Reset-NetAdapterAdvancedProperty -DisplayName "*".
ResetAdvancedProperties ==
    /\ value' = [k \in Keywords |-> Default(k)]
    /\ UNCHANGED <<got, seen>>

Next ==
    \/ \E a \in Names, r \in BOOLEAN : GetAdvancedProperty(a, r)
    \/ \E k \in Keywords, v \in Values : SetAdvancedProperty(k, v)
    \/ ResetAdvancedProperties

Spec == Init /\ [][Next]_vars

-----------------------------------------------------------------------------
(***************************************************************************)
(* Properties.                                                             *)
(***************************************************************************)

\* A registry-mode get returns a registry value and a display-mode get a
\* display value.
TypeOK ==
    /\ value \in [Keywords -> Values]
    /\ seen \in [Keywords -> Values]
    /\ got.ok => (got.registry => got.val \in Values)
    /\ got.ok => (~got.registry => got.val \in DisplayValues)

\* The property a request names exactly: the one whose RegistryKeyword (or
\* DisplayName) is the request.
Named(a, registry) == {i \in DOMAIN Props : a = NameOf(i, registry)}

\* get_advanced_property of a property's own name returns that property's
\* value on the host when it read the table, whatever set_advanced_property
\* and reset_advanced_properties did before: a caller that sets a keyword
\* and reads it back gets its own value.
GetReadsNamedProperty ==
    got.ok =>
        \A i \in Named(got.ask, got.registry) :
            got.val = IF got.registry THEN seen[Props[i].kw]
                      ELSE Display(Props[i].kw, seen[Props[i].kw])
=============================================================================
