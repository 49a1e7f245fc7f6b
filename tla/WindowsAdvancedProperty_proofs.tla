------------------- MODULE WindowsAdvancedProperty_proofs -------------------
(***************************************************************************)
(* Proofs about the advanced-property operations of WindowsUtils.         *)
(*                                                                         *)
(* get_advanced_property keeps every line whose name contains the request  *)
(* and reads the first.  When no name of the table contains another, the  *)
(* only line that contains a property's own name is that property's line, *)
(* so the read is of the right property.  The substring run shows what    *)
(* happens on a table where one name does contain another.                *)
(***************************************************************************)
EXTENDS WindowsAdvancedProperty, LeastElement, TLAPS

\* No RegistryKeyword contains another, and no DisplayName contains another.
NoNameInAnother ==
    \A i, j \in DOMAIN Props, r \in BOOLEAN :
        InName(NameOf(i, r), NameOf(j, r)) => i = j

\* A property's own name is a name of the table.
LEMMA NameOfIsName ==
    ASSUME NEW i \in DOMAIN Props, NEW r \in BOOLEAN
    PROVE  NameOf(i, r) \in Names
BY AdvancedPropertyAssumption DEF NameOf, Names, Keywords

\* The lines matching a property's own name are that property's line alone.
LEMMA MatchingOwnName ==
    ASSUME NoNameInAnother, NEW i \in DOMAIN Props, NEW r \in BOOLEAN
    PROVE  Matching(NameOf(i, r), r) = {i}
<1>1. i \in Matching(NameOf(i, r), r)
  BY NameOfIsName, AdvancedPropertyAssumption DEF Matching
<1>2. \A j \in Matching(NameOf(i, r), r) : j = i
  BY DEF Matching, NoNameInAnother
<1>3. QED BY <1>1, <1>2

\* found_property[0] for a property's own name is that property.
LEMMA FoundOwnName ==
    ASSUME NoNameInAnother, NEW a, NEW r \in BOOLEAN, NEW i \in Named(a, r)
    PROVE  FoundProperty(a, r) = i
<1>1. a = NameOf(i, r) /\ i \in DOMAIN Props
  BY DEF Named
<1>2. Matching(a, r) = {i}
  BY <1>1, MatchingOwnName
<1>3. QED BY <1>2 DEF FoundProperty

-----------------------------------------------------------------------------
\* The invariant holds initially: no get has returned yet.
LEMMA ReadsInit == Init => GetReadsNamedProperty
BY DEF Init, GetReadsNamedProperty, NoGet

\* A get of a property's own name returns that property's value as it reads
\* the table, which it records in seen.
LEMMA ReadsGet ==
    ASSUME NoNameInAnother, NEW a, NEW r \in BOOLEAN,
           GetAdvancedProperty(a, r)
    PROVE  GetReadsNamedProperty'
<1> SUFFICES ASSUME got'.ok, NEW i \in Named(got'.ask, got'.registry)
             PROVE  got'.val = IF got'.registry THEN seen'[Props[i].kw]
                               ELSE Display(Props[i].kw, seen'[Props[i].kw])
  BY DEF GetReadsNamedProperty
<1>1. /\ FoundProperty(a, r) # 0
      /\ got' = [ask |-> a, registry |-> r, val |-> FoundValue(FoundProperty(a, r), r),
                 ok |-> TRUE]
      /\ seen' = value
  BY DEF GetAdvancedProperty
<1>2. FoundProperty(a, r) = i
  BY <1>1, FoundOwnName
<1>3. QED BY <1>1, <1>2 DEF FoundValue, StripBraces, RegistryText

\* set_advanced_property and reset_advanced_properties leave the last get
\* and what it read alone.
LEMMA ReadsStep ==
    ASSUME NoNameInAnother, GetReadsNamedProperty, [Next]_vars
    PROVE  GetReadsNamedProperty'
<1>1. CASE \E a \in Names, r \in BOOLEAN : GetAdvancedProperty(a, r)
  BY <1>1, ReadsGet
<1>2. CASE UNCHANGED <<got, seen>>
  BY <1>2 DEF GetReadsNamedProperty, Named, NameOf
<1>3. QED BY <1>1, <1>2 DEF Next, SetAdvancedProperty, ResetAdvancedProperties, vars

\* get_advanced_property of a property's RegistryKeyword or DisplayName
\* reads that property, for every table in which no name contains another,
\* whatever sets and resets came before.
THEOREM GetReadsNamedWithoutSubstrings ==
    NoNameInAnother => (Spec => []GetReadsNamedProperty)
<1> SUFFICES ASSUME NoNameInAnother PROVE Spec => []GetReadsNamedProperty
  OBVIOUS
<1>1. Init => GetReadsNamedProperty
  BY ReadsInit
<1>2. GetReadsNamedProperty /\ [Next]_vars => GetReadsNamedProperty'
  BY ReadsStep
<1>3. QED BY <1>1, <1>2, PTL DEF Spec

-----------------------------------------------------------------------------
(***************************************************************************)
(* Type correctness.  The one fact it needs beyond the assumption on the  *)
(* constants is that found_property[0] is a line of the table whenever    *)
(* some line matches, i.e. that the least matching position exists.       *)
(***************************************************************************)

\* found_property[0] is a matching line of the table, or 0 when none
\* matches.
LEMMA FoundPropertyMatches ==
    ASSUME NEW a, NEW r \in BOOLEAN
    PROVE  \/ Matching(a, r) = {} /\ FoundProperty(a, r) = 0
           \/ FoundProperty(a, r) \in Matching(a, r)
<1>1. Matching(a, r) \subseteq Nat
  BY AdvancedPropertyAssumption DEF Matching
<1>2. CASE Matching(a, r) # {}
  BY <1>1, <1>2, LeastChosen DEF FoundProperty
<1>3. QED BY <1>2 DEF FoundProperty

\* The value a get returns for a line of the table has the type of its mode.
LEMMA FoundValueType ==
    ASSUME value \in [Keywords -> Values], NEW i \in DOMAIN Props, NEW r \in BOOLEAN
    PROVE  /\ r => FoundValue(i, r) \in Values
           /\ ~r => FoundValue(i, r) \in DisplayValues
<1>1. Props[i].kw \in Keywords
  BY DEF Keywords
<1>2. QED BY <1>1, AdvancedPropertyAssumption DEF FoundValue, StripBraces, RegistryText

LEMMA TypeInit == Init => TypeOK
BY AdvancedPropertyAssumption DEF Init, TypeOK, NoGet

LEMMA TypeStep == TypeOK /\ [Next]_vars => TypeOK'
<1> SUFFICES ASSUME TypeOK, [Next]_vars PROVE TypeOK'
  OBVIOUS
<1>1. ASSUME NEW a \in Names, NEW r \in BOOLEAN, GetAdvancedProperty(a, r)
      PROVE  TypeOK'
  <2> DEFINE i == FoundProperty(a, r)
  <2>1. CASE i = 0
    BY <1>1, <2>1 DEF GetAdvancedProperty, TypeOK
  <2>2. CASE i # 0
    <3>1. i \in DOMAIN Props
      BY <2>2, FoundPropertyMatches DEF Matching
    <3>2. got' = [ask |-> a, registry |-> r, val |-> FoundValue(i, r), ok |-> TRUE]
      BY <1>1, <2>2 DEF GetAdvancedProperty
    <3>3. QED BY <1>1, <3>1, <3>2, FoundValueType DEF GetAdvancedProperty, TypeOK
  <2>3. QED BY <2>1, <2>2
<1>2. ASSUME NEW k \in Keywords, NEW v \in Values, SetAdvancedProperty(k, v)
      PROVE  TypeOK'
  BY <1>2, AdvancedPropertyAssumption DEF SetAdvancedProperty, TypeOK
<1>3. CASE ResetAdvancedProperties
  BY <1>3, AdvancedPropertyAssumption DEF ResetAdvancedProperties, TypeOK
<1>4. CASE UNCHANGED vars
  BY <1>4 DEF vars, TypeOK
<1>5. QED BY <1>1, <1>2, <1>3, <1>4 DEF Next

\* Every get returns a registry value in registry mode and a display value
\* in display mode, whatever the table, the request and the sets before.
THEOREM TypeCorrect == Spec => []TypeOK
BY TypeInit, TypeStep, PTL DEF Spec

=============================================================================
