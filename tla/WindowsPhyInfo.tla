---------------------------- MODULE WindowsPhyInfo ----------------------------
(***************************************************************************)
(* WindowsUtils.get_phy_info in                                           *)
(* src/mfd_network_adapter/network_interface/feature/utils/windows.py:     *)
(* one "gwmi IntlLan_GetPhyInfo | Format-Table" on the host, the choice of *)
(* the line of the requested adapter and the decoding of its PHY values.   *)
(*                                                                         *)
(* Text is abstracted to words: an adapter name is a sequence of words     *)
(* separated by single spaces, and a line of the table is the instance     *)
(* name, its padding to the width of the column, one space and the PHY     *)
(* values joined with ",".  The header lines, which the code filters out,  *)
(* are not part of rows.                                                   *)
(***************************************************************************)
EXTENDS Naturals, Sequences

CONSTANTS
    Words,      \* the words adapter names are made of
    NumTags,    \* the words "#<digits>" (the "#2" Windows appends to twins)
    ForWord,    \* the word "for"
    Lower(_),   \* str.lower() on one word
    Names,      \* adapter names: sequences of words
    PhyInfos,   \* PhyInfo arrays the driver can report: sequences of Nat
    Width(_),   \* the number of characters of an adapter name
    MaxRows     \* bound on the number of adapters in the table

ASSUME PhyInfoAssumption ==
    /\ NumTags \subseteq Words /\ ForWord \in Words \ NumTags
    /\ \A w \in Words : Lower(w) \in Words
    /\ Names \subseteq Seq(Words) \ {<<>>}
    /\ PhyInfos \subseteq Seq(Nat)
    /\ \A n \in Names : Width(n) \in Nat
    /\ MaxRows \in Nat

\* One adapter of the WMI table.
Row  == [name : Names, values : PhyInfos]
Rows == UNION {[1..m -> Row] : m \in 0..MaxRows}

\* An element of raw_values: a PHY value, preceded by the text "rest" that
\* split(None, 1) left in front of it (<<>> when there is none).
RawValue == [rest : Seq(Words), value : Nat]

VARIABLES
    rows,      \* the adapters the last call's gwmi listed, in table order
    desc,      \* its adapter_interface_description (<<>> for None or "")
    result,    \* what it returned
    called     \* whether the call has been made

vars == <<rows, desc, result, called>>

-----------------------------------------------------------------------------
\* The first position of a set of positions, 0 when it is empty: where a
\* loop over the positions in order that breaks at the first hit stops.
FirstIn(I) == IF I = {} THEN 0 ELSE CHOOSE i \in I : \A j \in I : i <= j

LowerWords(s) == [i \in DOMAIN s |-> Lower(s[i])]

\* re.sub(r"\s+#\d+$", "", s): a trailing "#N" word that follows a space.
StripNumTag(s) ==
    IF Len(s) > 1 /\ s[Len(s)] \in NumTags THEN SubSeq(s, 1, Len(s) - 1) ELSE s

\* s.split(" for ")[0]: the words before the first "for" that has a word on
\* both sides.
CutForClause(s) ==
    LET i == FirstIn({j \in 2..(Len(s) - 1) : s[j] = ForWord})
    IN  IF i = 0 THEN s ELSE SubSeq(s, 1, i - 1)

\* base_name: the description cut at " for ", stripped of "#N", lowered.
BaseName(d) == LowerWords(StripNumTag(CutForClause(d)))

\* The width of the header "InstanceName".
HeaderWidth == 12

\* re.match(r"^(.*?)\s{2,}", line) finds the instance name of line j only
\* when at least two spaces follow it.  Format-Table -auto pads the name to
\* the width of its column, the longest name or the header, and adds one
\* space: a name as wide as the column is followed by one space only.  A
\* row with no PhyInfo is the bare name after line.strip().
HasInstanceName(rs, j) ==
    /\ rs[j].values # <<>>
    /\ \/ Width(rs[j].name) < HeaderWidth
       \/ \E k \in DOMAIN rs : Width(rs[j].name) < Width(rs[k].name)

\* A normalized_name that forgets .lower().
NormalizedNameCaseSensitive(r) == StripNumTag(r.name)

\* normalized_name: the instance name stripped of "#N", lowered.
NormalizedName(r) == LowerWords(StripNumTag(r.name))

\* A fallback to the last line, lines[-1], instead of the first.
MatchingLineLast(rs, d) ==
    LET i == IF d = <<>> THEN 0
             ELSE FirstIn({j \in 1..Len(rs) : HasInstanceName(rs, j)
                                              /\ NormalizedName(rs[j]) = BaseName(d)})
    IN  IF i # 0 THEN i ELSE Len(rs)

\* matching_line: the first line whose normalized name is base_name, else
\* the first line (0: no line).
MatchingLine(rs, d) ==
    LET i == IF d = <<>> THEN 0
             ELSE FirstIn({j \in 1..Len(rs) : HasInstanceName(rs, j)
                                              /\ NormalizedName(rs[j]) = BaseName(d)})
    IN  IF i # 0 THEN i ELSE IF rs # <<>> THEN 1 ELSE 0

\* A line holds a "," only when its PhyInfo has two values or more.
HasComma(r) == Len(r.values) >= 2

\* matching_line.split(None, 1)[-1].split(","): the line without its first
\* word; every further word of the instance name, and the padding, stay in
\* front of the first value.
PhyValues(r) ==
    [i \in DOMAIN r.values |->
        [rest  |-> IF i = 1 THEN Tail(r.name) ELSE <<>>,
         value |-> r.values[i]]]

\* int(phy_values[2].strip()) succeeds on a bare number only.
ParsesAsInt(e) == e.rest = <<>>

\* bool(third_value & (1 << bit)) for bits 0 and 1.
Bit(n, b) == (n \div (2 ^ b)) % 2 = 1

NoPhyData == [found |-> FALSE, autoneg |-> FALSE, raw |-> <<>>,
              third |-> 0, parseError |-> FALSE]

\* The dictionary get_phy_info returns (raw_output and third_value_binary,
\* which copy the output and format third, are left out).
PhyInfoOf(rs, d) ==
    LET k == MatchingLine(rs, d) IN
    IF k = 0 \/ ~HasComma(rs[k]) THEN NoPhyData
    ELSE
      LET vals == PhyValues(rs[k]) IN
      IF Len(vals) < 3 THEN [NoPhyData EXCEPT !.raw = vals]
      ELSE IF ~ParsesAsInt(vals[3])
           THEN [NoPhyData EXCEPT !.raw = vals, !.parseError = TRUE]
      ELSE [found      |-> TRUE,
            autoneg    |-> Bit(vals[3].value, 0) \/ Bit(vals[3].value, 1),
            raw        |-> vals,
            third      |-> vals[3].value,
            parseError |-> FALSE]

-----------------------------------------------------------------------------
Init ==
    /\ rows = <<>>
    /\ desc = <<>>
    /\ result = NoPhyData
    /\ called = FALSE

\* get_phy_info(d) against a host whose WMI table lists rs.  The method
\* keeps no state between calls, so a behaviour is one call: every
\* sequence of calls is a sequence of such behaviours.
GetPhyInfo(rs, d) ==
    /\ ~called
    /\ called' = TRUE
    /\ rows' = rs
    /\ desc' = d
    /\ result' = PhyInfoOf(rs, d)

Next == ~called /\ \E rs \in Rows, d \in Names \cup {<<>>} : GetPhyInfo(rs, d)

Spec == Init /\ [][Next]_vars

-----------------------------------------------------------------------------
(***************************************************************************)
(* Properties.                                                             *)
(***************************************************************************)

\* The adapter a description names: the rows whose instance name is the
\* description, up to case.
Requested(rs, d) == {i \in DOMAIN rs : LowerWords(rs[i].name) = LowerWords(d)}

\* get_phy_info reports the PHY data of the adapter it was asked about
\* (its docstring: "specific adapter description to match") when the
\* table lists that adapter once with at least three PHY values.
RequestedAdapterReported ==
    \A i \in Requested(rows, desc) :
        (Requested(rows, desc) = {i} /\ Len(rows[i].values) >= 3)
            => result.found /\ result.third = rows[i].values[3]

\* The same, for an adapter whose name is narrower than the InstanceName
\* column of Format-Table -auto (narrower than its header or than another
\* name), so that the padding after it is two spaces or more: the only
\* lines the loop over the lines can recognise.
NarrowRequestedAdapterReported ==
    \A i \in Requested(rows, desc) :
        /\ Requested(rows, desc) = {i}
        /\ Len(rows[i].values) >= 3
        /\ \/ Width(rows[i].name) < HeaderWidth
           \/ \E k \in DOMAIN rows : Width(rows[i].name) < Width(rows[k].name)
        => result.found /\ result.third = rows[i].values[3]

\* Whatever the table and the description, the PHY data reported is that
\* of a requested adapter or, when none matches, of the first line (the
\* code's "Fallback if no exact match, use first line"), never of another
\* adapter: the third value and the auto-negotiation bits come from it.
ReportedFromRequestedOrFirst ==
    result.found =>
        \E i \in (Requested(rows, desc) \cup {1}) \cap DOMAIN rows :
            /\ Len(rows[i].values) >= 3
            /\ result.third = rows[i].values[3]
            /\ result.autoneg = (Bit(rows[i].values[3], 0) \/ Bit(rows[i].values[3], 1))

\* raw_values are the PHY values of the line, as the unit test of
\* get_phy_info with a matching adapter asserts.
RawValuesAreThePhyInfo ==
    result.raw # <<>> =>
        \E i \in DOMAIN rows :
            result.raw = [j \in DOMAIN rows[i].values |->
                            [rest |-> <<>>, value |-> rows[i].values[j]]]
=============================================================================
