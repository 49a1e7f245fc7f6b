------------------------ MODULE WindowsPhyInfo_proofs ------------------------
(***************************************************************************)
(* Proofs about get_phy_info.                                             *)
(*                                                                         *)
(* The call keeps no state, so what it returns is a function of the WMI   *)
(* table and the description: the inductive invariant IInv says exactly   *)
(* that, and the two properties become facts about PhyInfoOf.  They hold  *)
(* for adapter names without a " for " clause and without a trailing "#N" *)
(* (PlainNames), as on the table of the pass run: phy_for shows that the  *)
(* first is needed, and without the second "intel x710 #2" is reported    *)
(* from the line of "intel x710".                                         *)
(***************************************************************************)
EXTENDS WindowsPhyInfo, LeastElement, SequenceTheorems, TLAPS

\* No adapter name has a " for " clause or ends with a "#N" twin tag.
PlainNames ==
    \A n \in Names :
        /\ \A j \in 2..(Len(n) - 1) : n[j] # ForWord
        /\ Len(n) > 1 => n[Len(n)] \notin NumTags

\* The result is what get_phy_info computes from the table and the
\* description it was given.
IInv ==
    /\ rows \in Rows
    /\ desc \in Names \cup {<<>>}
    /\ result = PhyInfoOf(rows, desc)

-----------------------------------------------------------------------------
\* A table is a sequence of rows.
LEMMA RowsAreSeqs ==
    ASSUME NEW rs \in Rows
    PROVE  rs \in Seq(Row)
<1>1. PICK m \in 0..MaxRows : rs \in [1..m -> Row]
  BY DEF Rows
<1>2. QED BY <1>1, PhyInfoAssumption

\* FirstIn of a non-empty set of positions is one of them, and the least.
LEMMA FirstInMember ==
    ASSUME NEW I \in SUBSET Nat, I # {}
    PROVE  /\ FirstIn(I) \in I
           /\ \A j \in I : FirstIn(I) <= j
BY LeastChosen DEF FirstIn

\* For a plain name, base_name is the lowered description.
LEMMA PlainBaseName ==
    ASSUME PlainNames, NEW n \in Names
    PROVE  BaseName(n) = LowerWords(n)
<1>1. n \in Seq(Words)
  BY PhyInfoAssumption
<1>2. {j \in 2..(Len(n) - 1) : n[j] = ForWord} = {}
  BY DEF PlainNames
<1>3. CutForClause(n) = n
  BY <1>2 DEF CutForClause, FirstIn
<1>4. StripNumTag(n) = n
  BY <1>1 DEF PlainNames, StripNumTag
<1>5. QED BY <1>3, <1>4 DEF BaseName

\* For a plain name, normalized_name is the lowered instance name.
LEMMA PlainNormalizedName ==
    ASSUME PlainNames, NEW r \in Row
    PROVE  NormalizedName(r) = LowerWords(r.name)
<1>1. r.name \in Names
  BY DEF Row
<1>2. QED BY <1>1 DEF PlainNames, StripNumTag, NormalizedName

\* The lines whose normalized name is base_name (a loop over the lines
\* that breaks at the first of them).
Matches(rs, d) ==
    {j \in 1..Len(rs) : HasInstanceName(rs, j) /\ NormalizedName(rs[j]) = BaseName(d)}

\* With plain names, a line matches a description only if it names the
\* adapter the description names.
LEMMA MatchesAreRequested ==
    ASSUME PlainNames, NEW rs \in Seq(Row), NEW d \in Names
    PROVE  Matches(rs, d) = {j \in Requested(rs, d) : HasInstanceName(rs, j)}
<1>1. \A j \in 1..Len(rs) : NormalizedName(rs[j]) = LowerWords(rs[j].name)
  BY PlainNormalizedName
<1>2. BaseName(d) = LowerWords(d)
  BY PlainBaseName
<1>3. QED BY <1>1, <1>2 DEF Matches, Requested

\* matching_line is the first matching line, else the first line, else none.
LEMMA MatchingLineDef ==
    ASSUME NEW rs \in Seq(Row), NEW d
    PROVE  MatchingLine(rs, d) =
              IF d # <<>> /\ Matches(rs, d) # {} THEN FirstIn(Matches(rs, d))
              ELSE IF rs # <<>> THEN 1 ELSE 0
<1>1. CASE d # <<>> /\ Matches(rs, d) # {}
  <2>0. Matches(rs, d) \subseteq 1..Len(rs)
    BY DEF Matches
  <2>1. FirstIn(Matches(rs, d)) \in 1..Len(rs)
    BY <1>1, <2>0, FirstInMember
  <2>2. FirstIn(Matches(rs, d)) # 0
    BY <2>1
  <2>3. QED BY <1>1, <2>2 DEF MatchingLine, Matches
<1>2. CASE ~(d # <<>> /\ Matches(rs, d) # {})
  BY <1>2 DEF MatchingLine, Matches, FirstIn
<1>3. QED BY <1>1, <1>2

\* With plain names, matching_line is a line of the table that names the
\* requested adapter, or the first line, or none for an empty table.
LEMMA MatchingLineRequestedOrFirst ==
    ASSUME PlainNames, NEW rs \in Seq(Row), NEW d \in Names \cup {<<>>}
    PROVE  \/ MatchingLine(rs, d) = 0 /\ rs = <<>>
           \/ MatchingLine(rs, d) \in (Requested(rs, d) \cup {1}) \cap DOMAIN rs
<1>1. CASE d # <<>> /\ Matches(rs, d) # {}
  <2>0. Matches(rs, d) \subseteq Nat
    BY DEF Matches
  <2>1. FirstIn(Matches(rs, d)) \in Matches(rs, d)
    BY <1>1, <2>0, FirstInMember
  <2>2. Matches(rs, d) \subseteq Requested(rs, d) \cap DOMAIN rs
    BY <1>1, MatchesAreRequested DEF Requested
  <2>3. QED BY <1>1, <2>1, <2>2, MatchingLineDef
<1>2. CASE ~(d # <<>> /\ Matches(rs, d) # {})
  BY <1>2, MatchingLineDef
<1>3. QED BY <1>1, <1>2

\* A name is never empty, and lowering keeps its length.
LEMMA LowerWordsNonEmpty ==
    ASSUME NEW n \in Names
    PROVE  LowerWords(n) # <<>>
<1>1. n \in Seq(Words) /\ n # <<>>
  BY PhyInfoAssumption
<1>2. 1 \in DOMAIN LowerWords(n)
  BY <1>1 DEF LowerWords
<1>3. QED BY <1>2

\* With plain names, when the table lists the requested adapter once and
\* the code finds the instance name on its line, matching_line is that
\* adapter's line.
LEMMA MatchingLineRequested ==
    ASSUME PlainNames, NEW rs \in Seq(Row), NEW d \in Names \cup {<<>>},
           NEW i \in Requested(rs, d), Requested(rs, d) = {i},
           HasInstanceName(rs, i)
    PROVE  MatchingLine(rs, d) = i
<1>1. d # <<>>
  <2>0. i \in DOMAIN rs /\ LowerWords(rs[i].name) = LowerWords(d)
    BY DEF Requested
  <2>a. rs[i] \in Row
    BY <2>0
  <2>1. rs[i].name \in Names /\ LowerWords(rs[i].name) = LowerWords(d)
    BY <2>0, <2>a DEF Row
  <2>2. LowerWords(<<>>) = <<>>
    BY DEF LowerWords
  <2>3. QED BY <2>1, <2>2, LowerWordsNonEmpty
<1>2. Matches(rs, d) = {i}
  BY <1>1, MatchesAreRequested
<1>3. FirstIn({i}) = i
  <2>1. i \in Nat
    BY DEF Requested
  <2>2. QED BY <2>1, FirstInMember
<1>4. MatchingLine(rs, d) = FirstIn(Matches(rs, d))
  <2>1. d # <<>> /\ Matches(rs, d) # {}
    BY <1>1, <1>2
  <2>2. QED BY <2>1, MatchingLineDef
<1>5. QED BY <1>2, <1>3, <1>4


\* The raw values of a line are one per PHY value, and only the first
\* carries the rest of the instance name.
LEMMA PhyValuesOfRow ==
    ASSUME NEW r \in Row
    PROVE  /\ Len(PhyValues(r)) = Len(r.values)
           /\ \A i \in 2..Len(r.values) : PhyValues(r)[i] = [rest |-> <<>>, value |-> r.values[i]]
<1>1. r.values \in Seq(Nat)
  BY PhyInfoAssumption DEF Row
<1> DEFINE T == {PhyValues(r)[i] : i \in DOMAIN r.values}
<1>2. PhyValues(r) \in [1..Len(r.values) -> T]
  <2>1. DOMAIN r.values = 1..Len(r.values)
    BY <1>1
  <2>2. PhyValues(r) = [i \in 1..Len(r.values) |-> PhyValues(r)[i]]
    BY <2>1, Zenon DEF PhyValues
  <2>3. QED BY <2>1, <2>2, Zenon
<1>3. PhyValues(r) \in Seq(T)
  BY <1>1, <1>2, SeqDef
<1>4. Len(PhyValues(r)) = Len(r.values)
  BY <1>1, <1>2, <1>3, LenProperties
<1>5. QED BY <1>1, <1>4 DEF PhyValues

\* What get_phy_info reports from its matching line k: the PHY data of k,
\* exactly when k has a third value.
LEMMA PhyInfoOfLine ==
    ASSUME NEW rs \in Seq(Row), NEW d, NEW k \in DOMAIN rs, MatchingLine(rs, d) = k
    PROVE  LET v == rs[k].values IN
           /\ Len(v) >= 3 => PhyInfoOf(rs, d).found /\ PhyInfoOf(rs, d).third = v[3]
           /\ PhyInfoOf(rs, d).found =>
                 /\ Len(v) >= 3
                 /\ PhyInfoOf(rs, d).third = v[3]
                 /\ PhyInfoOf(rs, d).autoneg = (Bit(v[3], 0) \/ Bit(v[3], 1))
<1> DEFINE v == rs[k].values
           vals == PhyValues(rs[k])
<1>1. rs[k] \in Row
  OBVIOUS
<1>2. Len(vals) = Len(v) /\ (Len(v) >= 3 => vals[3] = [rest |-> <<>>, value |-> v[3]])
  BY <1>1, PhyValuesOfRow
<1>3. v \in Seq(Nat)
  BY <1>1, PhyInfoAssumption DEF Row
<1>4. CASE Len(v) >= 3
  BY <1>2, <1>3, <1>4 DEF PhyInfoOf, HasComma, ParsesAsInt
<1>5. CASE Len(v) < 3
  BY <1>2, <1>3, <1>5 DEF PhyInfoOf, NoPhyData
<1>6. QED BY <1>3, <1>4, <1>5

\* With no line at all, get_phy_info reports no PHY data.
LEMMA PhyInfoOfNoLine ==
    ASSUME NEW rs, NEW d, MatchingLine(rs, d) = 0
    PROVE  ~PhyInfoOf(rs, d).found
BY DEF PhyInfoOf, NoPhyData


-----------------------------------------------------------------------------
LEMMA IInvInit == Init => IInv
<1> SUFFICES ASSUME Init PROVE IInv
  OBVIOUS
<1>1. <<>> \in Rows
  <2>1. <<>> \in [1..0 -> Row] /\ 0 \in 0..MaxRows
    BY PhyInfoAssumption
  <2>2. QED BY <2>1 DEF Rows
<1>2. MatchingLine(<<>>, <<>>) = 0
  BY DEF MatchingLine
<1>3. QED BY <1>1, <1>2 DEF Init, IInv, PhyInfoOf

LEMMA IInvStep == IInv /\ [Next]_vars => IInv'
<1> SUFFICES ASSUME IInv, [Next]_vars PROVE IInv'
  OBVIOUS
<1>1. ASSUME NEW rs \in Rows, NEW d \in Names \cup {<<>>}, GetPhyInfo(rs, d)
      PROVE  IInv'
  BY <1>1 DEF GetPhyInfo, IInv
<1>2. CASE UNCHANGED vars
  BY <1>2 DEF vars, IInv
<1>3. QED BY <1>1, <1>2 DEF Next

LEMMA IInvInvariant == Spec => []IInv
BY IInvInit, IInvStep, PTL DEF Spec

-----------------------------------------------------------------------------
LEMMA RequestedFromIInv ==
    ASSUME PlainNames, IInv
    PROVE  NarrowRequestedAdapterReported
<1> SUFFICES ASSUME NEW i \in Requested(rows, desc),
                    Requested(rows, desc) = {i}, Len(rows[i].values) >= 3,
                    \/ Width(rows[i].name) < HeaderWidth
                    \/ \E k \in DOMAIN rows : Width(rows[i].name) < Width(rows[k].name)
             PROVE  result.found /\ result.third = rows[i].values[3]
  BY DEF NarrowRequestedAdapterReported
<1>1. rows \in Seq(Row) /\ desc \in Names \cup {<<>>}
  BY RowsAreSeqs DEF IInv
<1>2. i \in DOMAIN rows
  BY DEF Requested
<1>3. HasInstanceName(rows, i)
  BY <1>2 DEF HasInstanceName
<1>4. MatchingLine(rows, desc) = i
  BY <1>1, <1>3, MatchingLineRequested
<1>5. QED BY <1>1, <1>2, <1>4, PhyInfoOfLine DEF IInv

LEMMA FirstFromIInv ==
    ASSUME PlainNames, IInv
    PROVE  ReportedFromRequestedOrFirst
<1> SUFFICES ASSUME result.found
             PROVE  \E i \in (Requested(rows, desc) \cup {1}) \cap DOMAIN rows :
                        /\ Len(rows[i].values) >= 3
                        /\ result.third = rows[i].values[3]
                        /\ result.autoneg = (Bit(rows[i].values[3], 0) \/ Bit(rows[i].values[3], 1))
  BY DEF ReportedFromRequestedOrFirst
<1>1. rows \in Seq(Row) /\ desc \in Names \cup {<<>>}
  BY RowsAreSeqs DEF IInv
<1>2. MatchingLine(rows, desc) # 0
  BY <1>1, PhyInfoOfNoLine DEF IInv
<1> DEFINE k == MatchingLine(rows, desc)
<1>3. k \in (Requested(rows, desc) \cup {1}) \cap DOMAIN rows
  BY <1>1, <1>2, MatchingLineRequestedOrFirst
<1>4. /\ Len(rows[k].values) >= 3
      /\ result.third = rows[k].values[3]
      /\ result.autoneg = (Bit(rows[k].values[3], 0) \/ Bit(rows[k].values[3], 1))
  BY <1>1, <1>3, PhyInfoOfLine DEF IInv
<1>5. QED BY <1>3, <1>4

\* get_phy_info reports the PHY data of the adapter its description names,
\* when the table lists that adapter once with three PHY values and its
\* name is narrower than the InstanceName column of Format-Table -auto, for
\* every table and description whose adapter names have no " for " clause
\* and no "#N" tag.
THEOREM NarrowRequestedReportedPlainNames ==
    PlainNames => (Spec => []NarrowRequestedAdapterReported)
<1> SUFFICES ASSUME PlainNames PROVE Spec => []NarrowRequestedAdapterReported
  OBVIOUS
<1>1. IInv => NarrowRequestedAdapterReported
  BY RequestedFromIInv
<1>2. QED BY <1>1, IInvInvariant, PTL

\* Under the same names, the PHY data get_phy_info reports is that of the
\* requested adapter or of the first line, never of another adapter.
THEOREM ReportedFromRequestedOrFirstPlainNames ==
    PlainNames => (Spec => []ReportedFromRequestedOrFirst)
<1> SUFFICES ASSUME PlainNames PROVE Spec => []ReportedFromRequestedOrFirst
  OBVIOUS
<1>1. IInv => ReportedFromRequestedOrFirst
  BY FirstFromIInv
<1>2. QED BY <1>1, IInvInvariant, PTL

=============================================================================
