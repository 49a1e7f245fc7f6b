-------------------------- MODULE MC_WindowsPhyInfo --------------------------
EXTENDS WindowsPhyInfo

MC_Words   == {"Intel", "intel", "ethernet", "x710", "e810", "for", "io", "#2"}
MC_NumTags == {"#2"}
MC_Lower(w) == IF w = "Intel" THEN "intel" ELSE w

\* The characters of a name: its words and one space between two of them.
MC_Chars(n) ==
    LET W[i \in 0..Len(n)] == IF i = 0 THEN 0 ELSE W[i - 1] + Len(n[i])
    IN  W[Len(n)] + Len(n) - 1

\* Names as Get-NetAdapter and WMI spell them: the same adapter in two
\* cases, another model, a one-word name and a name wider than the header.
MC_Names == {<<"Intel", "x710">>, <<"intel", "x710">>, <<"intel", "e810">>,
             <<"e810">>, <<"intel", "ethernet", "x710">>}
\* An adapter whose name carries a " for " clause; both names are narrower
\* than the header, so that no line loses its instance name to the padding.
MC_NamesFor == {<<"x710", "for", "io">>, <<"intel", "e810">>}
\* A name wider than the header and a narrower one.
MC_NamesPad == {<<"intel", "ethernet", "x710">>, <<"intel", "e810">>}

MC_WidthOf == [n \in MC_Names \cup MC_NamesFor \cup MC_NamesPad |-> MC_Chars(n)]
MC_Width(n) == MC_WidthOf[n]

\* No values, too few for a third one, and three or four values whose third
\* sets bit 0 and 1, bit 1 only, or neither.
MC_PhyInfos == {<<>>, <<1, 2>>, <<4, 5, 3>>, <<0, 1, 2, 7>>, <<6, 6, 0>>}
=============================================================================
