---------------------- MODULE MC_WindowsAdvancedProperty ----------------------
EXTENDS WindowsAdvancedProperty

\* Three properties of an Intel adapter, none of whose names contains
\* another.
MC_Props ==
    << [kw |-> "*JumboPacket", disp |-> "Jumbo Packet"],
       [kw |-> "*SpeedDuplex", disp |-> "Speed & Duplex"],
       [kw |-> "*RSS", disp |-> "Receive Side Scaling"] >>

\* The RSS profile is listed before RSS, and "*rss" is in "*rssprofile".
MC_PropsProfile ==
    << [kw |-> "*RSSProfile", disp |-> "RSS load balancing profile"],
       [kw |-> "*RSS", disp |-> "Receive Side Scaling"] >>

MC_Values == {"0", "1", "2"}
MC_DisplayValues == {"Disabled", "Enabled", "Unknown"}
\* "2" is outside ValidRegistryValues, so Set- refuses it.
MC_Valid(k) == {"0", "1"}
MC_Default(k) == "0"
MC_Display(k, v) == CASE v = "0" -> "Disabled" [] v = "1" -> "Enabled"
                         [] OTHER -> "Unknown"
MC_Braced == {"*RSS"}

\* a.lower() in b.lower() on these names.
MC_InName(a, b) == a = b \/ (a = "*RSS" /\ b = "*RSSProfile")
=============================================================================
