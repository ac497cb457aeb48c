----------------------------- MODULE MCCompose -----------------------------
(***************************************************************************)
(* A small instance of ComposeFile for TLC: two sources of the one field   *)
(* that a gate reads, each with its licence; the second detector is not in *)
(* the map of the viewer; no version of the rule is effective at time 2.   *)
(***************************************************************************)
EXTENDS ComposeFile

MCSources == {"city", "county"}
MCRank == [s \in MCSources |-> IF s = "city" THEN 1 ELSE 2]
MCLicence == [s \in MCSources |-> IF s = "city" THEN "cc0" ELSE "cc_by"]
MCFields == {"incorporated"}
MCChannels == {"api"}
MCDetectors == {"mapped", "unmapped"}
MCDetectorSource == [d \in {"mapped"} |-> "county"]
MCRuleFrom == [v \in 1..2 |-> IF v = 1 THEN 1 ELSE 3]
MCRuleTo == [v \in 1..2 |-> IF v = 1 THEN 2 ELSE 0]
=============================================================================
