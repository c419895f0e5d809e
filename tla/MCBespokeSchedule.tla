--------------------------- MODULE MCBespokeSchedule ---------------------------
(***************************************************************************)
(* Instances of BespokeSchedule for TLC.                                   *)
(***************************************************************************)
EXTENDS BespokeSchedule

CONSTANTS s1, s2, m1, y1, y2

TwoSlots == {s1, s2}
OneManual == {m1}
NoGenerator == {}
OneSync == {y1}
TwoSyncs == {y1, y2}

(* A refused upload ("drive") ends in the same failed record as "work".    *)
DistinctFaults == AllFaultKinds \ {"drive"}
NoFaults == {}
=============================================================================
