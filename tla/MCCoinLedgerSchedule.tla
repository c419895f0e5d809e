------------------------ MODULE MCCoinLedgerSchedule ------------------------
(***************************************************************************)
(* Instances of CoinLedgerSchedule for TLC.                                *)
(***************************************************************************)
EXTENDS CoinLedgerSchedule, TLC

CONSTANTS s1, s2, m1    \* two overlapping scheduler requests, one manual request

OneSlot == {s1}
TwoSlots == {s1, s2}
OneManual == {m1}
NoManual == {}

SlotSymmetry == Permutations({s1, s2})

(* One fault of each consequence: "work" and "deliver" end in a failed     *)
(* record like "drive", and "trash" needs another fault before it.  The    *)
(* other runs have these three.                                            *)
DistinctFaults == AllFaultKinds \ {"work", "deliver", "trash"}

(* Failures that are reported: the source stays complete once it is, no    *)
(* crash, no lost Drive answer, and the cleanup calls succeed.             *)
ReportedFaults == {"work", "drive", "deliver", "deliverLost", "record"}

LostAnswer == {"driveLost"}
NoFaults == {}
=============================================================================
