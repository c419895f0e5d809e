-------------------------- MODULE MCCoinLedgerRetries --------------------------
(***************************************************************************)
(* An instance of CoinLedgerRetries for TLC.                               *)
(***************************************************************************)
EXTENDS CoinLedgerRetries

CONSTANTS s1, s2        \* two threads that scheduler calls may run in

TwoSlots == {s1, s2}
NoManual == {}

(* One fault of each consequence: "work" and "drive" end in the same       *)
(* failed record as "deliver".                                             *)
RecoveryFaults == {"crash", "source", "driveLost", "deliver", "deliverLost", "record", "trash"}
=============================================================================
