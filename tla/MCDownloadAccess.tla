--------------------------- MODULE MCDownloadAccess ---------------------------
(***************************************************************************)
(* The instance of DownloadAccess for TLC.  The scopes divide the state    *)
(* space by the question asked: administrators alone; PIN requests alone;  *)
(* a session beside reruns and a disable, of either kind of delivery.      *)
(***************************************************************************)
EXTENDS DownloadAccess, TLC

MCScopes == {
    [kind |-> "single", admin |-> 4, pins |-> 0, ticks |-> 1, faults |-> 0],
    [kind |-> "single", admin |-> 3, pins |-> 0, ticks |-> 1, faults |-> 1],
    [kind |-> "single", admin |-> 0, pins |-> 2, ticks |-> 1, faults |-> 1],
    [kind |-> "single", admin |-> 0, pins |-> 3, ticks |-> 2, faults |-> 0],
    [kind |-> "single", admin |-> 2, pins |-> 1, ticks |-> 0, faults |-> 0],
    [kind |-> "multi",  admin |-> 2, pins |-> 1, ticks |-> 0, faults |-> 0],
    [kind |-> "multi",  admin |-> 1, pins |-> 1, ticks |-> 0, faults |-> 2]}

MCChecks == <<"ip_1m", "email_10m">>
MCLimit == [c \in {"ip_1m", "email_10m"} |-> IF c = "email_10m" THEN 2 ELSE 1]
MCLongChecks == {"email_10m"}

Symmetry == Permutations(Admin) \cup Permutations(Tabs)
            \cup Permutations(FileKeys)
=============================================================================
