------------------------------ MODULE ServiceTools ------------------------------
(***************************************************************************)
(* Three parts of the system that stand beside the deliveries: the page of *)
(* the schedules, the retention review and the workbook writer.  They      *)
(* share no state, so a behaviour is of one of them and the others rest.   *)
(***************************************************************************)
EXTENDS LiveSchedules, Retention, ReportWorkbook

VARIABLE part   \* the part this behaviour is of

svars == <<part, lvars, retvars, wvars>>

Init ==
    /\ part \in {"schedules", "retention", "workbook"}
    /\ LiveInit
    /\ RetentionInit
    /\ WorkbookInit

Next ==
    \/ part = "schedules" /\ LiveNext /\ UNCHANGED <<part, retvars, wvars>>
    \/ part = "retention" /\ RetentionNext /\ UNCHANGED <<part, lvars, wvars>>
    \/ part = "workbook" /\ WorkbookNext /\ UNCHANGED <<part, lvars, retvars>>

Spec == Init /\ [][Next]_svars

TypeOK == LiveTypeOK /\ RetentionTypeOK /\ WorkbookTypeOK
=============================================================================
