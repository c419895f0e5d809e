--------------------------- MODULE MCScheduleExecutor ---------------------------
(***************************************************************************)
(* The instance of ScheduleExecutor for TLC.  The scopes divide the state  *)
(* space by the question asked: operators alone, on a new definition and   *)
(* on a complete one; calls alone, with faults; calls beside operators.    *)
(***************************************************************************)
EXTENDS ScheduleExecutor, TLC

MCDocuments == <<"r1", "r2">>

MCScopes == {
    [ready |-> {},           edits |-> 3, calls |-> 0, faults |-> 1],
    [ready |-> {"r1"},       edits |-> 3, calls |-> 0, faults |-> 1],
    [ready |-> {"r1"},       edits |-> 4, calls |-> 0, faults |-> 0],
    [ready |-> {"r1", "r2"}, edits |-> 0, calls |-> 2, faults |-> 1],
    [ready |-> {"r1"},       edits |-> 0, calls |-> 3, faults |-> 1],
    [ready |-> {"r1"},       edits |-> 2, calls |-> 1, faults |-> 1],
    [ready |-> {"r1"},       edits |-> 1, calls |-> 2, faults |-> 1]}

Symmetry == Permutations(Operator) \cup Permutations(Caller) \cup Permutations(Templates)
=============================================================================
