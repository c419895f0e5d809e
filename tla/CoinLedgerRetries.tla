--------------------------- MODULE CoinLedgerRetries ---------------------------
(***************************************************************************)
(* CoinLedgerSchedule under its Cloud Scheduler job: one call on the first *)
(* of the month and, after an answer that is not a 2xx or none in time,    *)
(* five retries with growing waits (report_schedules.py,                   *)
(* COIN_LEDGER_RETRY).  When they are used up nothing calls again: the job *)
(* of the next month is for another month.                                 *)
(*                                                                         *)
(* CoinLedgerSchedule lets its slots call at any time, so every behaviour  *)
(* here is one of its behaviours.                                          *)
(***************************************************************************)
EXTENDS CoinLedgerSchedule

CONSTANTS
    MaxCalls,       \* calls of the job: the first and max_retry_attempts more
    LongWaitFrom    \* the first call after a wait longer than stale_running_after

ASSUME CallCount == MaxCalls \in Nat /\ LongWaitFrom \in Nat

VARIABLES
    calls,      \* calls made so far
    open,       \* the slot whose answer the job waits for, or NoCall
    answered,   \* whether a call was answered with a 2xx in time
    written     \* history: the run record was written since the last call ended

jobVars == <<calls, open, answered, written>>
allVars == <<vars, jobVars>>

NoCall == "no call"

JobInit ==
    /\ Init
    /\ calls = 0
    /\ open = NoCall
    /\ answered = FALSE
    /\ written = FALSE

-----------------------------------------------------------------------------
(* The job.  The waits before calls 2 to 6 are 10, 20, 40, 60 and 60       *)
(* minutes.  A record that says running and was last written before a wait *)
(* of 40 minutes or more is stale (30 minutes) at the end of the wait.     *)

Waited ==
    calls + 1 >= LongWaitFrom /\ run.status = "running" => run.stale \/ written

NextCall ==
    /\ open = NoCall /\ ~answered
    /\ calls < MaxCalls
    /\ Waited
    /\ \E h \in Sched : Peek(h) /\ open' = h
    /\ calls' = calls + 1
    /\ UNCHANGED <<answered, written>>

GetAnswer ==
    /\ open # NoCall
    /\ pc[open] = "idle"
    /\ answered' = (resp[open] = "done")
    /\ open' = NoCall
    /\ written' = FALSE
    /\ UNCHANGED <<vars, calls>>

(***************************************************************************)
(* The attempt deadline passes, or the request times out on its way: the   *)
(* job counts a failure while the handler runs on.  It is a fault.         *)
(***************************************************************************)
Deadline ==
    /\ open # NoCall
    /\ pc[open] # "idle"
    /\ faults < MaxFaults /\ faults' = faults + 1
    /\ open' = NoCall
    /\ written' = FALSE
    /\ UNCHANGED <<run, source, storeVars, delivery, handlerVars, calls, answered>>

-----------------------------------------------------------------------------
(* The handlers and their environment, beside the job *)

WritesRun(h) == MarkDelivered(h) \/ MarkNotReady(h) \/ WriteClaim(h) \/ Record(h)

Beside(A) ==
    /\ A
    /\ written' = (written \/ \E h \in Sched : WritesRun(h))
    /\ UNCHANGED <<calls, open, answered>>

Handling ==
    \E h \in Handlers : Beside(StartManual(h) \/ Step(h) \/ Crash(h))

JobNext == NextCall \/ GetAnswer \/ Deadline \/ Handling \/ Beside(Environment)

(***************************************************************************)
(* A thread that runs keeps running; the job gets its answers and makes    *)
(* the calls it has left; time passes.  Nothing is assumed of the source   *)
(* tables, of the administrators or of faults.                             *)
(***************************************************************************)
JobSpec ==
    /\ JobInit /\ [][JobNext]_allVars
    /\ \A h \in Handlers : WF_allVars(Beside(Step(h)))
    /\ WF_allVars(NextCall)
    /\ WF_allVars(GetAnswer)
    /\ WF_allVars(Beside(BecomeStale))

-----------------------------------------------------------------------------
(* Properties *)

(***************************************************************************)
(* The retries suffice: if the source is complete for good while the job   *)
(* has more calls left than faults can spoil, the month is delivered,      *)
(* whatever was tried before.  A crash, a lost record, a failed attempt or *)
(* a call that was cut off and still runs costs no more than its own call. *)
(***************************************************************************)
InTime == source /\ calls + MaxFaults < MaxCalls

RetriesSuffice == <>(InTime /\ []source) => <>HasScheduledVersion
=============================================================================
