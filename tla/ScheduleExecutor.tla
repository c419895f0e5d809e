---------------------------- MODULE ScheduleExecutor ----------------------------
(***************************************************************************)
(* run_report_definition_schedule_runs (distribution.py) with its executor *)
(* (app.py): a call of the scheduler or of an operator goes through the    *)
(* due definitions, records a run of each under an idempotency key, and    *)
(* generates and delivers its report.  Operators change the definitions    *)
(* meanwhile (ReportDefinitions).                                          *)
(*                                                                         *)
(* A call is cut at its calls to Firestore and Cloud Storage and where it  *)
(* saves the workbook: the server's threads share one directory, and a     *)
(* workbook is named by the date alone.                                    *)
(***************************************************************************)
EXTENDS ReportDefinitions

CONSTANTS
    Caller,     \* request slots of the executor
    Keys,       \* idempotency keys
    Months      \* months in which a call may be evaluated

ASSUME SomeCall == Keys # {} /\ Months # {}

VARIABLES
    runs,       \* scheduled_report_runs: per run record, its result_code
    workbook,   \* per date, what the saved file of that date is
    file,       \* per object, what it is
    deliveries, \* the delivery records made by scheduled runs
    contested,  \* the run records that two calls found absent before either set them
    mixed,      \* the dates on which one workbook was saved over another not yet stored
    generated,  \* every object and report stored in it
    calls,      \* calls begun so far
    call        \* per slot of Caller, where its call is and its locals

results == <<runs, workbook, file, deliveries, contested, mixed, generated>>
vars == <<rvars, results, calls, call>>

Date == Months \X Days

(***************************************************************************)
(* A record's id hashes all of these; the step is not among them.          *)
(***************************************************************************)
RunId == [report : Report, date : Date, time : Times, key : Keys]

Steps == {"validate", "generate", "deliver"}

ResultCodes == {"absent", "execute_guard_validated",
                "generation_started", "generation_failed", "generation_succeeded",
                "delivery_started", "delivery_failed", "delivery_succeeded"}

(***************************************************************************)
(* A file is told by the report and the template it was made from; nothing *)
(* was saved or stored yet where it is NoFile.                             *)
(***************************************************************************)
File == [report : Report, template : Content]
NoFile == [report |-> Documents[1], template |-> NoTemplate]

(***************************************************************************)
(* Objects are named by the definition's prefix, the month and the date.   *)
(***************************************************************************)
Object == Prefixes \X Date

DeliveryRecord == [run : RunId, object : Object]

CallPlaces == {"idle", "loop", "set", "resolve", "download", "save", "store",
               "deliver", "succeed", "failed"}

(***************************************************************************)
(* A definition the query streamed, with its id.                           *)
(***************************************************************************)
Item == [report : Report, prefix : Prefixes, time : Times]

(***************************************************************************)
(* The locals of a call: step, key and date, the items still to be run,    *)
(* and, of the one being run, the number in its template's path and the    *)
(* downloaded template.                                                    *)
(***************************************************************************)
Call == [at : CallPlaces, step : Steps, key : Keys, date : Date, todo : Seq(Item),
         path : Nat, template : Content]

NoCall == [at |-> "idle", step |-> "validate", key |-> CHOOSE k \in Keys : TRUE,
           date |-> CHOOSE d \in Date : TRUE, todo |-> <<>>, path |-> 0,
           template |-> NoTemplate]

Init ==
    /\ RInit
    /\ runs = [id \in RunId |-> "absent"]
    /\ workbook = [d \in Date |-> NoFile]
    /\ file = [o \in Object |-> NoFile]
    /\ deliveries = <<>>
    /\ contested = {}
    /\ mixed = {}
    /\ generated = {}
    /\ calls = 0
    /\ call = [e \in Caller |-> NoCall]

-----------------------------------------------------------------------------
(* Which definitions a call runs *)

(***************************************************************************)
(* _report_definition_schedule_preview_item: an archived definition is     *)
(* left out before.                                                        *)
(***************************************************************************)
Due(d, day, time) ==
    d.schedule.enabled /\ d.schedule.day = day /\ d.schedule.time <= time

(***************************************************************************)
(* _schedule_run_eligibility; the storage was validated when it was given. *)
(***************************************************************************)
Complete(d) ==
    HasCurrent(d) /\ Current(d).template # NoTemplate /\ Current(d).mapped

Eligible(d, day, time) ==
    d.exists /\ ~d.archived /\ Due(d, day, time) /\ Complete(d)

(***************************************************************************)
(* domains: the request names recipients of its own.                       *)
(***************************************************************************)
Runs(r, step, day, time, domains) ==
    /\ Eligible(definition[r], day, time)
    /\ step = "deliver" => domains \/ definition[r].allowlisted

ItemOf(r) == [report |-> r, prefix |-> definition[r].prefix, time |-> definition[r].schedule.time]

-----------------------------------------------------------------------------
(* The loop over the items *)

Goto(e, place) == call' = [call EXCEPT ![e].at = place]

Return(e) == call' = [call EXCEPT ![e] = NoCall]

NextItem(e) ==
    call' = [call EXCEPT ![e].at = "loop", ![e].todo = Tail(@), ![e].path = 0,
                         ![e].template = NoTemplate]

Id(c) == [report |-> Head(c.todo).report, date |-> c.date, time |-> Head(c.todo).time, key |-> c.key]

NoFault == UNCHANGED <<faults, calls>>

(***************************************************************************)
(* The positions in Documents of some reports, in the query's order.       *)
(***************************************************************************)
InOrder(positions) == \A i, j \in DOMAIN positions : i < j => positions[i] < positions[j]

Streams == {positions \in UNION {[1..n -> DOMAIN Documents] : n \in DOMAIN Documents} :
               InOrder(positions)}

(***************************************************************************)
(* The query streams all definitions as they are now; those that are not   *)
(* asked for, not due or not eligible are skipped, which changes nothing.  *)
(***************************************************************************)
StartCall(e) ==
    /\ call[e].at = "idle"
    /\ calls < scope.calls
    /\ calls' = calls + 1
    /\ \E step \in Steps, key \in Keys, d \in Date, time \in Times, domains \in BOOLEAN,
          asked \in SUBSET Report, chosen \in Streams :
          /\ {chosen[i] : i \in DOMAIN chosen} =
                {k \in DOMAIN Documents :
                    Documents[k] \in asked /\ Runs(Documents[k], step, d[2], time, domains)}
          /\ call' = [call EXCEPT ![e] = [NoCall EXCEPT
                !.at = "loop", !.step = step, !.key = key, !.date = d,
                !.todo = [i \in DOMAIN chosen |-> ItemOf(Documents[chosen[i]])]]]
    /\ UNCHANGED <<faults, results>>

EndCall(e) ==
    /\ call[e].at = "loop"
    /\ call[e].todo = <<>>
    /\ Return(e)
    /\ NoFault /\ UNCHANGED results

Recorded_NotFailed(id) == runs[id] \notin {"absent", "generation_failed", "delivery_failed"}

Recorded(id) == runs[id] # "absent"

Look(e) ==
    LET c == call[e]
    IN  /\ c.at = "loop"
        /\ c.todo # <<>>
        /\ IF Recorded(Id(c)) THEN NextItem(e) ELSE Goto(e, "set")
        /\ contested' = contested \cup {id \in {Id(c)} : ~Recorded(id) /\ \E f \in Caller \ {e} :
                                            call[f].at = "set" /\ Id(call[f]) = id}
        /\ NoFault /\ UNCHANGED <<runs, workbook, file, deliveries, mixed, generated>>

StartedCode_Status(step) == IF step = "validate" THEN "validated" ELSE "running"

StartedCode(step) ==
    CASE step = "validate" -> "execute_guard_validated"
      [] step = "generate" -> "generation_started"
      [] step = "deliver"  -> "delivery_started"

SetRecord(e) ==
    LET c == call[e]
    IN  /\ c.at = "set"
        /\ runs' = [runs EXCEPT ![Id(c)] = StartedCode(c.step)]
        /\ IF c.step = "validate" THEN NextItem(e) ELSE Goto(e, "resolve")
        /\ NoFault /\ UNCHANGED <<workbook, file, deliveries, contested, mixed, generated>>

-----------------------------------------------------------------------------
(* The executor: _generate_scheduled_report_for_schedule and the delivery *)

(***************************************************************************)
(* get_report_definition_runtime_template reads the definition again.      *)
(***************************************************************************)
Resolve(e) ==
    LET d == definition[Head(call[e].todo).report]
    IN  /\ call[e].at = "resolve"
        /\ IF d.archived \/ ~HasCurrent(d) \/ Current(d).template = NoTemplate
           THEN Goto(e, "failed")
           ELSE call' = [call EXCEPT ![e].at = "download", ![e].path = Current(d).path]
        /\ NoFault /\ UNCHANGED results

Download(e) ==
    LET c == call[e]
    IN  /\ c.at = "download"
        /\ call' = [call EXCEPT ![e].at = "save",
                                ![e].template = object[Head(c.todo).report][c.path]]
        /\ NoFault /\ UNCHANGED results

(***************************************************************************)
(* generate_report: create_workbook saves, upload_to_gcs stores.           *)
(***************************************************************************)
SaveWorkbook(e) ==
    LET c == call[e]
    IN  /\ c.at = "save"
        /\ workbook' = [workbook EXCEPT ![c.date] =
                           [report |-> Head(c.todo).report, template |-> c.template]]
        /\ mixed' = mixed \cup {d \in {c.date} : \E f \in Caller \ {e} :
                                    call[f].at = "store" /\ call[f].date = d}
        /\ Goto(e, "store")
        /\ NoFault /\ UNCHANGED <<runs, file, deliveries, contested, generated>>

ObjectOf_OnePrefix(c) == <<CHOOSE p \in Prefixes : TRUE, c.date>>

ObjectOf(c) == <<Head(c.todo).prefix, c.date>>

StoreFile(e) ==
    LET c == call[e]
    IN  /\ c.at = "store"
        /\ file' = [file EXCEPT ![ObjectOf(c)] = workbook[c.date]]
        /\ generated' = generated \cup {<<Head(c.todo).prefix, c.date, Head(c.todo).report>>}
        /\ Goto(e, IF c.step = "deliver" THEN "deliver" ELSE "succeed")
        /\ NoFault /\ UNCHANGED <<runs, workbook, deliveries, contested, mixed>>

(***************************************************************************)
(* create_scheduled_delivery_record                                        *)
(***************************************************************************)
Deliver(e) ==
    LET c == call[e]
    IN  /\ c.at = "deliver"
        /\ deliveries' = Append(deliveries, [run |-> Id(c), object |-> <<Head(c.todo).prefix, c.date>>])
        /\ Goto(e, "succeed")
        /\ NoFault /\ UNCHANGED <<runs, workbook, file, contested, mixed, generated>>

EndCode(step, good) ==
    IF step = "generate" THEN IF good THEN "generation_succeeded" ELSE "generation_failed"
                         ELSE IF good THEN "delivery_succeeded" ELSE "delivery_failed"

Succeed(e) ==
    LET c == call[e]
    IN  /\ c.at = "succeed"
        /\ runs' = [runs EXCEPT ![Id(c)] = EndCode(c.step, TRUE)]
        /\ NextItem(e)
        /\ NoFault /\ UNCHANGED <<workbook, file, deliveries, contested, mixed, generated>>

(***************************************************************************)
(* The record of a run that failed is updated, and the exception ends the  *)
(* call: the items after it are left to a later one.                       *)
(***************************************************************************)
RecordFailure(e) ==
    LET c == call[e]
    IN  /\ c.at = "failed"
        /\ runs' = [runs EXCEPT ![Id(c)] = EndCode(c.step, FALSE)]
        /\ Return(e)
        /\ NoFault /\ UNCHANGED <<workbook, file, deliveries, contested, mixed, generated>>

(***************************************************************************)
(* A call of the executor's raises, perhaps when a delivery was made.      *)
(***************************************************************************)
ItemFails(e) ==
    /\ call[e].at \in {"resolve", "download", "save", "store", "deliver", "succeed"}
    /\ call[e].at = "succeed" => call[e].step = "deliver"
    /\ Fault
    /\ Goto(e, "failed")
    /\ UNCHANGED <<results, calls>>

(***************************************************************************)
(* A call outside the executor raises or the instance dies.                *)
(***************************************************************************)
CallDies(e) ==
    /\ call[e].at # "idle"
    /\ Fault
    /\ Return(e)
    /\ UNCHANGED <<results, calls>>

-----------------------------------------------------------------------------
ExecutorStep(e) ==
    \/ StartCall(e) \/ EndCall(e) \/ Look(e) \/ SetRecord(e)
    \/ Resolve(e) \/ Download(e) \/ SaveWorkbook(e) \/ StoreFile(e) \/ Deliver(e)
    \/ Succeed(e) \/ RecordFailure(e) \/ ItemFails(e) \/ CallDies(e)

Next ==
    \/ \E e \in Caller : ExecutorStep(e) /\ UNCHANGED <<scope, docs, edits, task>>
    \/ RNext /\ UNCHANGED <<results, calls, call>>

Spec == Init /\ [][Next]_vars

-----------------------------------------------------------------------------
(* Properties *)

TypeOK ==
    /\ DefinitionsTypeOK
    /\ runs \in [RunId -> ResultCodes]
    /\ workbook \in [Date -> File]
    /\ file \in [Object -> File]
    /\ deliveries \in Seq(DeliveryRecord)
    /\ contested \subseteq RunId
    /\ mixed \subseteq Date
    /\ generated \subseteq Prefixes \X Date \X Report
    /\ calls \in Nat
    /\ call \in [Caller -> Call]

DeliveriesOf(id) == {i \in DOMAIN deliveries : deliveries[i].run = id}

(***************************************************************************)
(* "Rejects duplicate execute requests for the same report, schedule       *)
(* window, timezone, and idempotency key": unless two calls looked before  *)
(* either had set the record, a run delivers at most once, through         *)
(* retries, failures and edits; its record says delivered only if it did,  *)
(* and one that was validated or generated only delivered nothing.         *)
(***************************************************************************)
OneDeliveryPerRun ==
    \A id \in RunId \ contested :
        /\ Cardinality(DeliveriesOf(id)) <= 1
        /\ runs[id] = "delivery_succeeded" => DeliveriesOf(id) # {}
        /\ DeliveriesOf(id) # {} =>
              runs[id] \in {"delivery_started", "delivery_failed", "delivery_succeeded"}

(***************************************************************************)
(* The file a delivery points at is a workbook of its own report, made     *)
(* from a template published for it, as long as no other report is stored  *)
(* under that prefix on that date and no two workbooks of the date were    *)
(* in the shared directory at once.                                        *)
(***************************************************************************)
OwnObject(d) ==
    \A r \in Report : <<d.object[1], d.object[2], r>> \in generated => r = d.run.report

FileIsDeliverys ==
    \A i \in DOMAIN deliveries :
        LET d == deliveries[i]
            f == file[d.object]
        IN  d.run.date \notin mixed /\ OwnObject(d) =>
                /\ f.report = d.run.report
                /\ f.report \notin raced => \E v \in published[f.report] :
                                                f.template # NoTemplate /\ v.template = f.template
=============================================================================
