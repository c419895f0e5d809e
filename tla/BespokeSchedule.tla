---------------------------- MODULE BespokeSchedule ----------------------------
(***************************************************************************)
(* One report of one month of the three older bespoke schedules (app.py):  *)
(* Thermae Romae, plus browser point sales and JUMP PLUS ad revenue.  All  *)
(* three claim the month in a run record that is never claimed again;      *)
(* the ad revenue schedule polls its source before it claims, and its      *)
(* revenue comes from a sheet that another job copies to BigQuery.         *)
(*                                                                         *)
(* A request is served by one thread and cut at its calls to Firestore,    *)
(* BigQuery, Drive and the Sheets API.                                     *)
(*                                                                         *)
(* A definition named D_X is a faulty variant of D, a change that a        *)
(* property must notice; nothing uses it.                                  *)
(***************************************************************************)
EXTENDS Integers, Sequences

CONSTANTS
    Sched,          \* request slots of Cloud Scheduler, each called any number of times
    Manual,         \* requests of the admin screen, one generation each
    Sync,           \* slots of the sheet synchronisation, scheduled or manual
    FaultKinds,     \* the kinds of fault that may happen, a subset of AllFaultKinds
    MaxFaults,      \* bound: how many faults happen in one behaviour
    MaxEdits        \* bound: how often the sheet is edited

Generators == Sched \cup Manual
AllFaultKinds == {"crash", "work", "drive", "driveLost", "record", "blank"}

ASSUME DisjointRequests == Sched \cap Manual = {}
ASSUME FaultBudget == FaultKinds \subseteq AllFaultKinds /\ MaxFaults \in Nat
ASSUME EditBound == MaxEdits \in Nat

VARIABLES
    report,     \* which report this is; no step changes it
    run,        \* the run record of the month
    detail,     \* whether BigQuery has the month's detail rows
    sheet,      \* the month's cell of the sheet
    parses,     \* whether every cell of the sheet can be parsed
    confirmed,  \* the month's row of the confirmed revenue table
    drive,      \* the files of the month in the Drive folder, in order of creation
    faults,     \* faults so far
    pc,         \* where each generating request is
    job,        \* its local variables
    resp,       \* its last reply
    read        \* per sync slot, what it read from the sheet and has not merged yet

generator == <<pc, job, resp>>
data == <<detail, sheet, parses, confirmed>>
vars == <<report, run, data, drive, faults, generator, read>>

Reports == {"thermae-romae", "plus-browser-point-sales", "ad-revenue"}
Polls == report = "ad-revenue"

(***************************************************************************)
(* The cell after its edit number `edit`, and whether it holds an amount   *)
(* (fetch_confirmed_revenue's None otherwise).                             *)
(***************************************************************************)
Cell == [edit : Nat, amount : BOOLEAN]
EmptyCell == [edit |-> 0, amount |-> FALSE]

Read == [held : BOOLEAN, cell : Cell]
NothingRead == [held |-> FALSE, cell |-> EmptyCell]

Statuses == {"none", "running", "succeeded", "failed"}
Replies == {"none", "ok", "skipped", "waiting", "duplicate", "error"}

Owning == {"detail", "revenue", "fetch", "upload", "record"}
Places == {"idle", "pollDetail", "pollRevenue", "claim", "claimed"} \cup Owning

(***************************************************************************)
(* Locals: the revenue used, whether the rows fetched were there, whether  *)
(* the upload returned a file id, the status to record.                    *)
(***************************************************************************)
Job == [revenue : Cell, full : BOOLEAN, file_id : BOOLEAN, out : Statuses]
NoJob == [revenue |-> EmptyCell, full |-> FALSE, file_id |-> FALSE, out |-> "none"]

File == [by : Generators, revenue : Cell, full : BOOLEAN]

Init ==
    /\ report \in Reports
    /\ run = [status |-> "none", has_drive_file |-> FALSE]
    /\ detail \in BOOLEAN
    /\ sheet = EmptyCell
    /\ parses = TRUE
    /\ confirmed = EmptyCell
    /\ drive = <<>>
    /\ faults = 0
    /\ pc = [h \in Generators |-> "idle"]
    /\ job = [h \in Generators |-> NoJob]
    /\ resp = [h \in Generators |-> "none"]
    /\ read = [y \in Sync |-> NothingRead]

-----------------------------------------------------------------------------
(* Helpers *)

Fault(kind) == /\ kind \in FaultKinds
               /\ faults < MaxFaults
               /\ faults' = faults + 1

NoFault == UNCHANGED faults

Goto(h, place) == pc' = [pc EXCEPT ![h] = place]

Continue(h, place) == Goto(h, place) /\ UNCHANGED <<job, resp>>

Reply(h, code) ==
    /\ Goto(h, "idle")
    /\ job' = [job EXCEPT ![h] = NoJob]
    /\ resp' = [resp EXCEPT ![h] = code]

(***************************************************************************)
(* The generation returned, or raised: the scheduled handler records that  *)
(* first, the manual one answers at once.                                  *)
(***************************************************************************)
Finish(h, status, code) ==
    IF h \in Sched
    THEN /\ Goto(h, "record")
         /\ job' = [job EXCEPT ![h].out = status]
         /\ UNCHANGED resp
    ELSE Reply(h, code)

GenerationFails(h) == Finish(h, "failed", "error")

Recorded == run.status # "none"

-----------------------------------------------------------------------------
(* The scheduled handlers up to their claim *)

(***************************************************************************)
(* The ad revenue handler reads the record without claiming it.            *)
(***************************************************************************)
Peek(h) ==
    /\ Polls
    /\ h \in Sched /\ pc[h] = "idle"
    /\ IF run.status = "succeeded" THEN Reply(h, "skipped")
       ELSE IF Recorded THEN Reply(h, "duplicate")
       ELSE Continue(h, "pollDetail")
    /\ NoFault
    /\ UNCHANGED <<run, data, drive>>

(***************************************************************************)
(* check_readiness of the poll: two queries.                               *)
(***************************************************************************)
PollDetail_Skipped(h) ==
    /\ pc[h] = "pollDetail"
    /\ Continue(h, "claim")
    /\ NoFault
    /\ UNCHANGED <<run, data, drive>>

PollDetail(h) ==
    /\ pc[h] = "pollDetail"
    /\ IF detail THEN Continue(h, "pollRevenue") ELSE Reply(h, "waiting")
    /\ NoFault
    /\ UNCHANGED <<run, data, drive>>


PollRevenue(h) ==
    /\ pc[h] = "pollRevenue"
    /\ IF confirmed.amount THEN Continue(h, "claim") ELSE Reply(h, "waiting")
    /\ NoFault
    /\ UNCHANGED <<run, data, drive>>

(***************************************************************************)
(* _claim_scheduled_run without reclaimable_statuses: whatever record      *)
(* exists blocks.  The others begin with it; the read and the write are    *)
(* two calls.                                                              *)
(***************************************************************************)
Claimable_Failed == run.status \in {"none", "failed"}

Claimable == run.status = "none"

ReadClaim(h) ==
    /\ h \in Sched
    /\ pc[h] = IF Polls THEN "claim" ELSE "idle"
    /\ IF Claimable THEN Continue(h, "claimed") ELSE Reply(h, "duplicate")
    /\ NoFault
    /\ UNCHANGED <<run, data, drive>>

FirstStep == IF Polls THEN "detail" ELSE "fetch"

WriteClaim_ResultCode(h) ==
    /\ pc[h] = "claimed"
    /\ run' = [status |-> "generation_started", has_drive_file |-> FALSE]
    /\ Continue(h, FirstStep)
    /\ NoFault
    /\ UNCHANGED <<data, drive>>

WriteClaim(h) ==
    /\ pc[h] = "claimed"
    /\ run' = [status |-> "running", has_drive_file |-> FALSE]
    /\ Continue(h, FirstStep)
    /\ NoFault
    /\ UNCHANGED <<data, drive>>

(***************************************************************************)
(* A call of these steps raises and leaves the handler as a 500.           *)
(***************************************************************************)
PreludeFails(h) ==
    /\ pc[h] \in Places \ ({"idle"} \cup Owning)
    /\ Fault("work")
    /\ Reply(h, "error")
    /\ UNCHANGED <<run, data, drive>>

-----------------------------------------------------------------------------
(* The manual handlers and the generation *)

StartManual(h) ==
    /\ h \in Manual
    /\ pc[h] = "idle" /\ resp[h] = "none"
    /\ Continue(h, FirstStep)
    /\ NoFault
    /\ UNCHANGED <<run, data, drive>>

(***************************************************************************)
(* check_readiness once more, by generate_ad_revenue_report.  The revenue  *)
(* it read is the one the workbook will show.                              *)
(***************************************************************************)
CheckDetail(h) ==
    /\ pc[h] = "detail"
    /\ IF detail THEN Continue(h, "revenue") ELSE GenerationFails(h)
    /\ NoFault
    /\ UNCHANGED <<run, data, drive>>

CheckRevenue_Unchecked(h) ==
    /\ pc[h] = "revenue"
    /\ Goto(h, "fetch")
    /\ job' = [job EXCEPT ![h].revenue = confirmed]
    /\ UNCHANGED resp
    /\ NoFault
    /\ UNCHANGED <<run, data, drive>>

CheckRevenue(h) ==
    /\ pc[h] = "revenue"
    /\ IF confirmed.amount
       THEN /\ Goto(h, "fetch")
            /\ job' = [job EXCEPT ![h].revenue = confirmed]
            /\ UNCHANGED resp
       ELSE GenerationFails(h)
    /\ NoFault
    /\ UNCHANGED <<run, data, drive>>

(***************************************************************************)
(* The queries, the template and the workbook.  Thermae Romae refuses a    *)
(* month without rows (no_rows); plus point sales writes zeros.            *)
(***************************************************************************)
FetchAndBuild(h) ==
    /\ pc[h] = "fetch"
    /\ IF report = "thermae-romae" /\ ~detail THEN GenerationFails(h)
       ELSE /\ Goto(h, "upload")
            /\ job' = [job EXCEPT ![h].full = detail]
            /\ UNCHANGED resp
    /\ NoFault
    /\ UNCHANGED <<run, data, drive>>

WorkFails(h) ==
    /\ pc[h] \in {"detail", "revenue", "fetch"}
    /\ Fault("work")
    /\ GenerationFails(h)
    /\ UNCHANGED <<run, data, drive>>

(***************************************************************************)
(* upload_xlsx_to_drive, as UploadPromise describes it: a new file, the    *)
(* id of which is not always known.  Drive keeps files of equal names.     *)
(***************************************************************************)
Created(h) ==
    drive' = Append(drive, [by |-> h, revenue |-> job[h].revenue, full |-> job[h].full])

UploadToDrive(h) ==
    /\ pc[h] = "upload"
    /\ Created(h)
    /\ \E known \in BOOLEAN :
          IF h \in Sched
          THEN /\ Goto(h, "record")
               /\ job' = [job EXCEPT ![h].out = "succeeded", ![h].file_id = known]
               /\ UNCHANGED resp
          ELSE Reply(h, "ok")
    /\ NoFault
    /\ UNCHANGED <<run, data>>

UploadFails(h) ==
    /\ pc[h] = "upload"
    /\ \/ Fault("drive") /\ UNCHANGED drive
       \/ Fault("driveLost") /\ Created(h)
    /\ GenerationFails(h)
    /\ UNCHANGED <<run, data>>

(***************************************************************************)
(* The final run_ref.update; a failure leaves an earlier result in place.  *)
(***************************************************************************)
ReplyFor(status) == IF status = "succeeded" THEN "ok" ELSE "error"

Record_AlwaysSucceeded(h) ==
    /\ pc[h] = "record"
    /\ run' = [status |-> "succeeded", has_drive_file |-> job[h].file_id]
    /\ Reply(h, ReplyFor(job[h].out))
    /\ NoFault
    /\ UNCHANGED <<data, drive>>

Record(h) ==
    /\ pc[h] = "record"
    /\ run' = [status |-> job[h].out,
               has_drive_file |-> IF job[h].out = "succeeded" THEN job[h].file_id
                                  ELSE run.has_drive_file]
    /\ Reply(h, ReplyFor(job[h].out))
    /\ NoFault
    /\ UNCHANGED <<data, drive>>

RecordFails(h) ==
    /\ pc[h] = "record"
    /\ Fault("record")
    /\ Reply(h, "error")
    /\ UNCHANGED <<run, data, drive>>

Crash(h) ==
    /\ pc[h] # "idle"
    /\ Fault("crash")
    /\ Reply(h, "error")
    /\ UNCHANGED <<run, data, drive>>

-----------------------------------------------------------------------------
(* sync_ad_revenue_confirmed_values: read the sheet, parse every row of it *)
(* and MERGE them all.  It may be cut off in between.                      *)

(***************************************************************************)
(* A cell that does not parse raises, for all months: the call changes     *)
(* nothing, and no call after it does until the cell is corrected.         *)
(***************************************************************************)
ReadSheet(y) ==
    /\ Polls
    /\ ~read[y].held
    /\ parses
    /\ read' = [read EXCEPT ![y] = [held |-> TRUE, cell |-> sheet]]
    /\ UNCHANGED <<run, data, drive, faults, generator>>

Merged_InsertsOnly(old, new) == IF old.amount THEN old ELSE new

Merged(old, new) == new

Merge(y) ==
    /\ read[y].held
    /\ confirmed' = Merged(confirmed, read[y].cell)
    /\ read' = [read EXCEPT ![y] = NothingRead]
    /\ UNCHANGED <<run, detail, sheet, parses, drive, faults, generator>>

SyncFails(y) ==
    /\ read[y].held
    /\ Fault("work")
    /\ read' = [read EXCEPT ![y] = NothingRead]
    /\ UNCHANGED <<run, data, drive, generator>>

-----------------------------------------------------------------------------
(* The environment *)

LoadDetail ==
    /\ ~detail /\ detail' = TRUE
    /\ UNCHANGED <<run, sheet, parses, confirmed, drive, faults, generator, read>>

(***************************************************************************)
(* Somebody enters or corrects the amount, or blanks the cell ("blank").   *)
(* With it, or elsewhere in the sheet, they may leave text that is neither *)
(* an amount nor a month, which fails the synchronisation of every month   *)
(* until it is corrected; what the month's cell is worth counts only then. *)
(***************************************************************************)
EditSheet ==
    /\ Polls
    /\ sheet.edit < MaxEdits
    /\ \E amount \in BOOLEAN :
          /\ sheet' = [edit |-> sheet.edit + 1, amount |-> amount]
          /\ IF amount THEN NoFault ELSE Fault("blank")
    /\ parses' \in BOOLEAN
    /\ UNCHANGED <<run, detail, confirmed, drive, generator, read>>

CorrectSheet ==
    /\ ~parses /\ parses' = TRUE
    /\ UNCHANGED <<run, detail, sheet, confirmed, drive, faults, generator, read>>

-----------------------------------------------------------------------------
Step(h) ==
    \/ PollDetail(h) \/ PollRevenue(h) \/ (Polls /\ ReadClaim(h)) \/ WriteClaim(h)
    \/ PreludeFails(h) \/ CheckDetail(h) \/ CheckRevenue(h) \/ FetchAndBuild(h)
    \/ WorkFails(h) \/ UploadToDrive(h) \/ UploadFails(h) \/ Record(h) \/ RecordFails(h)

Call(h) == Peek(h) \/ (~Polls /\ ReadClaim(h))

Synchronise(y) == ReadSheet(y) \/ Merge(y) \/ SyncFails(y)

Next ==
    /\ \/ /\ \E h \in Generators : Call(h) \/ StartManual(h) \/ Step(h) \/ Crash(h)
          /\ UNCHANGED read
       \/ \E y \in Sync : Synchronise(y)
       \/ LoadDetail
       \/ EditSheet
       \/ CorrectSheet
    /\ UNCHANGED report

Spec == Init /\ [][Next]_vars

(***************************************************************************)
(* A thread that runs keeps running; the schedules of the polls and of the *)
(* synchronisation come round.  Nothing is assumed of the source data, of  *)
(* whoever edits the sheet, or of faults.                                  *)
(***************************************************************************)
Unhindered(A) == A /\ UNCHANGED <<report, read>>

FairSpec ==
    /\ Spec
    /\ \A h \in Generators : WF_vars(Unhindered(Step(h)))
    /\ WF_vars(Unhindered(\E h \in Sched : Call(h)))
    /\ \A y \in Sync : WF_vars(Synchronise(y) /\ UNCHANGED report)

-----------------------------------------------------------------------------
(* Properties *)

TypeOK ==
    /\ report \in Reports
    /\ run \in [status : Statuses, has_drive_file : BOOLEAN]
    /\ detail \in BOOLEAN
    /\ sheet \in Cell /\ confirmed \in Cell
    /\ parses \in BOOLEAN
    /\ drive \in Seq(File)
    /\ faults \in 0..MaxFaults
    /\ pc \in [Generators -> Places]
    /\ job \in [Generators -> Job]
    /\ resp \in [Generators -> Replies]
    /\ read \in [Sync -> Read]

(***************************************************************************)
(* However often the scheduler calls, and whatever failed before, a slot   *)
(* never leaves a second file of the month: only requests that overlap     *)
(* before the first claim is written can each leave one.                   *)
(***************************************************************************)
OncePerSlot ==
    \A i, j \in DOMAIN drive :
        drive[i].by \in Sched /\ drive[i].by = drive[j].by => i = j

(***************************************************************************)
(* A month is ticked off, and later calls skipped or answered with         *)
(* success, only when a scheduled file of it was created; and a record     *)
(* that claims a file id is of such a month.                               *)
(***************************************************************************)
HasScheduledFile == \E i \in DOMAIN drive : drive[i].by \in Sched

TickedMeansFile ==
    \/ run.status = "succeeded"
    \/ run.has_drive_file
    \/ \E h \in Sched : resp[h] \in {"ok", "skipped"}
    => HasScheduledFile

(***************************************************************************)
(* Polling leaves no trace: there is no run record of an ad revenue month, *)
(* not even a failed one, before its detail rows are there and an amount   *)
(* was entered in the sheet.                                               *)
(***************************************************************************)
NothingBeforeReady ==
    Polls /\ Recorded => detail /\ sheet.edit > 0

(***************************************************************************)
(* No report is made up: a Thermae Romae or ad revenue file was built from *)
(* rows that were there, an ad revenue file with an amount that somebody   *)
(* had entered.                                                            *)
(***************************************************************************)
FilesAreReal ==
    \A i \in DOMAIN drive :
        /\ report # "plus-browser-point-sales" => drive[i].full
        /\ Polls => /\ drive[i].revenue.amount
                    /\ drive[i].revenue.edit \in 1..sheet.edit

(***************************************************************************)
(* Once the whole sheet parses for good, the confirmed revenue ends up as  *)
(* the sheet has it, whatever order of reads, merges, failures and edits   *)
(* came before.  Until it does no month's revenue is brought up to date.   *)
(***************************************************************************)
TableCatchesUp ==
    Polls /\ <>[]parses => <>[](confirmed = sheet)

(***************************************************************************)
(* If nothing fails, an ad revenue month that is ready is generated,       *)
(* however long it was polled before.                                      *)
(***************************************************************************)
Ready == detail /\ confirmed.amount


(***************************************************************************)
(* "simply refreshes every month's row to the Sheet's current value": a    *)
(* synchronisation never puts an older value over a newer one.             *)
(***************************************************************************)
NeverOlder == [][confirmed'.edit >= confirmed.edit]_vars
=============================================================================
