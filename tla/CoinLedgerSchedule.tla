-------------------------- MODULE CoinLedgerSchedule --------------------------
(***************************************************************************)
(* The monthly coin-ledger report of one target month: the scheduled       *)
(* handler (app.py, scheduled_generate_jumpplus_coin_ledger), the manual   *)
(* handler (generate_jumpplus_coin_ledger) and the generation pipeline     *)
(* both run (jumpplus_coin_ledger_report.py).                              *)
(*                                                                         *)
(* A handler is a request being served by one thread of one instance.  Its *)
(* steps are cut at the calls to Firestore, BigQuery, Cloud Storage and    *)
(* Drive, where requests interleave.  The run record and the delivery      *)
(* document live in Firestore; uploaded files are <<run stamp, file>>      *)
(* pairs.  Every failure the environment can cause is a fault of a named   *)
(* kind and consumes one unit of the budget MaxFaults.                     *)
(*                                                                         *)
(* A definition named D_X is a faulty variant of D, a change that a        *)
(* property must notice; nothing uses it.                                  *)
(***************************************************************************)
EXTENDS MultiFileDelivery

CONSTANTS
    Sched,          \* request slots of Cloud Scheduler: a slot retries after its reply
    Manual,         \* requests of the admin screen, one generation each
    NumFiles,       \* files of one set (OUTPUT_FILES: App, WEB, product)
    FaultKinds,     \* the kinds of fault that may happen, a subset of AllFaultKinds
    MaxFaults,      \* bound: how many faults happen in one behaviour
    OutliveStale    \* whether a handler may still run when its record counts as stale

Handlers == Sched \cup Manual

AllFaultKinds == {"crash", "source", "work", "drive", "driveLost", "trash",
                  "deliver", "deliverLost", "record"}

ASSUME DisjointRequests == Sched \cap Manual = {}
ASSUME FileCount == NumFiles \in Nat \ {0}
ASSUME FaultBudget == /\ FaultKinds \subseteq AllFaultKinds
                      /\ MaxFaults \in Nat
ASSUME StaleMode == OutliveStale \in BOOLEAN

VARIABLES
    run,        \* the run record: its status, and whether updated_at is old enough to be stale
    source,     \* whether BigQuery holds the complete month (ReadinessResult.ready)
    gcs,        \* objects in Cloud Storage
    drive,      \* files in the official Drive folder that are not in the trash
    delivery,   \* the delivery document of the month
    stamps,     \* run stamps handed out so far
    faults,     \* faults so far
    pc,         \* where each handler is
    job,        \* the local variables of each handler
    resp        \* the reply each handler gave last

handlerVars == <<pc, job, resp>>
storeVars == <<gcs, drive, stamps>>
vars == <<run, source, gcs, drive, delivery, stamps, faults, pc, job, resp>>

Files == 1..NumFiles
Stored(s) == {<<s, n>> : n \in Files}      \* the complete file set of run stamp s

Statuses == {"none", "running", "succeeded", "failed", "source_not_ready"}
Reclaimable == {"failed", "source_not_ready"}
(***************************************************************************)
(* Replies as Cloud Scheduler tells them apart: a 2xx is final ("done"),   *)
(* anything else, 409, 500 or 503, is retried.                             *)
(***************************************************************************)
Replies == {"none", "done", "retry"}

Owning == {"recheck", "fetch", "gcs", "drive", "trash", "deliver", "record"}
Places == {"idle", "find", "found", "ready", "notready", "claim", "claimed"} \cup Owning

(***************************************************************************)
(* Locals of a handler: `seen` is existing_status, `deliver` whether the   *)
(* request asked for a delivery, `stamp` the run stamp, `done` the files   *)
(* uploaded by the loop it is in, `trashed` how many of them the cleanup   *)
(* loop has handled, `full` whether the rows it fetched were complete,     *)
(* `out` the status it is about to record.  `late` is a history variable:  *)
(* the scheduled version already existed when the request arrived.         *)
(***************************************************************************)
Job == [seen : Statuses, deliver : BOOLEAN, stamp : Nat, done : Nat,
        trashed : Nat, full : BOOLEAN, out : Statuses, late : BOOLEAN]

NoJob == [seen |-> "none", deliver |-> FALSE, stamp |-> 0, done |-> 0,
          trashed |-> 0, full |-> FALSE, out |-> "none", late |-> FALSE]

Init ==
    /\ run = [status |-> "none", stale |-> FALSE]
    /\ source \in BOOLEAN
    /\ gcs = {}
    /\ drive = {}
    /\ delivery = NoDelivery
    /\ stamps = 0
    /\ faults = 0
    /\ pc = [h \in Handlers |-> "idle"]
    /\ job = [h \in Handlers |-> NoJob]
    /\ resp = [h \in Handlers |-> "none"]

-----------------------------------------------------------------------------
(* Helpers *)

Fault(kind) == /\ kind \in FaultKinds
               /\ faults < MaxFaults
               /\ faults' = faults + 1

NoFault == UNCHANGED faults

Goto(h, place) == pc' = [pc EXCEPT ![h] = place]

Reply(h, code) ==
    /\ Goto(h, "idle")
    /\ job' = [job EXCEPT ![h] = NoJob]
    /\ resp' = [resp EXCEPT ![h] = code]

Continue(h, place) == Goto(h, place) /\ UNCHANGED <<job, resp>>

(***************************************************************************)
(* An exception out of generate_coin_ledger_report: the scheduled handler  *)
(* records `status` first, the manual one answers at once.                 *)
(***************************************************************************)
GenerationFails(h, status) ==
    IF h \in Sched
    THEN /\ Goto(h, "record")
         /\ job' = [job EXCEPT ![h].out = status]
         /\ UNCHANGED resp
    ELSE Reply(h, "retry")

GenerationEnds(h) ==
    IF h \in Sched
    THEN /\ Goto(h, "record")
         /\ job' = [job EXCEPT ![h].out = "succeeded"]
         /\ UNCHANGED resp
    ELSE Reply(h, "done")

ScheduledDelivered == HasKey(delivery, ScheduledKey)

-----------------------------------------------------------------------------
(* The scheduled handler up to its claim *)

(***************************************************************************)
(* The request arrives and reads the run record.                           *)
(***************************************************************************)
Peek(h) ==
    /\ h \in Sched
    /\ pc[h] = "idle"
    /\ IF run.status = "succeeded"
       THEN Reply(h, "done")
       ELSE /\ Goto(h, "find")
            /\ job' = [job EXCEPT ![h].seen = run.status,
                                  ![h].late = ScheduledDelivered]
            /\ UNCHANGED resp
    /\ NoFault
    /\ UNCHANGED <<run, source, storeVars, delivery>>

FindVersion_Skipped(h) ==
    /\ pc[h] = "find"
    /\ Continue(h, "ready")
    /\ NoFault
    /\ UNCHANGED <<run, source, storeVars, delivery>>

FindVersion(h) ==
    /\ pc[h] = "find"
    /\ Continue(h, IF ScheduledDelivered THEN "found" ELSE "ready")
    /\ NoFault
    /\ UNCHANGED <<run, source, storeVars, delivery>>

(***************************************************************************)
(* The merge write that records success for a version already delivered.   *)
(***************************************************************************)
MarkDelivered_ResultCode(h) ==
    /\ pc[h] = "found"
    /\ run' = [status |-> "already_delivered", stale |-> FALSE]
    /\ Reply(h, "done")
    /\ NoFault
    /\ UNCHANGED <<source, storeVars, delivery>>

MarkDelivered(h) ==
    /\ pc[h] = "found"
    /\ run' = [status |-> "succeeded", stale |-> FALSE]
    /\ Reply(h, "done")
    /\ NoFault
    /\ UNCHANGED <<source, storeVars, delivery>>

CheckReadiness(h) ==
    /\ pc[h] = "ready"
    /\ IF source THEN Continue(h, "claim")
       ELSE IF job[h].seen # "running" THEN Continue(h, "notready")
       ELSE Reply(h, "retry")
    /\ NoFault
    /\ UNCHANGED <<run, source, storeVars, delivery>>

(***************************************************************************)
(* The merge write of source_not_ready: it trusts the status read by Peek. *)
(***************************************************************************)
MarkNotReady(h) ==
    /\ pc[h] = "notready"
    /\ run' = [status |-> "source_not_ready", stale |-> FALSE]
    /\ Reply(h, "retry")
    /\ NoFault
    /\ UNCHANGED <<source, storeVars, delivery>>

(***************************************************************************)
(* _claim_scheduled_run: a read and, if the record does not block, a write *)
(* that does not look at the record again.                                 *)
(***************************************************************************)
Claimable_NeverStale(r) == r.status \in {"none"} \cup Reclaimable

Claimable(r) == \/ r.status \in {"none"} \cup Reclaimable
                \/ r.status = "running" /\ r.stale

ReadClaim(h) ==
    /\ pc[h] = "claim"
    /\ IF Claimable(run) THEN Continue(h, "claimed") ELSE Reply(h, "retry")
    /\ NoFault
    /\ UNCHANGED <<run, source, storeVars, delivery>>

WriteClaim(h) ==
    /\ pc[h] = "claimed"
    /\ run' = [status |-> "running", stale |-> FALSE]
    /\ Goto(h, "recheck")
    /\ job' = [job EXCEPT ![h].deliver = TRUE]
    /\ NoFault
    /\ UNCHANGED <<source, storeVars, delivery, resp>>

(***************************************************************************)
(* A Firestore or BigQuery call of these steps raises: the exception       *)
(* leaves the handler as a 500.  A failed write is not applied here: one   *)
(* that is, but whose answer is lost, is the write followed by Crash.      *)
(***************************************************************************)
PreludeFails(h) ==
    /\ pc[h] \in Places \ ({"idle"} \cup Owning)
    /\ Fault("work")
    /\ Reply(h, "retry")
    /\ UNCHANGED <<run, source, storeVars, delivery>>

-----------------------------------------------------------------------------
(* The manual handler and the generation pipeline *)

StartManual(h) ==
    /\ h \in Manual
    /\ pc[h] = "idle" /\ resp[h] = "none"
    /\ \E create_delivery \in BOOLEAN :
           job' = [job EXCEPT ![h].deliver = create_delivery]
    /\ Goto(h, "recheck")
    /\ NoFault
    /\ UNCHANGED <<run, source, storeVars, delivery, resp>>

Recheck_Skipped(h) ==
    /\ pc[h] = "recheck"
    /\ Continue(h, "fetch")
    /\ NoFault
    /\ UNCHANGED <<run, source, storeVars, delivery>>

Recheck(h) ==
    /\ pc[h] = "recheck"
    /\ IF source THEN Continue(h, "fetch")
       ELSE GenerationFails(h, "source_not_ready")
    /\ NoFault
    /\ UNCHANGED <<run, source, storeVars, delivery>>

(***************************************************************************)
(* fetch_source_data, the templates and build_workbooks: everything local. *)
(* The rows are read after the readiness query, in queries of their own.   *)
(* upload_generated_files then draws a fresh run stamp.                    *)
(***************************************************************************)
FreshStamp_PerMonth == 1

FreshStamp == stamps + 1

FetchAndBuild(h) ==
    /\ pc[h] = "fetch"
    /\ stamps' = FreshStamp
    /\ job' = [job EXCEPT ![h].full = source, ![h].stamp = FreshStamp]
    /\ Goto(h, "gcs")
    /\ NoFault
    /\ UNCHANGED <<run, source, gcs, drive, delivery, resp>>

(***************************************************************************)
(* The three GCS uploads: no other step reads an object before a version   *)
(* names it, so they are one step.                                         *)
(***************************************************************************)
UploadToGcs(h) ==
    /\ pc[h] = "gcs"
    /\ gcs' = gcs \cup Stored(job[h].stamp)
    /\ Continue(h, "drive")
    /\ NoFault
    /\ UNCHANGED <<run, source, drive, delivery, stamps>>

(***************************************************************************)
(* A query, a template, the workbook validation or a GCS upload raises; in *)
(* the last case the objects uploaded before it stay.                      *)
(***************************************************************************)
WorkFails(h) ==
    /\ pc[h] \in {"recheck", "fetch", "gcs"}
    /\ Fault("work")
    /\ IF pc[h] = "gcs"
       THEN \E n \in 0..NumFiles - 1 :
                gcs' = gcs \cup {<<job[h].stamp, i>> : i \in 1..n}
       ELSE UNCHANGED gcs
    /\ GenerationFails(h, "failed")
    /\ UNCHANGED <<run, source, drive, delivery, stamps>>

LastFile_OneEarly(h) == job[h].done + 2 >= NumFiles

LastFile(h) == job[h].done + 1 = NumFiles

UploadToDrive(h) ==
    /\ pc[h] = "drive"
    /\ drive' = drive \cup {<<job[h].stamp, job[h].done + 1>>}
    /\ IF ~LastFile(h)
       THEN /\ job' = [job EXCEPT ![h].done = @ + 1]
            /\ UNCHANGED <<pc, resp>>
       ELSE IF job[h].deliver THEN Continue(h, "deliver")
       ELSE GenerationEnds(h)
    /\ NoFault
    /\ UNCHANGED <<run, source, gcs, delivery, stamps>>

(***************************************************************************)
(* upload_xlsx_to_drive raises or returns no id.  "driveLost": the file    *)
(* exists in Drive all the same, the answer never arrived.                 *)
(***************************************************************************)
UploadsToTrash_None(h) == FALSE

UploadsToTrash(h) == job[h].done > 0

UploadToDriveFails(h) ==
    /\ pc[h] = "drive"
    /\ \/ Fault("drive") /\ UNCHANGED drive
       \/ /\ Fault("driveLost")
          /\ drive' = drive \cup {<<job[h].stamp, job[h].done + 1>>}
    /\ IF UploadsToTrash(h) THEN Continue(h, "trash")
       ELSE GenerationFails(h, "failed")
    /\ UNCHANGED <<run, source, gcs, delivery, stamps>>

(***************************************************************************)
(* The cleanup loop over uploaded_ids; a trash call that fails is logged.  *)
(***************************************************************************)
TrashNext(h) ==
    /\ pc[h] = "trash"
    /\ \/ NoFault /\ drive' = drive \ {<<job[h].stamp, job[h].trashed + 1>>}
       \/ Fault("trash") /\ UNCHANGED drive
    /\ IF job[h].trashed + 1 < job[h].done
       THEN /\ job' = [job EXCEPT ![h].trashed = @ + 1]
            /\ UNCHANGED <<pc, resp>>
       ELSE GenerationFails(h, "failed")
    /\ UNCHANGED <<run, source, gcs, delivery, stamps>>

(***************************************************************************)
(* upsert_multi_file_delivery: one transaction.                            *)
(***************************************************************************)
KeyOf(h) == IF h \in Sched THEN ScheduledKey ELSE NoKey

Upsert(h) ==
    delivery' = Upserted(delivery, job[h].stamp, job[h].full, KeyOf(h), job[h].stamp)

Deliver(h) ==
    /\ pc[h] = "deliver"
    /\ Upsert(h)
    /\ GenerationEnds(h)
    /\ NoFault
    /\ UNCHANGED <<run, source, storeVars>>

(***************************************************************************)
(* The transaction raises: it was not applied, or ("deliverLost") it was   *)
(* and the commit's answer was lost.                                       *)
(***************************************************************************)
DeliverFails(h) ==
    /\ pc[h] = "deliver"
    /\ \/ Fault("deliver") /\ UNCHANGED delivery
       \/ Fault("deliverLost") /\ Upsert(h)
    /\ GenerationFails(h, "failed")
    /\ UNCHANGED <<run, source, storeVars>>

(***************************************************************************)
(* The final run_ref.update of the scheduled handler.                      *)
(***************************************************************************)
ReplyFor(status) == IF status = "succeeded" THEN "done" ELSE "retry"

Record(h) ==
    /\ pc[h] = "record"
    /\ run' = [status |-> job[h].out, stale |-> FALSE]
    /\ Reply(h, ReplyFor(job[h].out))
    /\ NoFault
    /\ UNCHANGED <<source, storeVars, delivery>>

RecordFails(h) ==
    /\ pc[h] = "record"
    /\ Fault("record")
    /\ Reply(h, "retry")
    /\ UNCHANGED <<run, source, storeVars, delivery>>

-----------------------------------------------------------------------------
(* The environment *)

(***************************************************************************)
(* The instance dies (out of memory, shutdown) under the handler.          *)
(***************************************************************************)
Crash(h) ==
    /\ pc[h] # "idle"
    /\ Fault("crash")
    /\ Reply(h, "retry")
    /\ UNCHANGED <<run, source, storeVars, delivery>>

SourceLoaded ==
    /\ ~source /\ source' = TRUE
    /\ UNCHANGED <<run, storeVars, delivery, faults, handlerVars>>

SourceReloading ==
    /\ source /\ source' = FALSE
    /\ Fault("source")
    /\ UNCHANGED <<run, storeVars, delivery, handlerVars>>

(***************************************************************************)
(* updated_at falls behind now - stale_running_after.  Unless OutliveStale *)
(* no request lives that long, as the comment in                           *)
(* _coin_ledger_stale_running_after says.                                  *)
(***************************************************************************)
Owner(h) == h \in Sched /\ pc[h] \in Owning

BecomeStale ==
    /\ run.status = "running" /\ ~run.stale
    /\ OutliveStale \/ \A h \in Sched : ~Owner(h)
    /\ run' = [run EXCEPT !.stale = TRUE]
    /\ UNCHANGED <<source, storeVars, delivery, faults, handlerVars>>

(***************************************************************************)
(* set_delivery_active from the admin screen.                              *)
(***************************************************************************)
SetActive ==
    /\ delivery.exists
    /\ delivery.current_version \in VersionNumbers(delivery.versions)
    /\ \E active \in BOOLEAN : delivery' = [delivery EXCEPT !.active = active]
    /\ UNCHANGED <<run, source, storeVars, faults, handlerVars>>

-----------------------------------------------------------------------------
Step(h) ==
    \/ FindVersion(h) \/ MarkDelivered(h) \/ CheckReadiness(h) \/ MarkNotReady(h)
    \/ ReadClaim(h) \/ WriteClaim(h) \/ PreludeFails(h)
    \/ Recheck(h) \/ FetchAndBuild(h) \/ UploadToGcs(h) \/ WorkFails(h)
    \/ UploadToDrive(h) \/ UploadToDriveFails(h) \/ TrashNext(h)
    \/ Deliver(h) \/ DeliverFails(h) \/ Record(h) \/ RecordFails(h)

Environment == SourceLoaded \/ SourceReloading \/ BecomeStale \/ SetActive

Next == \/ \E h \in Handlers : Peek(h) \/ StartManual(h) \/ Step(h) \/ Crash(h)
        \/ Environment

Spec == Init /\ [][Next]_vars

-----------------------------------------------------------------------------
(* Properties *)

TypeOK ==
    /\ run \in [status : Statuses, stale : BOOLEAN]
    /\ source \in BOOLEAN
    /\ gcs \subseteq (1..stamps) \X Files
    /\ drive \subseteq (1..stamps) \X Files
    /\ delivery \in Delivery
    /\ stamps \in Nat
    /\ faults \in 0..MaxFaults
    /\ pc \in [Handlers -> Places]
    /\ job \in [Handlers -> Job]
    /\ resp \in [Handlers -> Replies]

(***************************************************************************)
(* However the requests of a month race, retry and fail, the scheduled     *)
(* version of the month is added once (plan_multi_file_delivery_write's    *)
(* noop, inside the transaction).                                          *)
(***************************************************************************)
OneScheduledVersion ==
    \A i, j \in DOMAIN delivery.versions :
        /\ delivery.versions[i].idempotency_key = ScheduledKey
        /\ delivery.versions[j].idempotency_key = ScheduledKey
        => i = j

(***************************************************************************)
(* No recipient can reach part of a set: whatever version the delivery     *)
(* holds, every file of it is in Cloud Storage and in the Drive folder,    *)
(* and the cleanup of another, failed run never takes one away.            *)
(***************************************************************************)
VersionsBacked ==
    \A i \in DOMAIN delivery.versions :
        Stored(delivery.versions[i].files) \subseteq gcs \cap drive

(***************************************************************************)
(* Two versions never point at the same objects: a rerun never overwrites  *)
(* the files of an earlier version, and an upsert repeated after a lost    *)
(* answer does not publish one set twice.                                  *)
(***************************************************************************)
VersionsDistinct ==
    \A i, j \in DOMAIN delivery.versions :
        delivery.versions[i].files = delivery.versions[j].files => i = j

(***************************************************************************)
(* Versions are numbered without gaps and the newest is the current one,   *)
(* so get_current_version always finds the version it is asked for.        *)
(***************************************************************************)
NewestIsCurrent ==
    /\ \A i \in DOMAIN delivery.versions : delivery.versions[i].version = i
    /\ delivery.current_version = Len(delivery.versions)
    /\ delivery.exists <=> delivery.versions # <<>>

(***************************************************************************)
(* The scheduler is told 200, and the record says succeeded, only when the *)
(* scheduled version is in the delivery: a month is never ticked off on    *)
(* the strength of a manual version or of an attempt that failed late.     *)
(***************************************************************************)
HasScheduledVersion ==
    \E i \in DOMAIN delivery.versions :
        delivery.versions[i].idempotency_key = ScheduledKey

DoneMeansDelivered ==
    run.status = "succeeded" \/ (\E h \in Sched : resp[h] = "done")
        => HasScheduledVersion

(***************************************************************************)
(* A request that arrives after the scheduled version was delivered never  *)
(* claims the month again, even when the record of that success was lost,  *)
(* or overwritten by a slower request: no second copy is generated.        *)
(***************************************************************************)
NoSecondCopy ==
    \A h \in Sched : job[h].late => pc[h] \in {"find", "found"}

(***************************************************************************)
(* Every version was built from a complete month, in a world where source  *)
(* tables, once complete, are not reloaded during a run.                   *)
(***************************************************************************)
OnlyCompleteData ==
    \A i \in DOMAIN delivery.versions : delivery.versions[i].full

(***************************************************************************)
(* Whenever no run is at work on it, the files of a run stamp in Drive are *)
(* the complete set or nothing: trash_drive_file's "a partial set is never *)
(* left in the official output folder".                                    *)
(***************************************************************************)
AtWork(s) == \E h \in Handlers : pc[h] \in {"drive", "trash"} /\ job[h].stamp = s

NoPartialSet ==
    \A s \in 1..stamps : AtWork(s) \/ {f \in drive : f[1] = s} \in {{}, Stored(s)}

(***************************************************************************)
(* "to prevent duplicate execution" (_claim_scheduled_run): one request    *)
(* owns the run of a month at a time.                                      *)
(***************************************************************************)
OneOwner == \A g, h \in Sched : Owner(g) /\ Owner(h) => g = h

(***************************************************************************)
(* The public URL survives every later version, and a version added by a   *)
(* rerun does not put a disabled delivery back online.                     *)
(***************************************************************************)
UrlAndActiveKept ==
    [][delivery.exists =>
         /\ delivery'.token = delivery.token
         /\ delivery'.versions # delivery.versions => delivery'.active = delivery.active]_vars

(***************************************************************************)
(* The delivery keeps what DeliveryPromise promises its recipients.        *)
(***************************************************************************)
Promise == INSTANCE DeliveryPromise WITH
    Url <- Nat, NoUrl <- 0, Scheduled <- ScheduledKey,
    FileSets <- Nat, PublicationKeys <- Keys,
    url <- delivery.token,
    published <- [i \in DOMAIN delivery.versions |->
                    [files |-> delivery.versions[i].files,
                     key |-> delivery.versions[i].idempotency_key]]

KeepsPromise == Promise!Spec
=============================================================================
