------------------------ MODULE BespokeSchedule_proofs ------------------------
(***************************************************************************)
(* Proofs of the safety properties of BespokeSchedule, for any number of   *)
(* scheduler slots, manual requests, synchronisations, faults and edits.   *)
(*                                                                         *)
(* The argument: a record, once written, never goes away, so a slot that   *)
(* has uploaded can never pass the claim again; and each place of a        *)
(* request carries what the checks before it have established, which       *)
(* neither an edit nor a synchronisation can take back.                    *)
(***************************************************************************)
EXTENDS BespokeSchedule, TLAPS

(***************************************************************************)
(* Amounts come from edits: wherever a cell was copied to, it is not newer *)
(* than the sheet, and holds an amount only if there was an edit.          *)
(***************************************************************************)
CellOK(c) == c.edit <= sheet.edit /\ (c.amount => c.edit > 0)

DataOK == /\ CellOK(sheet)
          /\ CellOK(confirmed)
          /\ \A y \in Sync : CellOK(read[y].cell)

FileBy(h) == \E i \in DOMAIN drive : drive[i].by = h

PlaceOK(h) ==
    /\ h \in Sched /\ pc[h] \in Owning => Recorded
    /\ pc[h] = "pollRevenue" => detail
    /\ Polls /\ pc[h] \in {"claim", "claimed", "revenue", "fetch", "upload"} => detail
    /\ Polls /\ pc[h] \in {"claim", "claimed"} => sheet.edit > 0
    /\ Polls /\ pc[h] \in {"fetch", "upload"} => job[h].revenue.amount /\ CellOK(job[h].revenue)
    /\ pc[h] = "upload" /\ report # "plus-browser-point-sales" => job[h].full
    /\ pc[h] = "record" => h \in Sched /\ job[h].out # "none"
    /\ job[h].file_id => job[h].out = "succeeded"
    /\ job[h].out = "succeeded" => HasScheduledFile /\ pc[h] = "record"
    /\ h \in Sched /\ FileBy(h) => Recorded /\ pc[h] \in {"idle", "record"}

PlacesOK == \A h \in Generators : PlaceOK(h)

IInv == /\ TypeOK
        /\ DataOK
        /\ PlacesOK
        /\ OncePerSlot
        /\ TickedMeansFile
        /\ NothingBeforeReady
        /\ FilesAreReal

LEMMA InitIInv == Init => IInv
<1> SUFFICES ASSUME Init PROVE IInv
  OBVIOUS
<1> USE FaultBudget DEF Init, EmptyCell, NothingRead, NoJob, Cell
<1>1. TypeOK
  BY DEF TypeOK, Reports, Statuses, Replies, Places, Job, Read, File
<1>2. DataOK
  BY DEF DataOK, CellOK
<1>3. PlacesOK
  BY DEF PlacesOK, PlaceOK, Owning, FileBy
<1>4. OncePerSlot /\ TickedMeansFile /\ NothingBeforeReady /\ FilesAreReal
  BY DEF OncePerSlot, TickedMeansFile, NothingBeforeReady, FilesAreReal, Recorded, Generators
<1> QED
  BY <1>1, <1>2, <1>3, <1>4 DEF IInv

-----------------------------------------------------------------------------
(* Steps of a request that touch nothing shared *)

(***************************************************************************)
(* Such a step keeps the invariant if the request's new place is right.    *)
(***************************************************************************)
LEMMA LocalStep ==
    ASSUME IInv, NEW h \in Generators,
           UNCHANGED <<report, run, data, drive, read>>,
           faults' \in 0..MaxFaults,
           NEW place \in Places, NEW locals \in Job, NEW code \in Replies,
           pc' = [pc EXCEPT ![h] = place],
           job' = [job EXCEPT ![h] = locals],
           resp' = [resp EXCEPT ![h] = code],
           h \in Sched /\ code \in {"ok", "skipped"} => HasScheduledFile,
           PlaceOK(h)'
    PROVE  IInv'
<1>1. TypeOK'
  BY DEF IInv, TypeOK, data
<1>2. DataOK'
  BY DEF IInv, DataOK, CellOK, data
<1>3. PlacesOK'
  <2> SUFFICES ASSUME NEW g \in Generators, g # h PROVE PlaceOK(g)'
    BY DEF PlacesOK
  <2>1. pc'[g] = pc[g] /\ job'[g] = job[g]
    BY DEF IInv, TypeOK
  <2>2. PlaceOK(g)
    BY DEF IInv, PlacesOK
  <2> QED
    BY <2>1, <2>2 DEF PlaceOK, Recorded, Polls, CellOK, HasScheduledFile, FileBy, data
<1>4. OncePerSlot' /\ NothingBeforeReady' /\ FilesAreReal'
  BY DEF IInv, OncePerSlot, NothingBeforeReady, FilesAreReal, Polls, Recorded, data
<1>5. TickedMeansFile'
  BY DEF IInv, TypeOK, TickedMeansFile, HasScheduledFile, Generators
<1> QED
  BY <1>1, <1>2, <1>3, <1>4, <1>5 DEF IInv

LEMMA FaultType ==
    ASSUME IInv, NEW kind, NoFault \/ Fault(kind)
    PROVE  faults' \in 0..MaxFaults
BY FaultBudget DEF IInv, TypeOK, NoFault, Fault

(***************************************************************************)
(* A reply, with whatever code is justified.                               *)
(***************************************************************************)
LEMMA ReplyStep ==
    ASSUME IInv, NEW h \in Generators, NEW code \in Replies, Reply(h, code),
           UNCHANGED <<report, run, data, drive, read>>,
           faults' \in 0..MaxFaults,
           h \in Sched /\ code \in {"ok", "skipped"} => HasScheduledFile
    PROVE  IInv'
<1>1. /\ pc' = [pc EXCEPT ![h] = "idle"]
      /\ job' = [job EXCEPT ![h] = NoJob]
      /\ resp' = [resp EXCEPT ![h] = code]
  BY DEF Reply, Goto
<1>2. "idle" \in Places /\ NoJob \in Job
  BY DEF Places, NoJob, Job, Statuses, EmptyCell, Cell
<1>3. pc'[h] = "idle" /\ job'[h] = NoJob
  BY <1>1 DEF IInv, TypeOK
<1>4. PlaceOK(h)'
  BY <1>3 DEF IInv, PlacesOK, PlaceOK, Owning, NoJob, FileBy, Recorded, Polls
<1> QED
  BY <1>1, <1>2, <1>4, LocalStep

LEMMA ContinueStep ==
    ASSUME IInv, NEW h \in Generators, NEW place \in Places, Continue(h, place),
           UNCHANGED <<report, run, data, drive, read>>,
           faults' \in 0..MaxFaults,
           PlaceOK(h)'
    PROVE  IInv'
<1>1. /\ pc' = [pc EXCEPT ![h] = place]
      /\ job' = [job EXCEPT ![h] = job[h]]
      /\ resp' = [resp EXCEPT ![h] = resp[h]]
  BY DEF IInv, TypeOK, Continue, Goto
<1>2. job[h] \in Job /\ resp[h] \in Replies
  BY DEF IInv, TypeOK
<1>3. h \in Sched /\ resp[h] \in {"ok", "skipped"} => HasScheduledFile
  BY DEF IInv, TickedMeansFile
<1> QED
  BY <1>1, <1>2, <1>3, LocalStep

(***************************************************************************)
(* The generation raises: nothing new is claimed of the month.             *)
(***************************************************************************)
LEMMA FailStep ==
    ASSUME IInv, NEW h \in Generators, GenerationFails(h),
           pc[h] \in Owning \ {"record"},
           UNCHANGED <<report, run, data, drive, read>>,
           faults' \in 0..MaxFaults
    PROVE  IInv'
<1>1. CASE h \in Sched
  <2> DEFINE locals == [job[h] EXCEPT !.out = "failed"]
  <2>1. /\ pc' = [pc EXCEPT ![h] = "record"]
        /\ job' = [job EXCEPT ![h] = locals]
        /\ resp' = [resp EXCEPT ![h] = resp[h]]
    BY <1>1 DEF IInv, TypeOK, GenerationFails, Finish, Goto
  <2>2. job[h] \in Job /\ resp[h] \in Replies /\ "record" \in Places
    BY DEF IInv, TypeOK, Places, Owning
  <2>3. locals \in Job
    BY <2>2 DEF Job, Statuses
  <2>4. h \in Sched /\ resp[h] \in {"ok", "skipped"} => HasScheduledFile
    BY DEF IInv, TickedMeansFile
  <2>5. pc'[h] = "record" /\ job'[h].out = "failed" /\ job'[h].file_id = job[h].file_id
    BY <2>1, <2>2 DEF IInv, TypeOK, Job
  <2>6. PlaceOK(h)
    BY DEF IInv, PlacesOK
  <2>7. ~job[h].file_id
      BY <2>6 DEF PlaceOK, Owning
  <2>8. PlaceOK(h)'
    BY <1>1, <2>5, <2>6, <2>7 DEF PlaceOK, FileBy, Recorded, Polls, Owning
  <2> HIDE DEF locals
  <2> QED
    BY <2>1, <2>2, <2>3, <2>4, <2>8, LocalStep
<1>2. CASE h \notin Sched
  BY <1>2, ReplyStep DEF GenerationFails, Finish, Replies
<1> QED
  BY <1>1, <1>2

-----------------------------------------------------------------------------
(* The actions of a request *)

LEMMA PollSteps ==
    ASSUME IInv, NEW h \in Generators, UNCHANGED <<report, read>>,
           Peek(h) \/ PollDetail(h) \/ PollRevenue(h) \/ ReadClaim(h) \/ PreludeFails(h)
    PROVE  IInv'
<1>1. faults' \in 0..MaxFaults
  BY FaultType DEF Peek, PollDetail, PollRevenue, ReadClaim, PreludeFails
<1>2. UNCHANGED <<run, data, drive>>
  BY DEF Peek, PollDetail, PollRevenue, ReadClaim, PreludeFails
<1>3. ASSUME NEW place \in Places, Continue(h, place)
      PROVE  pc'[h] = place /\ job'[h] = job[h]
  BY <1>3 DEF IInv, TypeOK, Continue, Goto
<1>4. PlaceOK(h)
  BY DEF IInv, PlacesOK
<1>5. CASE Peek(h)
  <2>1. CASE run.status = "succeeded"
    BY <1>1, <1>2, <1>5, <2>1, ReplyStep DEF Peek, Replies, IInv, TickedMeansFile
  <2>2. CASE run.status # "succeeded" /\ Recorded
    BY <1>1, <1>2, <1>5, <2>2, ReplyStep DEF Peek, Replies
  <2>3. CASE run.status # "succeeded" /\ ~Recorded
    <3>1. Continue(h, "pollDetail") /\ "pollDetail" \in Places
      BY <1>5, <2>3 DEF Peek, Places
    <3>2. pc'[h] = "pollDetail" /\ job'[h] = job[h]
      BY <1>3, <3>1
    <3>3. PlaceOK(h)'
      BY <1>2, <1>4, <1>5, <2>3, <3>2
         DEF PlaceOK, Peek, FileBy, Recorded, Polls, HasScheduledFile, Owning
    <3> QED
      BY <1>1, <1>2, <3>1, <3>3, ContinueStep
  <2> QED
    BY <2>1, <2>2, <2>3
<1>6. CASE PollDetail(h)
  <2>1. CASE detail
    <3>1. Continue(h, "pollRevenue") /\ "pollRevenue" \in Places
      BY <1>6, <2>1 DEF PollDetail, Places
    <3>2. pc'[h] = "pollRevenue" /\ job'[h] = job[h]
      BY <1>3, <3>1
    <3>3. PlaceOK(h)'
      BY <1>2, <1>4, <1>6, <2>1, <3>2
         DEF PlaceOK, PollDetail, FileBy, Recorded, Polls, HasScheduledFile, Owning, data
    <3> QED
      BY <1>1, <1>2, <3>1, <3>3, ContinueStep
  <2>2. CASE ~detail
    BY <1>1, <1>2, <1>6, <2>2, ReplyStep DEF PollDetail, Replies
  <2> QED
    BY <2>1, <2>2
<1>7. CASE PollRevenue(h)
  <2>1. CASE confirmed.amount
    <3>1. Continue(h, "claim") /\ "claim" \in Places
      BY <1>7, <2>1 DEF PollRevenue, Places
    <3>2. pc'[h] = "claim" /\ job'[h] = job[h]
      BY <1>3, <3>1
    <3>3. sheet.edit > 0 /\ detail
      BY <1>4, <1>7, <2>1 DEF PollRevenue, PlaceOK, IInv, TypeOK, Cell, DataOK, CellOK
    <3>4. PlaceOK(h)'
      BY <1>2, <1>4, <1>7, <3>2, <3>3
         DEF PlaceOK, PollRevenue, FileBy, Recorded, Polls, HasScheduledFile, Owning, data
    <3> QED
      BY <1>1, <1>2, <3>1, <3>4, ContinueStep
  <2>2. CASE ~confirmed.amount
    BY <1>1, <1>2, <1>7, <2>2, ReplyStep DEF PollRevenue, Replies
  <2> QED
    BY <2>1, <2>2
<1>8. CASE ReadClaim(h)
  <2>1. CASE Claimable
    <3>1. Continue(h, "claimed") /\ "claimed" \in Places
      BY <1>8, <2>1 DEF ReadClaim, Places
    <3>2. pc'[h] = "claimed" /\ job'[h] = job[h]
      BY <1>3, <3>1
    <3>3. ~Recorded
      BY <2>1 DEF Claimable, Recorded
    <3>4. PlaceOK(h)'
      BY <1>2, <1>4, <1>8, <3>2, <3>3
         DEF PlaceOK, ReadClaim, FileBy, Recorded, Polls, HasScheduledFile, Owning, data
    <3> QED
      BY <1>1, <1>2, <3>1, <3>4, ContinueStep
  <2>2. CASE ~Claimable
    BY <1>1, <1>2, <1>8, <2>2, ReplyStep DEF ReadClaim, Replies
  <2> QED
    BY <2>1, <2>2
<1>9. CASE PreludeFails(h)
  BY <1>1, <1>2, <1>9, ReplyStep DEF PreludeFails, Replies
<1> QED
  BY <1>5, <1>6, <1>7, <1>8, <1>9

(***************************************************************************)
(* The claim: from here on there is a record, for good.                    *)
(***************************************************************************)
LEMMA WriteClaimStep ==
    ASSUME IInv, NEW h \in Generators, UNCHANGED <<report, read>>, WriteClaim(h)
    PROVE  IInv'
<1>1. FirstStep \in Places /\ FirstStep \in {"detail", "fetch"}
  BY DEF FirstStep, Places, Owning
<1>2. /\ pc' = [pc EXCEPT ![h] = FirstStep] /\ UNCHANGED <<job, resp, data, drive, faults>>
      /\ run' = [status |-> "running", has_drive_file |-> FALSE]
  BY DEF WriteClaim, Continue, Goto, NoFault
<1>3. TypeOK'
  BY <1>1, <1>2 DEF IInv, TypeOK, Statuses, data
<1>4. DataOK'
  BY <1>2 DEF IInv, DataOK, CellOK, data
<1>5. OncePerSlot' /\ FilesAreReal'
  BY <1>2 DEF IInv, OncePerSlot, FilesAreReal, Polls, data
<1>6. PlaceOK(h) /\ pc[h] = "claimed"
  BY DEF IInv, PlacesOK, WriteClaim
<1>7. NothingBeforeReady'
  BY <1>2, <1>6 DEF PlaceOK, NothingBeforeReady, Polls, data
<1>8. TickedMeansFile'
  BY <1>2 DEF IInv, TickedMeansFile, HasScheduledFile
<1>9. ASSUME NEW g \in Generators PROVE PlaceOK(g)'
  <2>1. PlaceOK(g)
    BY DEF IInv, PlacesOK
  <2>2. Recorded'
    BY <1>2 DEF Recorded
  <2>3. job' = job /\ drive' = drive /\ detail' = detail /\ sheet' = sheet
        /\ report' = report
    BY <1>2 DEF data
  <2>4. CASE g = h
    <3>1. pc'[g] = FirstStep
      BY <1>2, <2>4 DEF IInv, TypeOK
    <3>2. pc'[g] = "fetch" => ~Polls
      BY <3>1 DEF FirstStep
    <3>3. g \in Sched => ~FileBy(g)
      BY <1>6, <2>4 DEF PlaceOK
    <3> QED
      BY <1>1, <1>6, <2>1, <2>2, <2>3, <2>4, <3>1, <3>2, <3>3
         DEF PlaceOK, FileBy, Polls, HasScheduledFile, Owning
  <2>5. CASE g # h
    <3>1. pc'[g] = pc[g]
      BY <1>2, <2>5 DEF IInv, TypeOK
    <3> QED
      BY <2>1, <2>2, <2>3, <3>1 DEF PlaceOK, FileBy, Polls, HasScheduledFile, CellOK
  <2> QED
    BY <2>4, <2>5
<1> QED
  BY <1>3, <1>4, <1>5, <1>7, <1>8, <1>9 DEF IInv, PlacesOK

LEMMA CrashStep ==
    ASSUME IInv, NEW h \in Generators, UNCHANGED <<report, read>>, Crash(h)
    PROVE  IInv'
<1>1. faults' \in 0..MaxFaults
  BY FaultType DEF Crash
<1> QED
  BY <1>1, ReplyStep DEF Crash, Replies

LEMMA StartManualStep ==
    ASSUME IInv, NEW h \in Generators, UNCHANGED <<report, read>>, StartManual(h)
    PROVE  IInv'
<1>1. faults' \in 0..MaxFaults
  BY FaultType DEF StartManual
<1>2. FirstStep \in Places /\ FirstStep \in {"detail", "fetch"}
  BY DEF FirstStep, Places, Owning
<1>3. Continue(h, FirstStep) /\ pc'[h] = FirstStep /\ job' = job
      /\ UNCHANGED <<run, data, drive>>
  BY DEF StartManual, IInv, TypeOK, Continue, Goto
<1>4. pc'[h] = "fetch" => ~Polls
  BY <1>3 DEF FirstStep
<1>5. h \notin Sched /\ PlaceOK(h) /\ pc[h] = "idle"
  BY DisjointRequests DEF StartManual, IInv, PlacesOK
<1>6. PlaceOK(h)'
  BY <1>2, <1>3, <1>4, <1>5 DEF PlaceOK, Polls, HasScheduledFile
<1> QED
  BY <1>1, <1>2, <1>3, <1>6, ContinueStep

LEMMA GenerationSteps ==
    ASSUME IInv, NEW h \in Generators, UNCHANGED <<report, read>>,
           CheckDetail(h) \/ CheckRevenue(h) \/ FetchAndBuild(h) \/ WorkFails(h)
    PROVE  IInv'
<1>1. faults' \in 0..MaxFaults
  BY FaultType DEF CheckDetail, CheckRevenue, FetchAndBuild, WorkFails
<1>2. UNCHANGED <<run, data, drive>>
  BY DEF CheckDetail, CheckRevenue, FetchAndBuild, WorkFails
<1>3. PlaceOK(h) /\ job[h] \in Job /\ resp[h] \in Replies
  BY DEF IInv, PlacesOK, TypeOK
<1>4. h \in Sched /\ resp[h] \in {"ok", "skipped"} => HasScheduledFile
  BY DEF IInv, TickedMeansFile
<1>5. resp' = resp => resp' = [resp EXCEPT ![h] = resp[h]]
  BY DEF IInv, TypeOK
<1>6. CASE CheckDetail(h)
  <2>1. CASE detail
    <3>1. Continue(h, "revenue") /\ "revenue" \in Places
      BY <1>6, <2>1 DEF CheckDetail, Places, Owning
    <3>2. pc'[h] = "revenue" /\ job'[h] = job[h]
      BY <3>1 DEF IInv, TypeOK, Continue, Goto
    <3>3. PlaceOK(h)'
      BY <1>2, <1>3, <1>6, <2>1, <3>2
         DEF PlaceOK, CheckDetail, FileBy, Recorded, Polls, HasScheduledFile, Owning, data
    <3> QED
      BY <1>1, <1>2, <3>1, <3>3, ContinueStep
  <2>2. CASE ~detail
    BY <1>1, <1>2, <1>6, <2>2, FailStep DEF CheckDetail, Owning
  <2> QED
    BY <2>1, <2>2
<1>7. CASE CheckRevenue(h)
  <2>1. CASE confirmed.amount
    <3> DEFINE locals == [job[h] EXCEPT !.revenue = confirmed]
    <3>1. /\ pc' = [pc EXCEPT ![h] = "fetch"] /\ UNCHANGED resp
          /\ job' = [job EXCEPT ![h] = locals]
      BY <1>7, <2>1 DEF CheckRevenue, Goto
    <3>2. confirmed \in Cell /\ CellOK(confirmed) /\ "fetch" \in Places
      BY DEF IInv, TypeOK, DataOK, Places, Owning
    <3>3. locals \in Job
      BY <1>3, <3>2 DEF Job
    <3>4. /\ pc'[h] = "fetch"
          /\ job'[h].revenue = confirmed
          /\ job'[h].file_id = job[h].file_id /\ job'[h].out = job[h].out
      BY <1>3, <3>1 DEF IInv, TypeOK, Job
    <3>5. PlaceOK(h)'
      BY <1>2, <1>3, <1>7, <2>1, <3>2, <3>4
         DEF PlaceOK, CheckRevenue, FileBy, Recorded, Polls, HasScheduledFile, Owning, data,
             CellOK
    <3> HIDE DEF locals
    <3> QED
      BY <1>1, <1>2, <1>3, <1>4, <1>5, <3>1, <3>2, <3>3, <3>5, LocalStep
  <2>2. CASE ~confirmed.amount
    BY <1>1, <1>2, <1>7, <2>2, FailStep DEF CheckRevenue, Owning
  <2> QED
    BY <2>1, <2>2
<1>8. CASE FetchAndBuild(h)
  <2>1. CASE report = "thermae-romae" /\ ~detail
    BY <1>1, <1>2, <1>8, <2>1, FailStep DEF FetchAndBuild, Owning
  <2>2. CASE ~(report = "thermae-romae" /\ ~detail)
    <3> DEFINE locals == [job[h] EXCEPT !.full = detail]
    <3>1. /\ pc' = [pc EXCEPT ![h] = "upload"] /\ UNCHANGED resp
          /\ job' = [job EXCEPT ![h] = locals]
      BY <1>8, <2>2 DEF FetchAndBuild, Goto
    <3>2. locals \in Job /\ "upload" \in Places
      BY <1>3 DEF IInv, TypeOK, Job, Places, Owning
    <3>3. /\ pc'[h] = "upload"
          /\ job'[h].full = detail /\ job'[h].revenue = job[h].revenue
          /\ job'[h].file_id = job[h].file_id /\ job'[h].out = job[h].out
      BY <1>3, <3>1 DEF IInv, TypeOK, Job
    <3>4. report # "plus-browser-point-sales" => detail
      BY <1>3, <1>8, <2>2 DEF PlaceOK, FetchAndBuild, Polls, IInv, TypeOK, Reports
    <3>5. PlaceOK(h)'
      BY <1>2, <1>3, <1>8, <3>3, <3>4
         DEF PlaceOK, FetchAndBuild, FileBy, Recorded, Polls, HasScheduledFile, Owning,
             data, CellOK
    <3> HIDE DEF locals
    <3> QED
      BY <1>1, <1>2, <1>3, <1>4, <1>5, <3>1, <3>2, <3>5, LocalStep
  <2> QED
    BY <2>1, <2>2
<1>9. CASE WorkFails(h)
  BY <1>1, <1>2, <1>9, FailStep DEF WorkFails, Owning
<1> QED
  BY <1>6, <1>7, <1>8, <1>9

-----------------------------------------------------------------------------
(* The upload *)

(***************************************************************************)
(* A new file keeps everything that is said of files, if its slot had none.*)
(***************************************************************************)
LEMMA CreatedFile ==
    ASSUME IInv, NEW h \in Generators, pc[h] = "upload", Created(h),
           UNCHANGED <<report, run, data, read>>
    PROVE  /\ drive' \in Seq(File)
           /\ OncePerSlot'
           /\ FilesAreReal'
           /\ HasScheduledFile => HasScheduledFile'
           /\ h \in Sched => HasScheduledFile' /\ Recorded
           /\ \A g \in Generators : g # h => (FileBy(g)' <=> FileBy(g))
<1> DEFINE f == [by |-> h, revenue |-> job[h].revenue, full |-> job[h].full]
<1>1. drive \in Seq(File) /\ job[h] \in Job /\ PlaceOK(h)
  BY DEF IInv, TypeOK, PlacesOK
<1>2. f \in File /\ f.by = h
  BY <1>1 DEF File, Job
<1>3. drive' = Append(drive, f)
  BY DEF Created
<1>4. /\ drive' \in Seq(File)
      /\ Len(drive') = Len(drive) + 1
      /\ DOMAIN drive' = 1..(Len(drive) + 1) /\ DOMAIN drive = 1..Len(drive)
      /\ Len(drive) \in Nat
      /\ drive'[Len(drive) + 1] = f
      /\ \A i \in 1..Len(drive) : drive'[i] = drive[i]
  <2> HIDE DEF f
  <2> QED BY <1>1, <1>2, <1>3
<1>5. h \in Sched => ~FileBy(h) /\ Recorded
  BY <1>1 DEF PlaceOK, Owning
<1>6. OncePerSlot'
  <2> SUFFICES ASSUME NEW i \in DOMAIN drive', NEW j \in DOMAIN drive',
                      drive'[i].by \in Sched, drive'[i].by = drive'[j].by
               PROVE  i = j
    BY DEF OncePerSlot
  <2>1. CASE i \in 1..Len(drive) /\ j \in 1..Len(drive)
    BY <1>4, <2>1 DEF IInv, OncePerSlot
  <2>2. CASE i = Len(drive) + 1 /\ j \in 1..Len(drive)
    BY <1>2, <1>4, <1>5, <2>2 DEF FileBy
  <2>3. CASE i \in 1..Len(drive) /\ j = Len(drive) + 1
    BY <1>2, <1>4, <1>5, <2>3 DEF FileBy
  <2> HIDE DEF f
  <2> QED
    BY <1>4, <2>1, <2>2, <2>3
<1>7. FilesAreReal'
  <2> SUFFICES ASSUME NEW i \in DOMAIN drive'
               PROVE  /\ report # "plus-browser-point-sales" => drive'[i].full
                      /\ Polls => /\ drive'[i].revenue.amount
                                  /\ drive'[i].revenue.edit \in 1..sheet.edit
    BY DEF FilesAreReal, Polls, data
  <2>1. CASE i \in 1..Len(drive)
    BY <1>4, <2>1 DEF IInv, FilesAreReal
  <2>2. CASE i = Len(drive) + 1
    <3>1. drive'[i].full = job[h].full /\ drive'[i].revenue = job[h].revenue
      BY <1>4, <2>2
    <3>2. job[h].revenue \in Cell /\ sheet \in Cell
      BY <1>1 DEF Job, IInv, TypeOK
    <3> QED
      BY <1>1, <3>1, <3>2 DEF PlaceOK, CellOK, Cell
  <2> HIDE DEF f
  <2> QED
    BY <1>4, <2>1, <2>2
<1>8. HasScheduledFile => HasScheduledFile'
  <2> HIDE DEF f
  <2> QED BY <1>4 DEF HasScheduledFile
<1>9. h \in Sched => HasScheduledFile'
  <2> HIDE DEF f
  <2> QED BY <1>2, <1>4 DEF HasScheduledFile
<1>10. \A g \in Generators : g # h => (FileBy(g)' <=> FileBy(g))
  <2> HIDE DEF f
  <2> QED BY <1>2, <1>4 DEF FileBy
<1> QED
  BY <1>4, <1>5, <1>6, <1>7, <1>8, <1>9, <1>10

LEMMA UploadToDriveStep ==
    ASSUME IInv, NEW h \in Generators, UNCHANGED <<report, read>>, UploadToDrive(h)
    PROVE  IInv'
<1>1. faults' \in 0..MaxFaults
  BY FaultType DEF UploadToDrive
<1>2. UNCHANGED <<run, data>> /\ pc[h] = "upload" /\ Created(h)
  BY DEF UploadToDrive
<1>3. /\ drive' \in Seq(File) /\ OncePerSlot' /\ FilesAreReal'
      /\ HasScheduledFile => HasScheduledFile'
      /\ h \in Sched => HasScheduledFile' /\ Recorded
      /\ \A g \in Generators : g # h => (FileBy(g)' <=> FileBy(g))
  BY <1>2, CreatedFile
<1>4. PICK known \in BOOLEAN :
          IF h \in Sched
          THEN /\ Goto(h, "record")
               /\ job' = [job EXCEPT ![h].out = "succeeded", ![h].file_id = known]
               /\ UNCHANGED resp
          ELSE Reply(h, "ok")
  BY DEF UploadToDrive
<1>5. DataOK' /\ NothingBeforeReady'
  BY <1>2 DEF IInv, DataOK, CellOK, NothingBeforeReady, Polls, Recorded, data
<1>6. pc \in [Generators -> Places] /\ job \in [Generators -> Job]
      /\ resp \in [Generators -> Replies] /\ job[h] \in Job /\ PlaceOK(h)
  BY DEF IInv, TypeOK, PlacesOK
<1>7. CASE h \in Sched
  <2> DEFINE locals == [job[h] EXCEPT !.out = "succeeded", !.file_id = known]
  <2>1. /\ pc' = [pc EXCEPT ![h] = "record"] /\ UNCHANGED resp
        /\ job' = [job EXCEPT ![h] = locals]
    BY <1>4, <1>7 DEF Goto
  <2>2. locals \in Job /\ locals.out = "succeeded" /\ "record" \in Places
    BY <1>6 DEF Job, Statuses, Places, Owning
  <2> HIDE DEF locals
  <2>3. pc'[h] = "record" /\ job'[h] = locals
    BY <1>6, <2>1
  <2>4. TypeOK'
    BY <1>1, <1>2, <1>3, <2>1, <2>2 DEF IInv, TypeOK, data
  <2>5. PlaceOK(h)'
    BY <1>2, <1>3, <1>7, <2>2, <2>3 DEF PlaceOK, Owning, Recorded
  <2>6. ASSUME NEW g \in Generators, g # h PROVE PlaceOK(g)'
    <3>1. pc'[g] = pc[g] /\ job'[g] = job[g] /\ PlaceOK(g)
      BY <1>6, <2>1, <2>6 DEF IInv, PlacesOK
    <3> QED
      BY <1>2, <1>3, <2>6, <3>1 DEF PlaceOK, Recorded, Polls, CellOK, data
  <2>7. TickedMeansFile'
    BY <1>3, <1>7 DEF TickedMeansFile
  <2> QED
    BY <1>3, <1>5, <2>4, <2>5, <2>6, <2>7 DEF IInv, PlacesOK
<1>8. CASE h \notin Sched
  <2>1. /\ pc' = [pc EXCEPT ![h] = "idle"]
        /\ job' = [job EXCEPT ![h] = NoJob]
        /\ resp' = [resp EXCEPT ![h] = "ok"]
    BY <1>4, <1>8 DEF Reply, Goto
  <2>2. NoJob \in Job /\ "idle" \in Places /\ "ok" \in Replies
    BY DEF NoJob, Job, Statuses, EmptyCell, Cell, Places, Replies
  <2>3. pc'[h] = "idle" /\ job'[h] = NoJob
    BY <1>6, <2>1
  <2>4. TypeOK'
    BY <1>1, <1>2, <1>3, <2>1, <2>2 DEF IInv, TypeOK, data
  <2>5. PlaceOK(h)'
    BY <1>8, <2>3 DEF PlaceOK, NoJob
  <2>6. ASSUME NEW g \in Generators, g # h PROVE PlaceOK(g)'
    <3>1. pc'[g] = pc[g] /\ job'[g] = job[g] /\ PlaceOK(g)
      BY <1>6, <2>1, <2>6 DEF IInv, PlacesOK
    <3> QED
      BY <1>2, <1>3, <2>6, <3>1 DEF PlaceOK, Recorded, Polls, CellOK, data
  <2>7. \A s \in Sched : resp'[s] = resp[s]
    BY <1>6, <1>8, <2>1
  <2>8. TickedMeansFile'
    BY <1>2, <1>3, <2>7 DEF IInv, TickedMeansFile
  <2> QED
    BY <1>3, <1>5, <2>4, <2>5, <2>6, <2>8 DEF IInv, PlacesOK
<1> QED
  BY <1>7, <1>8

(***************************************************************************)
(* The upload raises, the file created or not.                             *)
(***************************************************************************)
LEMMA UploadFailsStep ==
    ASSUME IInv, NEW h \in Generators, UNCHANGED <<report, read>>, UploadFails(h)
    PROVE  IInv'
<1>1. faults' \in 0..MaxFaults
  BY FaultType DEF UploadFails
<1>2. UNCHANGED <<run, data>> /\ pc[h] = "upload" /\ GenerationFails(h)
  BY DEF UploadFails
<1>3. CASE UNCHANGED drive
  BY <1>1, <1>2, <1>3, FailStep DEF Owning
<1>4. CASE Created(h)
  <2>1. /\ drive' \in Seq(File) /\ OncePerSlot' /\ FilesAreReal'
        /\ HasScheduledFile => HasScheduledFile'
        /\ h \in Sched => HasScheduledFile' /\ Recorded
        /\ \A g \in Generators : g # h => (FileBy(g)' <=> FileBy(g))
    BY <1>2, <1>4, CreatedFile
  <2>2. DataOK' /\ NothingBeforeReady'
    BY <1>2 DEF IInv, DataOK, CellOK, NothingBeforeReady, Polls, Recorded, data
  <2>3. pc \in [Generators -> Places] /\ job \in [Generators -> Job]
        /\ resp \in [Generators -> Replies] /\ job[h] \in Job /\ PlaceOK(h)
    BY DEF IInv, TypeOK, PlacesOK
  <2>4. PICK place \in {"idle", "record"}, locals \in Job, code \in Replies :
            /\ pc' = [pc EXCEPT ![h] = place]
            /\ job' = [job EXCEPT ![h] = locals]
            /\ resp' = [resp EXCEPT ![h] = code]
            /\ h \notin Sched => place = "idle" /\ locals = NoJob
            /\ h \in Sched =>
                  /\ place = "record" /\ code = resp[h]
                  /\ locals.out = "failed" /\ locals.file_id = job[h].file_id
    <3>1. CASE h \in Sched
      <4> DEFINE l == [job[h] EXCEPT !.out = "failed"]
      <4>1. l \in Job /\ l.out = "failed" /\ l.file_id = job[h].file_id
        BY <2>3 DEF Job, Statuses
      <4>2. /\ pc' = [pc EXCEPT ![h] = "record"]
            /\ job' = [job EXCEPT ![h] = l]
            /\ resp' = [resp EXCEPT ![h] = resp[h]]
        BY <1>2, <2>3, <3>1 DEF GenerationFails, Finish, Goto
      <4>3. resp[h] \in Replies
        BY <2>3
      <4> HIDE DEF l
      <4> QED
        BY <3>1, <4>1, <4>2, <4>3
    <3>2. CASE h \notin Sched
      BY <1>2, <3>2
         DEF GenerationFails, Finish, Reply, Goto, NoJob, Job, Statuses, EmptyCell, Cell, Replies
    <3> QED
      BY <3>1, <3>2
  <2>5. pc'[h] = place /\ job'[h] = locals
    BY <2>3, <2>4
  <2>6. TypeOK'
    BY <1>1, <1>2, <2>1, <2>4 DEF IInv, TypeOK, Places, Owning, data
  <2>7. ~job[h].file_id
    BY <1>2, <2>3 DEF PlaceOK
  <2>8. PlaceOK(h)'
    BY <1>2, <2>1, <2>4, <2>5, <2>7 DEF PlaceOK, NoJob, Recorded, Owning
  <2>9. ASSUME NEW g \in Generators, g # h PROVE PlaceOK(g)'
    <3>1. pc'[g] = pc[g] /\ job'[g] = job[g] /\ PlaceOK(g)
      BY <2>3, <2>4, <2>9 DEF IInv, PlacesOK
    <3> QED
      BY <1>2, <2>1, <2>9, <3>1 DEF PlaceOK, Recorded, Polls, CellOK, data
  <2>10. \A s \in Sched : resp'[s] = resp[s]
    BY <2>3, <2>4
  <2>11. TickedMeansFile'
    BY <1>2, <2>1, <2>10 DEF IInv, TickedMeansFile
  <2> QED
    BY <2>1, <2>2, <2>6, <2>8, <2>9, <2>11 DEF IInv, PlacesOK
<1> QED
  BY <1>3, <1>4 DEF UploadFails

-----------------------------------------------------------------------------
(* The record of the result *)

LEMMA RecordStep ==
    ASSUME IInv, NEW h \in Generators, UNCHANGED <<report, read>>, Record(h)
    PROVE  IInv'
<1>1. pc[h] = "record" /\ job[h] \in Job /\ PlaceOK(h)
  BY DEF Record, IInv, TypeOK, PlacesOK
<1>2. job[h].out \in Statuses \ {"none"} /\ (job[h].out = "succeeded" => HasScheduledFile)
  BY <1>1 DEF PlaceOK, Job
<1>3. /\ run' = [status |-> job[h].out,
                 has_drive_file |-> IF job[h].out = "succeeded" THEN job[h].file_id
                                    ELSE run.has_drive_file]
      /\ pc' = [pc EXCEPT ![h] = "idle"]
      /\ job' = [job EXCEPT ![h] = NoJob]
      /\ resp' = [resp EXCEPT ![h] = ReplyFor(job[h].out)]
      /\ UNCHANGED <<data, drive, faults>>
  BY DEF Record, Reply, Goto, NoFault
<1>4. run' \in [status : Statuses, has_drive_file : BOOLEAN] /\ Recorded'
  BY <1>1, <1>2, <1>3 DEF IInv, TypeOK, Job, Recorded
<1>5. TypeOK'
  BY <1>3, <1>4
     DEF IInv, TypeOK, data, NoJob, Job, Statuses, EmptyCell, Cell, Places, ReplyFor, Replies
<1>6. DataOK' /\ OncePerSlot' /\ FilesAreReal'
  BY <1>3 DEF IInv, DataOK, CellOK, OncePerSlot, FilesAreReal, Polls, data
<1>7. ASSUME NEW g \in Generators PROVE PlaceOK(g)'
  <2>1. PlaceOK(g)
    BY DEF IInv, PlacesOK
  <2>2. CASE g = h
    <3>1. pc'[g] = "idle" /\ job'[g] = NoJob
      BY <1>3, <2>2 DEF IInv, TypeOK
    <3> QED
      BY <1>4, <3>1 DEF PlaceOK, NoJob, Owning
  <2>3. CASE g # h
    <3>1. pc'[g] = pc[g] /\ job'[g] = job[g]
      BY <1>3, <2>3 DEF IInv, TypeOK
    <3> QED
      BY <1>3, <1>4, <2>1, <3>1 DEF PlaceOK, FileBy, Polls, HasScheduledFile, CellOK, data
  <2> QED
    BY <2>2, <2>3
<1>8. NothingBeforeReady'
  BY <1>1, <1>3 DEF IInv, PlaceOK, NothingBeforeReady, Polls, Owning, data
<1>9. TickedMeansFile'
  <2>1. HasScheduledFile' <=> HasScheduledFile
    BY <1>3 DEF HasScheduledFile
  <2>2. run'.status = "succeeded" \/ run'.has_drive_file => HasScheduledFile
    BY <1>2, <1>3 DEF IInv, TickedMeansFile
  <2>3. ASSUME NEW s \in Sched, resp'[s] \in {"ok", "skipped"} PROVE HasScheduledFile
    BY <1>2, <1>3, <2>3 DEF IInv, TypeOK, TickedMeansFile, ReplyFor, Generators
  <2> QED
    BY <2>1, <2>2, <2>3 DEF TickedMeansFile
<1> QED
  BY <1>5, <1>6, <1>7, <1>8, <1>9 DEF IInv, PlacesOK

LEMMA RecordFailsStep ==
    ASSUME IInv, NEW h \in Generators, UNCHANGED <<report, read>>, RecordFails(h)
    PROVE  IInv'
<1>1. faults' \in 0..MaxFaults
  BY FaultType DEF RecordFails
<1> QED
  BY <1>1, ReplyStep DEF RecordFails, Replies

-----------------------------------------------------------------------------
(* The other actors *)

(***************************************************************************)
(* Whatever is loaded, edited or merged: nothing that a check established  *)
(* is taken back, since an amount still comes from an edit and the number  *)
(* of edits only grows.                                                    *)
(***************************************************************************)
LEMMA OthersStep ==
    ASSUME IInv, UNCHANGED <<report, run, drive, generator>>,
           TypeOK', DataOK',
           detail => detail', sheet'.edit >= sheet.edit
    PROVE  IInv'
<1>1. sheet.edit \in Nat /\ sheet'.edit \in Nat
  BY DEF IInv, TypeOK, Cell
<1>2. ASSUME NEW h \in Generators PROVE PlaceOK(h)'
  <2>1. PlaceOK(h) /\ job[h].revenue.edit \in Nat
    BY DEF IInv, PlacesOK, TypeOK, Job, Cell
  <2> QED
    BY <1>1, <2>1
       DEF PlaceOK, CellOK, FileBy, Recorded, Polls, HasScheduledFile, Owning, generator
<1>3. OncePerSlot' /\ TickedMeansFile'
  BY DEF IInv, OncePerSlot, TickedMeansFile, HasScheduledFile, generator
<1>4. NothingBeforeReady'
  BY <1>1 DEF IInv, NothingBeforeReady, Polls, Recorded
<1>5. FilesAreReal'
  BY <1>1 DEF IInv, FilesAreReal, Polls
<1> QED
  BY <1>2, <1>3, <1>4, <1>5 DEF IInv, PlacesOK

LEMMA SynchroniseStep ==
    ASSUME IInv, NEW y \in Sync, UNCHANGED report, Synchronise(y)
    PROVE  IInv'
<1>1. read[y] \in Read /\ CellOK(read[y].cell) /\ sheet \in Cell /\ CellOK(sheet)
  BY DEF IInv, TypeOK, DataOK
<1>2. NothingRead \in Read /\ CellOK(NothingRead.cell)
  BY <1>1 DEF NothingRead, Read, EmptyCell, Cell, CellOK
<1>3. UNCHANGED <<run, drive, generator, detail, sheet, parses>>
  BY DEF Synchronise, ReadSheet, Merge, SyncFails, data
<1>4. CASE ReadSheet(y)
  <2> DEFINE r == [held |-> TRUE, cell |-> sheet]
  <2>1. r \in Read /\ CellOK(r.cell)
    BY <1>1 DEF Read
  <2>2. read' = [read EXCEPT ![y] = r] /\ UNCHANGED <<confirmed, faults>>
    BY <1>4 DEF ReadSheet, data
  <2> HIDE DEF r
  <2>3. TypeOK' /\ DataOK'
    BY <1>3, <2>1, <2>2 DEF IInv, TypeOK, DataOK, CellOK, generator
  <2> QED
    BY <1>1, <1>3, <2>3, OthersStep DEF Cell
<1>5. CASE Merge(y)
  <2>1. confirmed' = read[y].cell /\ read' = [read EXCEPT ![y] = NothingRead]
        /\ UNCHANGED faults
    BY <1>5 DEF Merge, Merged
  <2>2. read[y].cell \in Cell
    BY <1>1 DEF Read
  <2>3. TypeOK' /\ DataOK'
    BY <1>1, <1>2, <1>3, <2>1, <2>2 DEF IInv, TypeOK, DataOK, CellOK, generator
  <2> QED
    BY <1>1, <1>3, <2>3, OthersStep DEF Cell
<1>6. CASE SyncFails(y)
  <2>1. read' = [read EXCEPT ![y] = NothingRead] /\ UNCHANGED confirmed
        /\ faults' \in 0..MaxFaults
    BY <1>6, FaultType DEF SyncFails, data
  <2>2. TypeOK' /\ DataOK'
    BY <1>2, <1>3, <2>1 DEF IInv, TypeOK, DataOK, CellOK, generator
  <2> QED
    BY <1>1, <1>3, <2>2, OthersStep DEF Cell
<1> QED
  BY <1>4, <1>5, <1>6 DEF Synchronise

LEMMA EnvironmentStep ==
    ASSUME IInv, UNCHANGED report, LoadDetail \/ EditSheet \/ CorrectSheet
    PROVE  IInv'
<1>1. CASE LoadDetail
  <2>1. TypeOK' /\ DataOK'
    BY <1>1 DEF LoadDetail, IInv, TypeOK, DataOK, CellOK, generator
  <2> QED
    BY <1>1, <2>1, OthersStep DEF LoadDetail, IInv, TypeOK, Cell
<1>2. CASE EditSheet
  <2>1. faults' \in 0..MaxFaults
    BY <1>2, FaultType DEF EditSheet
  <2>2. PICK amount \in BOOLEAN : sheet' = [edit |-> sheet.edit + 1, amount |-> amount]
    BY <1>2 DEF EditSheet
  <2>7. parses' \in BOOLEAN
    BY <1>2 DEF EditSheet
  <2>3. sheet' \in Cell /\ sheet'.edit = sheet.edit + 1 /\ sheet.edit \in Nat
    BY <2>2 DEF IInv, TypeOK, Cell
  <2>4. UNCHANGED <<run, detail, confirmed, drive, generator, read>>
    BY <1>2 DEF EditSheet
  <2>5. TypeOK'
    BY <2>1, <2>3, <2>4, <2>7 DEF IInv, TypeOK, generator
  <2>6. DataOK'
    <3>1. confirmed.edit \in Nat /\ \A y \in Sync : read[y].cell.edit \in Nat
      BY DEF IInv, TypeOK, Cell, Read
    <3> QED
      BY <2>3, <2>4, <3>1 DEF IInv, DataOK, CellOK
  <2> QED
    BY <2>3, <2>4, <2>5, <2>6, OthersStep
<1>3. CASE CorrectSheet
  <2>1. UNCHANGED <<run, detail, sheet, confirmed, drive, faults, generator, read>>
    BY <1>3 DEF CorrectSheet
  <2>2. parses' \in BOOLEAN
    BY <1>3 DEF CorrectSheet
  <2>3. TypeOK' /\ DataOK'
    BY <2>1, <2>2 DEF IInv, TypeOK, DataOK, CellOK, generator
  <2> QED
    BY <2>1, <2>3, OthersStep DEF IInv, TypeOK, Cell
<1> QED
  BY <1>1, <1>2, <1>3

-----------------------------------------------------------------------------
(* The specification *)

LEMMA NextIInv == IInv /\ [Next]_vars => IInv'
<1> SUFFICES ASSUME IInv, [Next]_vars PROVE IInv'
  OBVIOUS
<1>1. ASSUME NEW h \in Generators, UNCHANGED <<report, read>>,
             Call(h) \/ StartManual(h) \/ Step(h) \/ Crash(h)
      PROVE  IInv'
  <2>1. CASE Call(h)
    BY <1>1, <2>1, PollSteps DEF Call
  <2>2. CASE StartManual(h)
    BY <1>1, <2>2, StartManualStep
  <2>3. CASE Step(h)
    BY <1>1, <2>3, PollSteps, WriteClaimStep, GenerationSteps, UploadToDriveStep,
       UploadFailsStep, RecordStep, RecordFailsStep DEF Step
  <2>4. CASE Crash(h)
    BY <1>1, <2>4, CrashStep
  <2> QED
    BY <1>1, <2>1, <2>2, <2>3, <2>4
<1>2. ASSUME NEW y \in Sync, UNCHANGED report, Synchronise(y) PROVE IInv'
  BY <1>2, SynchroniseStep
<1>3. CASE UNCHANGED vars
  <2>1. UNCHANGED <<report, run, drive, generator>> /\ UNCHANGED <<data, faults, read>>
    BY <1>3 DEF vars
  <2>2. TypeOK' /\ DataOK'
    BY <2>1 DEF IInv, TypeOK, DataOK, CellOK, data, generator
  <2> QED
    BY <2>1, <2>2, OthersStep DEF IInv, TypeOK, Cell, data
<1>4. CASE Next
  BY <1>1, <1>2, <1>4, EnvironmentStep DEF Next
<1> QED
  BY <1>3, <1>4

(***************************************************************************)
(* The invariant holds of every behaviour.                                 *)
(***************************************************************************)
THEOREM Invariance == Spec => []IInv
<1>1. Init => IInv
  BY InitIInv
<1>2. IInv /\ [Next]_vars => IInv'
  BY NextIInv
<1> QED
  BY <1>1, <1>2, PTL DEF Spec

(***************************************************************************)
(* Every variable keeps its type: a request is always at one of the calls  *)
(* of its handler.                                                         *)
(***************************************************************************)
THEOREM TypeCorrect == Spec => []TypeOK
<1>1. IInv => TypeOK
  BY DEF IInv
<1> QED
  BY <1>1, Invariance, PTL

(***************************************************************************)
(* The run record does its work for any number of calls: a scheduler slot  *)
(* never leaves two files of one month, whatever fails (_claim_scheduled_  *)
(* run without reclaimable statuses).                                      *)
(***************************************************************************)
THEOREM OneFilePerSlot == Spec => []OncePerSlot
<1>1. IInv => OncePerSlot
  BY DEF IInv
<1> QED
  BY <1>1, Invariance, PTL

(***************************************************************************)
(* A month recorded as succeeded, or answered as done, has a file.         *)
(***************************************************************************)
THEOREM TickedIsCreated == Spec => []TickedMeansFile
<1>1. IInv => TickedMeansFile
  BY DEF IInv
<1> QED
  BY <1>1, Invariance, PTL

(***************************************************************************)
(* A poll of an ad revenue month that is not ready leaves no run record,   *)
(* so it can never block the month.                                        *)
(***************************************************************************)
THEOREM NoTraceBeforeReady == Spec => []NothingBeforeReady
<1>1. IInv => NothingBeforeReady
  BY DEF IInv
<1> QED
  BY <1>1, Invariance, PTL

(***************************************************************************)
(* No file shows rows that were not loaded or an amount nobody entered,    *)
(* however loads, edits and synchronisations interleave with a generation. *)
(***************************************************************************)
THEOREM NoMadeUpFile == Spec => []FilesAreReal
<1>1. IInv => FilesAreReal
  BY DEF IInv
<1> QED
  BY <1>1, Invariance, PTL
=============================================================================
