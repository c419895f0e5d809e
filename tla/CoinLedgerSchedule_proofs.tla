---------------------- MODULE CoinLedgerSchedule_proofs ----------------------
(***************************************************************************)
(* Proofs about CoinLedgerSchedule, for any number of requests, any number *)
(* of files and any faults: the document stays well formed, the scheduled  *)
(* version is added once, every version is backed by its complete file     *)
(* set, done means delivered, and the delivery keeps DeliveryPromise.      *)
(***************************************************************************)
EXTENDS CoinLedgerSchedule, TLAPS

(***************************************************************************)
(* The inductive invariant.  Its parts beyond the properties themselves:   *)
(*   - DocumentOK: the shape of the delivery document;                     *)
(*   - StampsOK: a run stamp has one user, a request or a version;         *)
(*   - UploadsOK: how far the uploads of each request really are;          *)
(*   - PlacesOK: what a request's place says of its locals and of the      *)
(*     delivery.                                                           *)
(***************************************************************************)
Holding == {"gcs", "drive", "trash", "deliver"}

DocumentOK == NewestIsCurrent /\ OneScheduledVersion

StampsOK ==
    /\ \A i \in DOMAIN delivery.versions : delivery.versions[i].files \in 1..stamps
    /\ \A h \in Handlers : pc[h] \in Holding =>
          /\ job[h].stamp \in 1..stamps
          /\ \A i \in DOMAIN delivery.versions : delivery.versions[i].files # job[h].stamp
    /\ \A g, h \in Handlers :
          pc[g] \in Holding /\ pc[h] \in Holding /\ job[g].stamp = job[h].stamp => g = h

UploadOK(h) ==
    /\ pc[h] \notin {"drive", "trash", "deliver", "record"} => job[h].done = 0
    /\ pc[h] \notin {"trash", "record"} => job[h].trashed = 0
    /\ pc[h] \in {"drive", "deliver"} => Stored(job[h].stamp) \subseteq gcs
    /\ pc[h] = "drive" => /\ job[h].done < NumFiles
                          /\ \A n \in 1..job[h].done : <<job[h].stamp, n>> \in drive
    /\ pc[h] = "trash" => job[h].trashed < job[h].done
    /\ pc[h] = "deliver" => Stored(job[h].stamp) \subseteq drive

UploadsOK == \A h \in Handlers : UploadOK(h)

PlaceOK(h) ==
    /\ pc[h] \notin {"idle", "recheck", "fetch"} \cup Holding => h \in Sched
    /\ h \in Sched /\ pc[h] \in Owning => job[h].deliver
    /\ pc[h] = "found" => HasScheduledVersion
    /\ pc[h] = "record" /\ job[h].out = "succeeded" => HasScheduledVersion
    /\ job[h].late => h \in Sched /\ HasScheduledVersion

PlacesOK == \A h \in Handlers : PlaceOK(h)

IInv == /\ TypeOK
        /\ DocumentOK
        /\ StampsOK
        /\ UploadsOK
        /\ PlacesOK
        /\ VersionsBacked
        /\ VersionsDistinct
        /\ DoneMeansDelivered
        /\ NoSecondCopy

-----------------------------------------------------------------------------
(* The delivery document *)

(***************************************************************************)
(* NextVersion continues the numbering of a list numbered 1, 2, ...        *)
(***************************************************************************)
LEMMA NextVersionCounts ==
    ASSUME NEW vs \in Seq(Version),
           \A i \in DOMAIN vs : vs[i].version = i
    PROVE  NextVersion(vs) = Len(vs) + 1
<1>1. CASE vs = <<>>
  BY <1>1 DEF NextVersion
<1>2. CASE vs # <<>>
  <2>1. VersionNumbers(vs) = 1..Len(vs)
    BY DEF VersionNumbers
  <2>2. Len(vs) \in Nat /\ Len(vs) >= 1
    BY <1>2
  <2>3. Max(1..Len(vs)) = Len(vs)
    <3>1. \A y \in 1..Len(vs) : Len(vs) >= y
      BY <2>2
    <3>2. Len(vs) \in 1..Len(vs)
      BY <2>2
    <3>3. \A x \in 1..Len(vs) : (\A y \in 1..Len(vs) : x >= y) => x = Len(vs)
      BY <2>2, <3>2
    <3> QED
      BY <3>1, <3>2, <3>3 DEF Max
  <2> QED
    BY <1>2, <2>1, <2>3 DEF NextVersion
<1> QED
  BY <1>1, <1>2

(***************************************************************************)
(* What one upsert does to a well-formed document: nothing, when its key   *)
(* is there, or one more version at the end.                               *)
(***************************************************************************)
Extended(d, e, files, full, key, token) ==
    /\ e.exists
    /\ e.versions = Append(d.versions, NewVersion(Len(d.versions) + 1, files, full, key))
    /\ e.current_version = Len(d.versions) + 1
    /\ e.token = IF d.exists THEN d.token ELSE token
    /\ e.active = IF d.exists THEN d.active ELSE TRUE

WellFormed(d) ==
    /\ d \in Delivery
    /\ \A i \in DOMAIN d.versions : d.versions[i].version = i
    /\ d.current_version = Len(d.versions)
    /\ d.exists <=> d.versions # <<>>

LEMMA UpsertEffect ==
    ASSUME NEW d, WellFormed(d), NEW files \in Nat, NEW full \in BOOLEAN,
           NEW key \in Keys, NEW token \in Nat
    PROVE  LET e == Upserted(d, files, full, key, token)
           IN  /\ WellFormed(e)
               /\ \/ e = d /\ key = ScheduledKey /\ HasKey(d, key)
                  \/ /\ Extended(d, e, files, full, key, token)
                     /\ key = ScheduledKey => ~HasKey(d, key)
<1> DEFINE e == Upserted(d, files, full, key, token)
           n == Len(d.versions)
           v == NewVersion(n + 1, files, full, key)
<1>0. /\ d.versions \in Seq(Version) /\ n \in Nat
      /\ v \in Version
  BY DEF WellFormed, Delivery, NewVersion, Version
<1>1. CASE ~d.exists
  <2>1. d.versions = <<>> /\ n = 0
    BY <1>1 DEF WellFormed
  <2>2. e = Created(files, full, key, token)
    BY <1>1 DEF Upserted
  <2>3. Extended(d, e, files, full, key, token)
    BY <1>1, <2>1, <2>2 DEF Extended, Created
  <2>4. WellFormed(e)
    BY <1>0, <2>1, <2>2 DEF WellFormed, Created, Delivery, NewVersion, Version
  <2>5. ~HasKey(d, key)
    BY <2>1 DEF HasKey
  <2> QED
    BY <2>3, <2>4, <2>5
<1>2. CASE d.exists /\ IsNoop(d, key)
  BY <1>2 DEF Upserted, IsNoop, Keys, NoKey, ScheduledKey
<1>3. CASE d.exists /\ ~IsNoop(d, key)
  <2>1. NextVersion(d.versions) = n + 1
    BY <1>0, NextVersionCounts DEF WellFormed
  <2>2. e = [d EXCEPT !.versions = Append(d.versions, v), !.current_version = n + 1]
    BY <1>3, <2>1 DEF Upserted, Appended
  <2>3. Append(d.versions, v) \in Seq(Version)
    BY <1>0
  <2>4. WellFormed(e)
    <3>1. e \in Delivery
      <4> HIDE DEF e, v
      <4>1. d \in Delivery
        BY DEF WellFormed
      <4>2. n + 1 \in Nat
        BY <1>0
      <4> DEFINE ws == Append(d.versions, v)
      <4>3. e = [exists |-> d.exists, token |-> d.token, current_version |-> n + 1,
                 active |-> d.active, versions |-> ws]
        <5> HIDE DEF n, ws
        <5> QED BY <2>2, <4>1 DEF Delivery, ws
      <4> QED
        <5> HIDE DEF n, ws
        <5> QED BY <2>3, <4>1, <4>2, <4>3 DEF Delivery, ws
    <3>2. e.versions = Append(d.versions, v) /\ e.current_version = n + 1 /\ e.exists
      BY <1>3, <2>2 DEF WellFormed, Delivery
    <3>3. Len(e.versions) = n + 1 /\ e.versions # <<>>
      <4> HIDE DEF e, v
      <4>1. Len(Append(d.versions, v)) = n + 1
        BY <1>0
      <4>2. n \in Nat
        BY <1>0
      <4>3. Len(e.versions) = n + 1
        <5> HIDE DEF n
        <5> QED BY <3>2, <4>1
      <4>4. e.versions # <<>>
        <5> HIDE DEF n
        <5>1. n + 1 # 0
          BY <4>2
        <5>2. Len(<<>>) = 0
          OBVIOUS
        <5> QED BY <4>3, <5>1, <5>2
      <4> QED
        BY <4>3, <4>4
    <3>4. \A i \in DOMAIN e.versions : e.versions[i].version = i
      BY <1>0, <3>2 DEF WellFormed, NewVersion
    <3> QED
      BY <3>1, <3>2, <3>3, <3>4 DEF WellFormed
  <2>5. Extended(d, e, files, full, key, token)
    BY <1>3, <2>2 DEF Extended, WellFormed, Delivery
  <2>6. key = ScheduledKey => ~HasKey(d, key)
    BY <1>3 DEF IsNoop, NoKey, ScheduledKey
  <2> QED
    BY <2>4, <2>5, <2>6
<1> QED
  BY <1>1, <1>2, <1>3

-----------------------------------------------------------------------------
(* The initial states *)

LEMMA InitIInv == Init => IInv
<1> SUFFICES ASSUME Init PROVE IInv
  OBVIOUS
<1>1. /\ delivery = NoDelivery /\ delivery.versions = <<>> /\ stamps = 0
      /\ pc = [h \in Handlers |-> "idle"] /\ job = [h \in Handlers |-> NoJob]
      /\ resp = [h \in Handlers |-> "none"] /\ run.status = "none"
      /\ delivery \in Delivery
  BY DEF Init, NoDelivery, Delivery
<1>2. TypeOK
  BY <1>1, FaultBudget
     DEF Init, TypeOK, Statuses, Places, Job, NoJob, Replies
<1>3. DocumentOK /\ VersionsBacked /\ VersionsDistinct
  BY <1>1 DEF DocumentOK, NewestIsCurrent, OneScheduledVersion, NoDelivery,
              VersionsBacked, VersionsDistinct
<1>4. StampsOK
  BY <1>1 DEF StampsOK, Holding
<1>5. UploadsOK
  BY <1>1 DEF UploadsOK, UploadOK, NoJob
<1>6. PlacesOK
  BY <1>1 DEF PlacesOK, PlaceOK, Owning, NoJob
<1>7. DoneMeansDelivered /\ NoSecondCopy
  BY <1>1 DEF DoneMeansDelivered, NoSecondCopy, NoJob, Handlers
<1> QED
  BY <1>2, <1>3, <1>4, <1>5, <1>6, <1>7 DEF IInv

-----------------------------------------------------------------------------
(* Steps of a request that leave uploads and documents alone *)

(***************************************************************************)
(* A step of one request that leaves the document alone, takes no stamp,   *)
(* removes only its own files from Drive, and keeps its count of uploads   *)
(* honest.                                                                 *)
(***************************************************************************)
Quiet(h) ==
    /\ UNCHANGED <<stamps, delivery>>
    /\ gcs \subseteq gcs'
    /\ \A f \in drive : f \in drive' \/ (pc[h] \in Holding /\ f[1] = job[h].stamp)
    /\ \A g \in Handlers \ {h} : pc'[g] = pc[g] /\ job'[g] = job[g]
    /\ pc'[h] \in Holding => pc[h] \in Holding /\ job'[h].stamp = job[h].stamp
    /\ UploadOK(h)'

LEMMA QuietStep ==
    ASSUME IInv, NEW h \in Handlers, Quiet(h)
    PROVE  DocumentOK' /\ StampsOK' /\ UploadsOK' /\ VersionsBacked' /\ VersionsDistinct'
<1>1. DocumentOK' /\ VersionsDistinct'
  BY DEF Quiet, IInv, DocumentOK, NewestIsCurrent, OneScheduledVersion, VersionsDistinct
<1>2. StampsOK'
  BY DEF Quiet, IInv, StampsOK
<1>3. ASSUME NEW s \in 1..stamps, Stored(s) \subseteq drive,
             pc[h] \in Holding => s # job[h].stamp
      PROVE  Stored(s) \subseteq drive'
  BY <1>3 DEF Quiet, Stored
<1>4. UploadsOK'
  <2> SUFFICES ASSUME NEW g \in Handlers, g # h PROVE UploadOK(g)'
    BY DEF UploadsOK, Quiet
  <2>1. pc'[g] = pc[g] /\ job'[g] = job[g] /\ UploadOK(g)
    BY DEF Quiet, IInv, UploadsOK
  <2>2. pc[g] \in Holding => /\ job[g].stamp \in 1..stamps
                             /\ pc[h] \in Holding => job[g].stamp # job[h].stamp
    BY DEF IInv, StampsOK
  <2>3. pc[g] = "drive" => \A n \in 1..job[g].done : <<job[g].stamp, n>> \in drive'
    BY <2>1, <2>2 DEF Quiet, UploadOK, Holding
  <2>4. pc[g] = "deliver" => Stored(job[g].stamp) \subseteq drive'
    BY <1>3, <2>1, <2>2 DEF UploadOK, Holding
  <2> QED
    BY <2>1, <2>3, <2>4 DEF Quiet, UploadOK
<1>5. VersionsBacked'
  <2> SUFFICES ASSUME NEW i \in DOMAIN delivery.versions
               PROVE  Stored(delivery.versions[i].files) \subseteq gcs' \cap drive'
    BY DEF VersionsBacked, Quiet, Stored, Files
  <2>1. /\ delivery.versions[i].files \in 1..stamps
        /\ pc[h] \in Holding => delivery.versions[i].files # job[h].stamp
        /\ Stored(delivery.versions[i].files) \subseteq gcs \cap drive
    BY DEF IInv, StampsOK, VersionsBacked
  <2> QED
    BY <1>3, <2>1 DEF Quiet
<1> QED
  BY <1>1, <1>2, <1>4, <1>5

(***************************************************************************)
(* The quiet steps that touch no store at all.                             *)
(***************************************************************************)
Still(h) ==
    /\ UNCHANGED <<storeVars, delivery>>
    /\ \A g \in Handlers \ {h} : pc'[g] = pc[g] /\ job'[g] = job[g]
    /\ pc'[h] \notin Holding
    /\ pc'[h] = "record" \/ (job'[h].done = 0 /\ job'[h].trashed = 0)

LEMMA StillStep ==
    ASSUME IInv, NEW h \in Handlers, Still(h)
    PROVE  DocumentOK' /\ StampsOK' /\ UploadsOK' /\ VersionsBacked' /\ VersionsDistinct'
<1>1. UploadOK(h)'
  BY DEF Still, UploadOK, Holding
<1>2. gcs' = gcs /\ drive' = drive /\ stamps' = stamps /\ delivery' = delivery
  BY DEF Still, storeVars
<1>3. Quiet(h)
  BY <1>1, <1>2 DEF Still, Quiet
<1> QED
  BY <1>3, QuietStep

(***************************************************************************)
(* The replies and the failure of the pipeline, as quiet changes of one    *)
(* request.                                                                *)
(***************************************************************************)
LEMMA ReplyEffect ==
    ASSUME TypeOK, NEW h \in Handlers, NEW code \in Replies, Reply(h, code)
    PROVE  /\ pc' \in [Handlers -> Places] /\ job' \in [Handlers -> Job]
           /\ resp' \in [Handlers -> Replies]
           /\ pc'[h] = "idle" /\ job'[h] = NoJob /\ resp'[h] = code
           /\ \A g \in Handlers \ {h} :
                 pc'[g] = pc[g] /\ job'[g] = job[g] /\ resp'[g] = resp[g]
BY DEF TypeOK, Reply, Goto, Places, Job, NoJob, Statuses

LEMMA FailureEffect ==
    ASSUME TypeOK, NEW h \in Handlers, NEW status \in Statuses, status # "succeeded",
           GenerationFails(h, status)
    PROVE  /\ pc' \in [Handlers -> Places] /\ job' \in [Handlers -> Job]
           /\ resp' \in [Handlers -> Replies]
           /\ pc'[h] \in {"idle", "record"}
           /\ pc'[h] = "idle" => job'[h] = NoJob /\ h \notin Sched /\ resp'[h] = "retry"
           /\ pc'[h] = "record" => /\ h \in Sched
                                   /\ job'[h].out = status
                                   /\ job'[h].deliver = job[h].deliver
                                   /\ job'[h].late = job[h].late
                                   /\ resp' = resp
           /\ \A g \in Handlers \ {h} :
                 pc'[g] = pc[g] /\ job'[g] = job[g] /\ resp'[g] = resp[g]
<1>1. CASE h \in Sched
  BY <1>1 DEF GenerationFails, TypeOK, Goto, Places, Owning, Job
<1>2. CASE h \notin Sched
  <2>1. Reply(h, "retry")
    BY <1>2 DEF GenerationFails
  <2> QED
    BY <1>2, <2>1, ReplyEffect DEF Replies
<1> QED
  BY <1>1, <1>2

LEMMA EndEffect ==
    ASSUME TypeOK, NEW h \in Handlers, GenerationEnds(h)
    PROVE  /\ pc' \in [Handlers -> Places] /\ job' \in [Handlers -> Job]
           /\ resp' \in [Handlers -> Replies]
           /\ pc'[h] \in {"idle", "record"}
           /\ pc'[h] = "idle" => job'[h] = NoJob /\ h \notin Sched
           /\ pc'[h] = "record" => /\ h \in Sched
                                   /\ job'[h].deliver = job[h].deliver
                                   /\ job'[h].late = job[h].late
                                   /\ resp' = resp
           /\ \A g \in Handlers \ {h} :
                 pc'[g] = pc[g] /\ job'[g] = job[g] /\ resp'[g] = resp[g]
<1>1. CASE h \in Sched
  BY <1>1 DEF GenerationEnds, TypeOK, Goto, Places, Owning, Job, Statuses
<1>2. CASE h \notin Sched
  <2>1. Reply(h, "done")
    BY <1>2 DEF GenerationEnds
  <2> QED
    BY <1>2, <2>1, ReplyEffect DEF Replies
<1> QED
  BY <1>1, <1>2

(***************************************************************************)
(* A request that answers, whatever it wrote to the run record, as long as *)
(* "succeeded" is written and "done" answered only for a delivered month.  *)
(***************************************************************************)
LEMMA ReplyStep ==
    ASSUME IInv, NEW h \in Handlers, NEW code \in Replies, Reply(h, code),
           code = "done" /\ h \in Sched => HasScheduledVersion,
           run' \in [status : Statuses, stale : BOOLEAN],
           run'.status = "succeeded" => HasScheduledVersion,
           UNCHANGED <<source, storeVars, delivery>>, faults' \in 0..MaxFaults
    PROVE  IInv'
<1>1. TypeOK
  BY DEF IInv
<1>2. /\ pc' \in [Handlers -> Places] /\ job' \in [Handlers -> Job]
      /\ resp' \in [Handlers -> Replies]
      /\ pc'[h] = "idle" /\ job'[h] = NoJob /\ resp'[h] = code
      /\ \A g \in Handlers \ {h} :
            pc'[g] = pc[g] /\ job'[g] = job[g] /\ resp'[g] = resp[g]
  BY <1>1, ReplyEffect
<1>3. TypeOK'
  BY <1>1, <1>2 DEF TypeOK, storeVars
<1>4. Still(h)
  BY <1>2 DEF Still, Holding, NoJob
<1>5. HasScheduledVersion' = HasScheduledVersion
  BY DEF HasScheduledVersion
<1>6. PlacesOK'
  BY <1>2, <1>5 DEF IInv, PlacesOK, PlaceOK, Owning, Holding, NoJob
<1>7. DoneMeansDelivered'
  BY <1>2, <1>5 DEF IInv, DoneMeansDelivered, Handlers
<1>8. NoSecondCopy'
  BY <1>2 DEF IInv, NoSecondCopy, NoJob, Handlers
<1>9. DocumentOK' /\ StampsOK' /\ UploadsOK' /\ VersionsBacked' /\ VersionsDistinct'
  BY <1>4, StillStep
<1> QED
  BY <1>3, <1>6, <1>7, <1>8, <1>9 DEF IInv

(***************************************************************************)
(* A request that gives up and leaves the record as it is.                 *)
(***************************************************************************)
LEMMA PlainReplyStep ==
    ASSUME IInv, NEW h \in Handlers, Reply(h, "retry"),
           UNCHANGED <<run, source, storeVars, delivery>>, faults' \in 0..MaxFaults
    PROVE  IInv'
<1>1. run' \in [status : Statuses, stale : BOOLEAN]
  BY DEF IInv, TypeOK
<1>2. run'.status = "succeeded" => HasScheduledVersion
  BY DEF IInv, DoneMeansDelivered
<1> QED
  BY <1>1, <1>2, ReplyStep DEF Replies

(***************************************************************************)
(* A scheduled request that moves on before its claim.                     *)
(***************************************************************************)
LEMMA ContinueStep ==
    ASSUME IInv, NEW h \in Sched,
           NEW place \in {"found", "ready", "notready", "claim", "claimed"},
           pc[h] \notin Owning, Continue(h, place),
           place = "found" => HasScheduledVersion,
           job[h].late => place = "found",
           UNCHANGED <<run, source, storeVars, delivery, faults>>
    PROVE  IInv'
<1>1. h \in Handlers /\ pc' = [pc EXCEPT ![h] = place] /\ job' = job /\ resp' = resp
  BY DEF Handlers, Continue, Goto
<1>2. /\ pc' \in [Handlers -> Places] /\ pc'[h] = place
      /\ \A g \in Handlers \ {h} : pc'[g] = pc[g]
  BY <1>1 DEF IInv, TypeOK, Places
<1>3. TypeOK'
  BY <1>1, <1>2 DEF IInv, TypeOK, storeVars
<1>4. Still(h)
  <2>1. job[h].done = 0 /\ job[h].trashed = 0
    BY <1>1 DEF IInv, UploadsOK, UploadOK, Owning
  <2> QED
    BY <1>1, <1>2, <2>1 DEF Still, Holding
<1>5. HasScheduledVersion' = HasScheduledVersion
  BY DEF HasScheduledVersion
<1>6. PlacesOK'
  BY <1>1, <1>2, <1>5 DEF IInv, PlacesOK, PlaceOK, Owning, Holding
<1>7. DoneMeansDelivered' /\ NoSecondCopy'
  BY <1>1, <1>2, <1>5 DEF IInv, DoneMeansDelivered, NoSecondCopy, Handlers
<1>8. DocumentOK' /\ StampsOK' /\ UploadsOK' /\ VersionsBacked' /\ VersionsDistinct'
  BY <1>1, <1>4, StillStep
<1> QED
  BY <1>3, <1>6, <1>7, <1>8 DEF IInv

LEMMA PeekStep ==
    ASSUME IInv, NEW h \in Handlers, Peek(h) PROVE IInv'
<1>1. CASE run.status = "succeeded"
  <2>1. /\ Reply(h, "done") /\ UNCHANGED <<run, source, storeVars, delivery, faults>>
        /\ HasScheduledVersion
    BY <1>1 DEF Peek, NoFault, IInv, DoneMeansDelivered
  <2> QED
    BY <2>1, ReplyStep DEF Replies, IInv, TypeOK
<1>2. CASE run.status # "succeeded"
  <2> DEFINE seenJob == [job[h] EXCEPT !.seen = run.status, !.late = ScheduledDelivered]
  <2>1. /\ h \in Sched /\ pc[h] = "idle"
        /\ pc' = [pc EXCEPT ![h] = "find"]
        /\ job' = [job EXCEPT ![h] = seenJob]
        /\ UNCHANGED <<resp, run, source, gcs, drive, stamps, delivery, faults>>
    BY <1>2 DEF Peek, Goto, NoFault, storeVars
  <2>2. ScheduledDelivered \in BOOLEAN /\ ScheduledDelivered = HasScheduledVersion
    BY DEF ScheduledDelivered, HasKey, HasScheduledVersion
  <2>3. /\ seenJob \in Job /\ seenJob.done = job[h].done /\ seenJob.trashed = job[h].trashed
        /\ seenJob.late = HasScheduledVersion
    <3>1. job[h] \in Job /\ run.status \in Statuses
      BY DEF IInv, TypeOK
    <3> QED
      BY <2>2, <3>1 DEF Job
  <2> HIDE DEF seenJob
  <2>4. TypeOK'
    BY <2>1, <2>3 DEF IInv, TypeOK, Places
  <2>5. Still(h)
    BY <2>1, <2>3 DEF Still, Holding, IInv, TypeOK, UploadsOK, UploadOK, storeVars
  <2>6. PlacesOK'
    BY <2>1, <2>3 DEF IInv, TypeOK, PlacesOK, PlaceOK, HasScheduledVersion, Owning, Holding
  <2>7. DoneMeansDelivered' /\ NoSecondCopy'
    BY <2>1 DEF IInv, TypeOK, DoneMeansDelivered, NoSecondCopy, Handlers, HasScheduledVersion
  <2>8. DocumentOK' /\ StampsOK' /\ UploadsOK' /\ VersionsBacked' /\ VersionsDistinct'
    BY <2>5, StillStep
  <2> QED
    BY <2>4, <2>6, <2>7, <2>8 DEF IInv
<1> QED
  BY <1>1, <1>2

LEMMA FindVersionStep ==
    ASSUME IInv, NEW h \in Handlers, FindVersion(h) PROVE IInv'
<1>1. ScheduledDelivered <=> HasScheduledVersion
  BY DEF ScheduledDelivered, HasKey, HasScheduledVersion
<1>2. h \in Sched /\ pc[h] \notin Owning /\ (job[h].late => ScheduledDelivered)
  BY <1>1 DEF FindVersion, IInv, PlacesOK, PlaceOK, Owning, Holding
<1>3. CASE ScheduledDelivered
  BY <1>1, <1>2, <1>3, ContinueStep DEF FindVersion, NoFault
<1>4. CASE ~ScheduledDelivered
  BY <1>2, <1>4, ContinueStep DEF FindVersion, NoFault
<1> QED
  BY <1>3, <1>4

LEMMA MarkDeliveredStep ==
    ASSUME IInv, NEW h \in Handlers, MarkDelivered(h) PROVE IInv'
<1>1. /\ Reply(h, "done") /\ run' = [status |-> "succeeded", stale |-> FALSE]
      /\ UNCHANGED <<source, storeVars, delivery>> /\ faults' \in 0..MaxFaults
  BY DEF MarkDelivered, NoFault, IInv, TypeOK
<1>2. HasScheduledVersion
  BY DEF MarkDelivered, IInv, PlacesOK, PlaceOK
<1> QED
  BY <1>1, <1>2, ReplyStep DEF Replies, Statuses

LEMMA CheckReadinessStep ==
    ASSUME IInv, NEW h \in Handlers, CheckReadiness(h) PROVE IInv'
<1>1. /\ UNCHANGED <<run, source, storeVars, delivery, faults>>
      /\ h \in Sched /\ pc[h] \notin Owning /\ ~job[h].late
  BY DEF CheckReadiness, NoFault, IInv, PlacesOK, PlaceOK, NoSecondCopy, Owning, Holding
<1>2. CASE Continue(h, "claim")
  BY <1>1, <1>2, ContinueStep
<1>3. CASE Continue(h, "notready")
  BY <1>1, <1>3, ContinueStep
<1>4. CASE Reply(h, "retry")
  BY <1>1, <1>4, PlainReplyStep DEF IInv, TypeOK
<1> QED
  BY <1>2, <1>3, <1>4 DEF CheckReadiness

LEMMA MarkNotReadyStep ==
    ASSUME IInv, NEW h \in Handlers, MarkNotReady(h) PROVE IInv'
<1>1. /\ Reply(h, "retry") /\ run' = [status |-> "source_not_ready", stale |-> FALSE]
      /\ UNCHANGED <<source, storeVars, delivery>> /\ faults' \in 0..MaxFaults
  BY DEF MarkNotReady, NoFault, IInv, TypeOK
<1> QED
  BY <1>1, ReplyStep DEF Replies, Statuses

LEMMA ReadClaimStep ==
    ASSUME IInv, NEW h \in Handlers, ReadClaim(h) PROVE IInv'
<1>1. /\ UNCHANGED <<run, source, storeVars, delivery, faults>>
      /\ h \in Sched /\ pc[h] \notin Owning /\ ~job[h].late
  BY DEF ReadClaim, NoFault, IInv, PlacesOK, PlaceOK, NoSecondCopy, Owning, Holding
<1>2. CASE Continue(h, "claimed")
  BY <1>1, <1>2, ContinueStep
<1>3. CASE Reply(h, "retry")
  BY <1>1, <1>3, PlainReplyStep DEF IInv, TypeOK
<1> QED
  BY <1>2, <1>3 DEF ReadClaim

LEMMA WriteClaimStep ==
    ASSUME IInv, NEW h \in Handlers, WriteClaim(h) PROVE IInv'
<1>1. /\ pc[h] = "claimed" /\ pc' = [pc EXCEPT ![h] = "recheck"]
      /\ job' = [job EXCEPT ![h].deliver = TRUE]
      /\ run' = [status |-> "running", stale |-> FALSE]
      /\ UNCHANGED <<source, gcs, drive, stamps, delivery, resp, faults>>
  BY DEF WriteClaim, Goto, NoFault, storeVars
<1>2. TypeOK'
  BY <1>1 DEF IInv, TypeOK, Statuses, Places, Owning, Job
<1>3. Still(h)
  BY <1>1 DEF Still, Holding, IInv, TypeOK, UploadsOK, UploadOK, storeVars
<1>4. PlacesOK'
  BY <1>1 DEF IInv, TypeOK, PlacesOK, PlaceOK, HasScheduledVersion, Owning, Holding
<1>5. DoneMeansDelivered'
  BY <1>1 DEF IInv, DoneMeansDelivered, HasScheduledVersion
<1>6. NoSecondCopy'
  BY <1>1 DEF IInv, TypeOK, NoSecondCopy, Handlers
<1>7. DocumentOK' /\ StampsOK' /\ UploadsOK' /\ VersionsBacked' /\ VersionsDistinct'
  BY <1>3, StillStep
<1> QED
  BY <1>2, <1>4, <1>5, <1>6, <1>7 DEF IInv

LEMMA PreludeFailsStep ==
    ASSUME IInv, NEW h \in Handlers, PreludeFails(h) PROVE IInv'
<1>1. Reply(h, "retry") /\ UNCHANGED <<run, source, storeVars, delivery>>
  BY DEF PreludeFails
<1>2. faults' \in 0..MaxFaults
  BY FaultBudget DEF PreludeFails, Fault, IInv, TypeOK
<1> QED
  BY <1>1, <1>2, PlainReplyStep

LEMMA StartManualStep ==
    ASSUME IInv, NEW h \in Handlers, StartManual(h) PROVE IInv'
<1>1. PICK create_delivery \in BOOLEAN : job' = [job EXCEPT ![h].deliver = create_delivery]
  BY DEF StartManual
<1>2. /\ h \in Manual /\ h \notin Sched /\ pc[h] = "idle"
      /\ pc' = [pc EXCEPT ![h] = "recheck"]
      /\ UNCHANGED <<run, source, gcs, drive, stamps, delivery, resp, faults>>
  BY DisjointRequests DEF StartManual, Goto, NoFault, storeVars
<1>3. TypeOK'
  BY <1>1, <1>2 DEF IInv, TypeOK, Places, Owning, Job
<1>4. Still(h)
  BY <1>1, <1>2 DEF Still, Holding, IInv, TypeOK, UploadsOK, UploadOK, storeVars
<1>5. PlacesOK'
  BY <1>1, <1>2 DEF IInv, TypeOK, PlacesOK, PlaceOK, HasScheduledVersion, Owning, Holding
<1>6. DoneMeansDelivered'
  BY <1>2 DEF IInv, DoneMeansDelivered, HasScheduledVersion
<1>7. NoSecondCopy'
  BY <1>1, <1>2 DEF IInv, TypeOK, NoSecondCopy, Handlers
<1>8. DocumentOK' /\ StampsOK' /\ UploadsOK' /\ VersionsBacked' /\ VersionsDistinct'
  BY <1>4, StillStep
<1> QED
  BY <1>3, <1>5, <1>6, <1>7, <1>8 DEF IInv

LEMMA RecordStep ==
    ASSUME IInv, NEW h \in Handlers, Record(h) PROVE IInv'
<1>1. /\ Reply(h, ReplyFor(job[h].out)) /\ run' = [status |-> job[h].out, stale |-> FALSE]
      /\ UNCHANGED <<source, storeVars, delivery>> /\ faults' \in 0..MaxFaults
  BY DEF Record, NoFault, IInv, TypeOK
<1>2. job[h].out \in Statuses
  BY DEF IInv, TypeOK, Job
<1>3. job[h].out = "succeeded" => HasScheduledVersion
  BY DEF Record, IInv, PlacesOK, PlaceOK
<1>4. /\ ReplyFor(job[h].out) \in Replies
      /\ ReplyFor(job[h].out) = "done" => job[h].out = "succeeded"
  BY DEF ReplyFor, Replies
<1> QED
  BY <1>1, <1>2, <1>3, <1>4, ReplyStep

LEMMA RecordFailsStep ==
    ASSUME IInv, NEW h \in Handlers, RecordFails(h) PROVE IInv'
<1>1. Reply(h, "retry") /\ UNCHANGED <<run, source, storeVars, delivery>>
  BY DEF RecordFails
<1>2. faults' \in 0..MaxFaults
  BY FaultBudget DEF RecordFails, Fault, IInv, TypeOK
<1> QED
  BY <1>1, <1>2, PlainReplyStep

LEMMA CrashStep ==
    ASSUME IInv, NEW h \in Handlers, Crash(h) PROVE IInv'
<1>1. Reply(h, "retry") /\ UNCHANGED <<run, source, storeVars, delivery>>
  BY DEF Crash
<1>2. faults' \in 0..MaxFaults
  BY FaultBudget DEF Crash, Fault, IInv, TypeOK
<1> QED
  BY <1>1, <1>2, PlainReplyStep

-----------------------------------------------------------------------------
(* The pipeline: uploads, cleanup and failures *)

(***************************************************************************)
(* An exception out of the pipeline, whatever the failing call left in the *)
(* stores under the request's own stamp.                                   *)
(***************************************************************************)
LEMMA FailureStep ==
    ASSUME IInv, NEW h \in Handlers, NEW status \in {"failed", "source_not_ready"},
           pc[h] \in Owning, GenerationFails(h, status),
           UNCHANGED <<run, source, stamps, delivery>>, faults' \in 0..MaxFaults,
           gcs \subseteq gcs', gcs' \subseteq (1..stamps) \X Files,
           drive' \subseteq (1..stamps) \X Files,
           \A f \in drive : f \in drive' \/ (pc[h] \in Holding /\ f[1] = job[h].stamp)
    PROVE  IInv'
<1>1. /\ pc' \in [Handlers -> Places] /\ job' \in [Handlers -> Job]
      /\ resp' \in [Handlers -> Replies]
      /\ pc'[h] \in {"idle", "record"}
      /\ pc'[h] = "idle" => job'[h] = NoJob /\ h \notin Sched /\ resp'[h] = "retry"
      /\ pc'[h] = "record" => /\ h \in Sched
                              /\ job'[h].out = status
                              /\ job'[h].deliver = job[h].deliver
                              /\ job'[h].late = job[h].late
                              /\ resp' = resp
      /\ \A g \in Handlers \ {h} :
            pc'[g] = pc[g] /\ job'[g] = job[g] /\ resp'[g] = resp[g]
  <2>1. TypeOK /\ status \in Statuses /\ status # "succeeded"
    BY DEF IInv, Statuses
  <2> QED
    BY <2>1, FailureEffect
<1>2. TypeOK'
  BY <1>1 DEF IInv, TypeOK
<1>3. UploadOK(h)'
  BY <1>1 DEF UploadOK, NoJob
<1>4. Quiet(h)
  BY <1>1, <1>3 DEF Quiet, Holding
<1>5. DocumentOK' /\ StampsOK' /\ UploadsOK' /\ VersionsBacked' /\ VersionsDistinct'
  BY <1>4, QuietStep
<1>6. HasScheduledVersion' = HasScheduledVersion
  BY DEF HasScheduledVersion
<1>7. PlacesOK'
  <2>1. ASSUME NEW g \in Handlers \ {h} PROVE PlaceOK(g)'
    BY <1>1, <1>6 DEF IInv, PlacesOK, PlaceOK
  <2>2. PlaceOK(h)'
    BY <1>1, <1>6 DEF IInv, PlacesOK, PlaceOK, Holding, Owning, NoJob
  <2> QED
    BY <2>1, <2>2 DEF PlacesOK
<1>8. DoneMeansDelivered'
  <2>1. \A g \in Sched : resp'[g] = "done" => resp[g] = "done"
    BY <1>1 DEF Handlers
  <2> QED
    BY <1>6, <2>1 DEF IInv, DoneMeansDelivered
<1>9. NoSecondCopy'
  <2>1. h \in Sched => ~job[h].late
    BY DEF IInv, NoSecondCopy, Owning
  <2> QED
    BY <1>1, <2>1 DEF IInv, NoSecondCopy, Handlers
<1> QED
  BY <1>2, <1>5, <1>7, <1>8, <1>9 DEF IInv

(***************************************************************************)
(* A step of the pipeline that stays in the pipeline.                      *)
(***************************************************************************)
LEMMA PipelineStep ==
    ASSUME IInv, NEW h \in Handlers, Quiet(h), pc[h] \in Owning, pc'[h] \in Owning,
           pc'[h] = "record" => pc[h] = "record",
           pc' \in [Handlers -> Places], job' \in [Handlers -> Job],
           job'[h].deliver = job[h].deliver, job'[h].late = job[h].late,
           UNCHANGED <<run, source, resp>>, faults' \in 0..MaxFaults,
           pc[h] # "record",
           gcs' \subseteq (1..stamps) \X Files,
           drive' \subseteq (1..stamps) \X Files
    PROVE  IInv'
<1>1. DocumentOK' /\ StampsOK' /\ UploadsOK' /\ VersionsBacked' /\ VersionsDistinct'
  BY QuietStep
<1>2. TypeOK'
  BY DEF Quiet, IInv, TypeOK
<1>3. HasScheduledVersion' = HasScheduledVersion
  BY DEF Quiet, HasScheduledVersion
<1>4. PlacesOK'
  <2>1. ASSUME NEW g \in Handlers \ {h} PROVE PlaceOK(g)'
    BY <1>3 DEF Quiet, IInv, PlacesOK, PlaceOK
  <2>2. PlaceOK(h)'
    BY <1>3 DEF IInv, PlacesOK, PlaceOK, Holding, Owning
  <2> QED
    BY <2>1, <2>2 DEF PlacesOK
<1>5. DoneMeansDelivered'
  BY <1>3 DEF IInv, DoneMeansDelivered
<1>6. NoSecondCopy'
  <2>1. h \in Sched => ~job[h].late
    BY DEF IInv, NoSecondCopy, Owning
  <2> QED
    BY <2>1 DEF Quiet, IInv, NoSecondCopy, Handlers
<1> QED
  BY <1>1, <1>2, <1>4, <1>5, <1>6 DEF IInv

LEMMA RecheckStep ==
    ASSUME IInv, NEW h \in Handlers, Recheck(h) PROVE IInv'
<1>1. /\ pc[h] = "recheck"
      /\ UNCHANGED <<run, source, gcs, drive, stamps, delivery, faults>>
      /\ gcs \subseteq (1..stamps) \X Files /\ drive \subseteq (1..stamps) \X Files
      /\ faults \in 0..MaxFaults
  BY DEF Recheck, NoFault, storeVars, IInv, TypeOK
<1>2. CASE source
  <2>1. pc' = [pc EXCEPT ![h] = "fetch"] /\ job' = job /\ resp' = resp
    BY <1>2 DEF Recheck, Continue, Goto
  <2>2. pc' \in [Handlers -> Places] /\ job' \in [Handlers -> Job] /\ pc'[h] = "fetch"
    BY <2>1 DEF IInv, TypeOK, Places, Owning
  <2>3. Quiet(h)
    BY <1>1, <2>1, <2>2 DEF Quiet, UploadOK, UploadsOK, IInv, TypeOK, Holding
  <2> QED
    BY <1>1, <2>1, <2>2, <2>3, PipelineStep DEF Owning
<1>3. CASE ~source
  <2>1. GenerationFails(h, "source_not_ready")
    BY <1>3 DEF Recheck
  <2> QED
    BY <1>1, <2>1, FailureStep DEF Owning
<1> QED
  BY <1>2, <1>3

LEMMA WorkFailsStep ==
    ASSUME IInv, NEW h \in Handlers, WorkFails(h) PROVE IInv'
<1>1. /\ pc[h] \in Owning
      /\ GenerationFails(h, "failed")
      /\ UNCHANGED <<run, source, drive, stamps, delivery>>
      /\ drive \subseteq (1..stamps) \X Files
      /\ faults' \in 0..MaxFaults
  BY FaultBudget DEF WorkFails, Fault, Owning, IInv, TypeOK
<1>2. gcs \subseteq gcs' /\ gcs' \subseteq (1..stamps) \X Files
  <2>1. CASE pc[h] = "gcs"
    <3>1. job[h].stamp \in 1..stamps
      BY <2>1 DEF IInv, StampsOK, Holding
    <3>2. PICK n \in 0..NumFiles - 1 :
              gcs' = gcs \cup {<<job[h].stamp, i>> : i \in 1..n}
      BY <2>1 DEF WorkFails
    <3>3. \A i \in 1..n : i \in Files
      BY <3>2, FileCount DEF Files
    <3> QED
      BY <3>1, <3>2, <3>3 DEF IInv, TypeOK
  <2>2. CASE pc[h] # "gcs"
    BY <2>2 DEF WorkFails, IInv, TypeOK
  <2> QED
    BY <2>1, <2>2
<1> QED
  BY <1>1, <1>2, FailureStep

LEMMA UploadToGcsStep ==
    ASSUME IInv, NEW h \in Handlers, UploadToGcs(h) PROVE IInv'
<1>1. /\ pc[h] = "gcs" /\ pc' = [pc EXCEPT ![h] = "drive"]
      /\ gcs' = gcs \cup Stored(job[h].stamp)
      /\ UNCHANGED <<job, resp, run, source, drive, stamps, delivery, faults>>
  BY DEF UploadToGcs, Continue, Goto, NoFault
<1>2. /\ pc' \in [Handlers -> Places] /\ job' \in [Handlers -> Job] /\ pc'[h] = "drive"
      /\ \A g \in Handlers \ {h} : pc'[g] = pc[g]
      /\ drive' \subseteq (1..stamps) \X Files /\ faults' \in 0..MaxFaults
  BY <1>1 DEF IInv, TypeOK, Places, Owning
<1>3. gcs' \subseteq (1..stamps) \X Files
  <2>1. job[h].stamp \in 1..stamps
    BY <1>1 DEF IInv, StampsOK, Holding
  <2> QED
    BY <1>1, <2>1 DEF Stored, IInv, TypeOK
<1>4. UploadOK(h)'
  BY <1>1, <1>2, FileCount DEF UploadOK, UploadsOK, IInv
<1>5. Quiet(h)
  BY <1>1, <1>2, <1>4 DEF Quiet, Holding
<1> QED
  BY <1>1, <1>2, <1>3, <1>5, PipelineStep DEF Owning

LEMMA OwnFile ==
    ASSUME IInv, NEW h \in Handlers, pc[h] = "drive"
    PROVE  {<<job[h].stamp, job[h].done + 1>>} \subseteq (1..stamps) \X Files
<1>1. job[h].stamp \in 1..stamps
  BY DEF IInv, StampsOK, Holding
<1>2. job[h].done \in Nat /\ job[h].done < NumFiles
  BY DEF IInv, TypeOK, Job, UploadsOK, UploadOK
<1> QED
  BY <1>1, <1>2, FileCount DEF Files

LEMMA UploadToDriveStep ==
    ASSUME IInv, NEW h \in Handlers, UploadToDrive(h) PROVE IInv'
<1> DEFINE file == <<job[h].stamp, job[h].done + 1>>
<1>1. /\ pc[h] = "drive" /\ drive' = drive \cup {file}
      /\ UNCHANGED <<run, source, gcs, delivery, stamps, faults>>
      /\ faults \in 0..MaxFaults
      /\ gcs \subseteq (1..stamps) \X Files /\ drive \subseteq (1..stamps) \X Files
  BY DEF UploadToDrive, NoFault, IInv, TypeOK
<1>2. drive' \subseteq (1..stamps) \X Files
  BY <1>1, OwnFile
<1>3. /\ job[h] \in Job /\ job[h].done \in Nat /\ job[h].done < NumFiles
      /\ job[h].trashed = 0
      /\ Stored(job[h].stamp) \subseteq gcs
      /\ \A n \in 1..job[h].done : <<job[h].stamp, n>> \in drive
  BY <1>1 DEF IInv, TypeOK, Job, UploadsOK, UploadOK
<1>4. CASE ~LastFile(h)
  <2> DEFINE next == [job[h] EXCEPT !.done = @ + 1]
  <2>1. pc' = pc /\ resp' = resp /\ job' = [job EXCEPT ![h] = next]
    BY <1>4 DEF UploadToDrive
  <2>2. /\ next \in Job /\ next.done = job[h].done + 1 /\ next.stamp = job[h].stamp
        /\ next.deliver = job[h].deliver /\ next.late = job[h].late
        /\ next.trashed = job[h].trashed
    BY <1>3 DEF Job
  <2> HIDE DEF next
  <2>3. /\ job'[h] = next /\ job' \in [Handlers -> Job]
        /\ \A g \in Handlers \ {h} : job'[g] = job[g]
    BY <2>1, <2>2 DEF IInv, TypeOK
  <2>4. UploadOK(h)'
    BY <1>1, <1>3, <1>4, <2>1, <2>2, <2>3, FileCount DEF UploadOK, LastFile
  <2>5. Quiet(h)
    BY <1>1, <2>1, <2>2, <2>3, <2>4 DEF Quiet, Holding
  <2> QED
    BY <1>1, <1>2, <2>1, <2>2, <2>3, <2>5, PipelineStep DEF Owning, IInv, TypeOK
<1>5. CASE LastFile(h) /\ job[h].deliver
  <2>1. pc' = [pc EXCEPT ![h] = "deliver"] /\ job' = job /\ resp' = resp
    BY <1>5 DEF UploadToDrive, Continue, Goto
  <2>2. /\ pc' \in [Handlers -> Places] /\ job' \in [Handlers -> Job] /\ pc'[h] = "deliver"
        /\ \A g \in Handlers \ {h} : pc'[g] = pc[g]
    BY <2>1 DEF IInv, TypeOK, Places, Owning
  <2>3. Stored(job[h].stamp) \subseteq drive'
    <3>1. \A n \in Files : n \in 1..job[h].done \/ n = job[h].done + 1
      BY <1>3, <1>5, FileCount DEF Files, LastFile
    <3> QED
      BY <1>1, <1>3, <3>1 DEF Stored
  <2>4. UploadOK(h)'
    BY <1>1, <1>3, <2>1, <2>2, <2>3 DEF UploadOK, Stored, Files
  <2>5. Quiet(h)
    BY <1>1, <2>1, <2>2, <2>4 DEF Quiet, Holding
  <2> QED
    BY <1>1, <1>2, <2>1, <2>2, <2>5, PipelineStep DEF Owning
<1>6. CASE LastFile(h) /\ ~job[h].deliver
  <2>1. h \notin Sched
    BY <1>1, <1>6 DEF IInv, PlacesOK, PlaceOK, Owning
  <2>2. Reply(h, "done")
    BY <1>6, <2>1 DEF UploadToDrive, GenerationEnds
  <2>3. /\ pc' \in [Handlers -> Places] /\ job' \in [Handlers -> Job]
        /\ resp' \in [Handlers -> Replies]
        /\ pc'[h] = "idle" /\ job'[h] = NoJob
        /\ \A g \in Handlers \ {h} :
              pc'[g] = pc[g] /\ job'[g] = job[g] /\ resp'[g] = resp[g]
    BY <2>2, ReplyEffect DEF IInv, Replies
  <2>4. UploadOK(h)'
    BY <2>3 DEF UploadOK, NoJob
  <2>5. Quiet(h)
    BY <1>1, <2>3, <2>4 DEF Quiet, Holding
  <2>6. DocumentOK' /\ StampsOK' /\ UploadsOK' /\ VersionsBacked' /\ VersionsDistinct'
    BY <2>5, QuietStep
  <2>7. TypeOK'
    BY <1>1, <1>2, <2>3 DEF IInv, TypeOK
  <2>8. PlacesOK'
    BY <1>1, <2>3 DEF IInv, PlacesOK, PlaceOK, Owning, Holding, NoJob, HasScheduledVersion
  <2>9. DoneMeansDelivered' /\ NoSecondCopy'
    BY <1>1, <2>1, <2>3 DEF IInv, DoneMeansDelivered, NoSecondCopy, Handlers, HasScheduledVersion
  <2> QED
    BY <2>6, <2>7, <2>8, <2>9 DEF IInv
<1> QED
  BY <1>4, <1>5, <1>6

LEMMA UploadToDriveFailsStep ==
    ASSUME IInv, NEW h \in Handlers, UploadToDriveFails(h) PROVE IInv'
<1>1. /\ pc[h] = "drive"
      /\ UNCHANGED <<run, source, gcs, stamps, delivery>>
      /\ faults' \in 0..MaxFaults
      /\ gcs \subseteq (1..stamps) \X Files
  BY FaultBudget DEF UploadToDriveFails, Fault, IInv, TypeOK
<1>2. drive' \in {drive, drive \cup {<<job[h].stamp, job[h].done + 1>>}}
  BY DEF UploadToDriveFails
<1>3. drive \subseteq drive' /\ drive' \subseteq (1..stamps) \X Files
  BY <1>1, <1>2, OwnFile DEF IInv, TypeOK
<1>4. CASE UploadsToTrash(h)
  <2>1. pc' = [pc EXCEPT ![h] = "trash"] /\ job' = job /\ resp' = resp
    BY <1>4 DEF UploadToDriveFails, Continue, Goto
  <2>2. /\ pc' \in [Handlers -> Places] /\ job' \in [Handlers -> Job] /\ pc'[h] = "trash"
        /\ \A g \in Handlers \ {h} : pc'[g] = pc[g]
    BY <2>1 DEF IInv, TypeOK, Places, Owning
  <2>3. job[h].trashed < job[h].done
    BY <1>1, <1>4 DEF IInv, TypeOK, Job, UploadsToTrash, UploadsOK, UploadOK
  <2>4. UploadOK(h)'
    BY <2>1, <2>2, <2>3 DEF UploadOK
  <2>5. Quiet(h)
    BY <1>1, <1>3, <2>1, <2>2, <2>4 DEF Quiet, Holding
  <2> QED
    BY <1>1, <1>3, <2>1, <2>2, <2>5, PipelineStep DEF Owning
<1>5. CASE ~UploadsToTrash(h)
  <2>1. GenerationFails(h, "failed")
    BY <1>5 DEF UploadToDriveFails
  <2> QED
    BY <1>1, <1>3, <2>1, FailureStep DEF Owning
<1> QED
  BY <1>4, <1>5

LEMMA TrashNextStep ==
    ASSUME IInv, NEW h \in Handlers, TrashNext(h) PROVE IInv'
<1>1. /\ pc[h] = "trash" /\ pc[h] \in Holding
      /\ UNCHANGED <<run, source, gcs, stamps, delivery>>
      /\ faults' \in 0..MaxFaults
      /\ gcs \subseteq (1..stamps) \X Files /\ drive' \subseteq (1..stamps) \X Files
  BY FaultBudget DEF TrashNext, Fault, NoFault, IInv, TypeOK, Holding
<1>2. \A f \in drive : f \in drive' \/ f[1] = job[h].stamp
  BY DEF TrashNext
<1>3. CASE job[h].trashed + 1 < job[h].done
  <2> DEFINE next == [job[h] EXCEPT !.trashed = @ + 1]
  <2>1. pc' = pc /\ resp' = resp /\ job' = [job EXCEPT ![h] = next]
    BY <1>3 DEF TrashNext
  <2>2. /\ next \in Job /\ next.trashed = job[h].trashed + 1 /\ next.done = job[h].done
        /\ next.stamp = job[h].stamp
        /\ next.deliver = job[h].deliver /\ next.late = job[h].late
    BY DEF IInv, TypeOK, Job
  <2> HIDE DEF next
  <2>3. /\ job'[h] = next /\ job' \in [Handlers -> Job]
        /\ \A g \in Handlers \ {h} : job'[g] = job[g]
    BY <2>1, <2>2 DEF IInv, TypeOK
  <2>4. UploadOK(h)'
    BY <1>1, <1>3, <2>1, <2>2, <2>3 DEF UploadOK
  <2>5. Quiet(h)
    BY <1>1, <1>2, <2>1, <2>2, <2>3, <2>4 DEF Quiet
  <2>6. pc' \in [Handlers -> Places]
    BY <2>1 DEF IInv, TypeOK
  <2> QED
    BY <1>1, <2>1, <2>2, <2>3, <2>5, <2>6, PipelineStep DEF Owning
<1>4. CASE ~(job[h].trashed + 1 < job[h].done)
  <2>1. GenerationFails(h, "failed")
    BY <1>4 DEF TrashNext
  <2> QED
    BY <1>1, <1>2, <2>1, FailureStep DEF Owning
<1> QED
  BY <1>3, <1>4

(***************************************************************************)
(* The locals of a request after it fetched the rows and drew its stamp.   *)
(***************************************************************************)
Fetched(j, full, stamp) == [j EXCEPT !.full = full, !.stamp = stamp]

LEMMA FetchedJob ==
    ASSUME NEW j \in Job, NEW full \in BOOLEAN, NEW stamp \in Nat
    PROVE  LET k == Fetched(j, full, stamp)
           IN  /\ k \in Job /\ k.stamp = stamp /\ k.done = j.done /\ k.trashed = j.trashed
               /\ k.deliver = j.deliver /\ k.late = j.late
BY DEF Job, Fetched

LEMMA FetchAndBuildStep ==
    ASSUME IInv, NEW h \in Handlers, FetchAndBuild(h) PROVE IInv'
<1> DEFINE fetched == Fetched(job[h], source, stamps + 1)
<1>1. /\ pc[h] = "fetch" /\ stamps' = stamps + 1
      /\ job' = [job EXCEPT ![h] = fetched]
      /\ pc' = [pc EXCEPT ![h] = "gcs"]
      /\ UNCHANGED <<run, source, gcs, drive, delivery, faults, resp>>
  BY DEF FetchAndBuild, FreshStamp, Fetched, Goto, NoFault
<1>2. /\ stamps \in Nat /\ source \in BOOLEAN
      /\ fetched \in Job /\ fetched.stamp = stamps + 1 /\ fetched.done = job[h].done
      /\ fetched.trashed = job[h].trashed
      /\ fetched.deliver = job[h].deliver /\ fetched.late = job[h].late
  <2>1. stamps \in Nat /\ source \in BOOLEAN /\ job[h] \in Job
    BY DEF IInv, TypeOK
  <2>2. stamps + 1 \in Nat
    BY <2>1
  <2> QED
    BY <2>1, <2>2, FetchedJob
<1> HIDE DEF fetched
<1>3. /\ pc' \in [Handlers -> Places] /\ pc'[h] = "gcs"
      /\ job' \in [Handlers -> Job] /\ job'[h] = fetched
      /\ \A g \in Handlers \ {h} : pc'[g] = pc[g] /\ job'[g] = job[g]
  BY <1>1, <1>2 DEF IInv, TypeOK, Places, Owning
<1>4. TypeOK'
  <2>1. (1..stamps) \X Files \subseteq (1..stamps') \X Files
    BY <1>1, <1>2
  <2> QED
    BY <1>1, <1>2, <1>3, <2>1 DEF IInv, TypeOK
<1>5. DocumentOK' /\ VersionsDistinct' /\ VersionsBacked'
  BY <1>1 DEF IInv, DocumentOK, NewestIsCurrent, OneScheduledVersion, VersionsDistinct,
              VersionsBacked
<1>6. StampsOK'
  <2>1. \A i \in DOMAIN delivery.versions : delivery.versions[i].files \in 1..stamps
    BY DEF IInv, StampsOK
  <2>2. \A g \in Handlers \ {h} : pc[g] \in Holding => job[g].stamp \in 1..stamps
    BY DEF IInv, StampsOK
  <2> QED
    BY <1>1, <1>2, <1>3, <2>1, <2>2 DEF IInv, StampsOK
<1>7. UploadsOK'
  <2>1. UploadOK(h)'
    BY <1>1, <1>2, <1>3 DEF IInv, UploadsOK, UploadOK
  <2>2. ASSUME NEW g \in Handlers \ {h} PROVE UploadOK(g)'
    BY <1>1, <1>3 DEF IInv, UploadsOK, UploadOK
  <2> QED
    BY <2>1, <2>2 DEF UploadsOK
<1>8. PlacesOK'
  <2>1. HasScheduledVersion' = HasScheduledVersion
    BY <1>1 DEF HasScheduledVersion
  <2> QED
    BY <1>1, <1>2, <1>3, <2>1 DEF IInv, PlacesOK, PlaceOK, Holding, Owning
<1>9. DoneMeansDelivered' /\ NoSecondCopy'
  <2>1. h \in Sched => ~job[h].late
    BY <1>1 DEF IInv, NoSecondCopy
  <2> QED
    BY <1>1, <1>2, <1>3, <2>1
       DEF IInv, DoneMeansDelivered, NoSecondCopy, HasScheduledVersion, Handlers
<1> QED
  BY <1>4, <1>5, <1>6, <1>7, <1>8, <1>9 DEF IInv

-----------------------------------------------------------------------------
(* The upsert of the delivery document *)

(***************************************************************************)
(* The delivery after an upsert, in terms of its list of versions: as it   *)
(* was, or one version longer, the new one pointing at the request's own   *)
(* stamp.  A scheduled request leaves a scheduled version in every case.   *)
(***************************************************************************)
OneLonger(h) ==
    LET n == Len(delivery.versions)
    IN  /\ DOMAIN delivery.versions = 1..n /\ n \in Nat
        /\ DOMAIN delivery'.versions = 1..(n + 1)
        /\ \A i \in 1..n : delivery'.versions[i] = delivery.versions[i]
        /\ delivery'.versions[n + 1].files = job[h].stamp
        /\ delivery'.versions[n + 1].idempotency_key = KeyOf(h)
        /\ KeyOf(h) = ScheduledKey => ~HasScheduledVersion

LEMMA UpsertDelivery ==
    ASSUME IInv, NEW h \in Handlers, Upsert(h)
    PROVE  /\ WellFormed(delivery')
           /\ (delivery' = delivery /\ h \in Sched /\ HasScheduledVersion) \/ OneLonger(h)
<1>1. WellFormed(delivery)
  BY DEF IInv, TypeOK, DocumentOK, NewestIsCurrent, WellFormed
<1>2. /\ job[h].stamp \in Nat /\ job[h].full \in BOOLEAN /\ KeyOf(h) \in Keys
      /\ KeyOf(h) = ScheduledKey <=> h \in Sched
  BY DEF IInv, TypeOK, Job, KeyOf, Keys, ScheduledKey, NoKey
<1>3. HasKey(delivery, ScheduledKey) <=> HasScheduledVersion
  BY DEF HasKey, HasScheduledVersion
<1>4. /\ WellFormed(delivery')
      /\ \/ delivery' = delivery /\ KeyOf(h) = ScheduledKey /\ HasKey(delivery, KeyOf(h))
         \/ /\ Extended(delivery, delivery', job[h].stamp, job[h].full, KeyOf(h), job[h].stamp)
            /\ KeyOf(h) = ScheduledKey => ~HasKey(delivery, KeyOf(h))
  BY <1>1, <1>2, UpsertEffect DEF Upsert
<1>5. ASSUME Extended(delivery, delivery', job[h].stamp, job[h].full, KeyOf(h), job[h].stamp),
             KeyOf(h) = ScheduledKey => ~HasScheduledVersion
      PROVE  OneLonger(h)
  <2> DEFINE n == Len(delivery.versions)
             v == NewVersion(n + 1, job[h].stamp, job[h].full, KeyOf(h))
  <2>1. delivery.versions \in Seq(Version) /\ n \in Nat /\ DOMAIN delivery.versions = 1..n
    BY <1>1 DEF WellFormed, Delivery
  <2>2. v \in Version /\ v.files = job[h].stamp /\ v.idempotency_key = KeyOf(h)
    BY <1>2, <2>1 DEF NewVersion, Version
  <2>3. delivery'.versions = Append(delivery.versions, v)
    BY <1>5 DEF Extended
  <2> HIDE DEF v
  <2>4. /\ DOMAIN delivery'.versions = 1..(n + 1)
        /\ \A i \in 1..n : delivery'.versions[i] = delivery.versions[i]
        /\ delivery'.versions[n + 1] = v
    BY <2>1, <2>2, <2>3
  <2> QED
    BY <1>5, <2>1, <2>2, <2>4 DEF OneLonger
<1> QED
  BY <1>2, <1>3, <1>4, <1>5

(***************************************************************************)
(* The step that upserts, whatever the request does next.                  *)
(***************************************************************************)
Leaves(h) ==
    /\ pc' \in [Handlers -> Places] /\ job' \in [Handlers -> Job]
    /\ resp' \in [Handlers -> Replies]
    /\ pc'[h] \in {"idle", "record"}
    /\ pc'[h] = "idle" => job'[h] = NoJob /\ h \notin Sched
    /\ pc'[h] = "record" => /\ h \in Sched
                            /\ job'[h].deliver = job[h].deliver
                            /\ job'[h].late = job[h].late
                            /\ resp' = resp
    /\ \A g \in Handlers \ {h} :
          pc'[g] = pc[g] /\ job'[g] = job[g] /\ resp'[g] = resp[g]

LEMMA UpsertStep ==
    ASSUME IInv, NEW h \in Handlers, pc[h] = "deliver", Upsert(h), Leaves(h),
           UNCHANGED <<run, source, storeVars>>, faults' \in 0..MaxFaults
    PROVE  IInv'
<1>1. run' = run /\ source' = source /\ gcs' = gcs /\ drive' = drive /\ stamps' = stamps
  BY DEF storeVars
<1>2. /\ WellFormed(delivery')
      /\ (delivery' = delivery /\ h \in Sched /\ HasScheduledVersion) \/ OneLonger(h)
  BY UpsertDelivery
<1>3. TypeOK'
  BY <1>1, <1>2 DEF Leaves, WellFormed, IInv, TypeOK
<1>4. /\ HasScheduledVersion => HasScheduledVersion'
      /\ h \in Sched => HasScheduledVersion'
  <2>1. CASE delivery' = delivery /\ h \in Sched /\ HasScheduledVersion
    BY <2>1 DEF HasScheduledVersion
  <2>2. CASE OneLonger(h)
    BY <2>2 DEF OneLonger, HasScheduledVersion, KeyOf
  <2> QED
    BY <1>2, <2>1, <2>2
<1>5. UploadOK(h)'
  BY DEF Leaves, UploadOK, NoJob
<1>6. PlacesOK'
  <2>1. ASSUME NEW g \in Handlers \ {h} PROVE PlaceOK(g)'
    BY <1>4 DEF Leaves, IInv, PlacesOK, PlaceOK
  <2>2. PlaceOK(h)'
    BY <1>4 DEF Leaves, IInv, PlacesOK, PlaceOK, Holding, Owning, NoJob
  <2> QED
    BY <2>1, <2>2 DEF PlacesOK
<1>7. DoneMeansDelivered'
  <2>1. \A g \in Sched : resp'[g] = "done" => resp[g] = "done" \/ h \in Sched
    BY DEF Leaves, Handlers
  <2> QED
    BY <1>1, <1>4, <2>1 DEF IInv, DoneMeansDelivered
<1>8. NoSecondCopy'
  <2>1. h \in Sched => ~job[h].late
    BY DEF IInv, NoSecondCopy
  <2> QED
    BY <2>1 DEF Leaves, IInv, NoSecondCopy, Handlers
<1>9. DocumentOK' /\ StampsOK' /\ UploadsOK' /\ VersionsBacked' /\ VersionsDistinct'
  <2>1. CASE delivery' = delivery
    <3>1. Quiet(h)
      BY <1>1, <1>5, <2>1 DEF Leaves, Quiet, Holding
    <3> QED
      BY <3>1, QuietStep
  <2>2. CASE OneLonger(h)
    <3> DEFINE n == Len(delivery.versions)
    <3>1. /\ DOMAIN delivery.versions = 1..n /\ n \in Nat
          /\ DOMAIN delivery'.versions = 1..(n + 1)
          /\ \A i \in 1..n : delivery'.versions[i] = delivery.versions[i]
          /\ delivery'.versions[n + 1].files = job[h].stamp
          /\ delivery'.versions[n + 1].idempotency_key = KeyOf(h)
          /\ KeyOf(h) = ScheduledKey => ~HasScheduledVersion
      BY <2>2 DEF OneLonger
    <3>2. \A i \in 1..(n + 1) : i \in 1..n \/ i = n + 1
      BY <3>1
    <3>3. /\ job[h].stamp \in 1..stamps /\ pc[h] \in Holding
          /\ \A i \in 1..n : delivery.versions[i].files # job[h].stamp
          /\ Stored(job[h].stamp) \subseteq gcs \cap drive
      BY <3>1 DEF IInv, StampsOK, UploadsOK, UploadOK, Holding
    <3> HIDE DEF n
    <3>4. DocumentOK'
      <4>1. NewestIsCurrent'
        BY <1>2 DEF WellFormed, NewestIsCurrent
      <4>2. OneScheduledVersion'
        BY <3>1, <3>2 DEF IInv, DocumentOK, OneScheduledVersion, HasScheduledVersion
      <4> QED
        BY <4>1, <4>2 DEF DocumentOK
    <3>5. StampsOK'
      <4>1. \A i \in DOMAIN delivery'.versions : delivery'.versions[i].files \in 1..stamps
        BY <3>1, <3>2, <3>3 DEF IInv, StampsOK
      <4>2. ASSUME NEW g \in Handlers, pc'[g] \in Holding
            PROVE  /\ g # h /\ pc[g] \in Holding /\ job'[g].stamp = job[g].stamp
                   /\ job[g].stamp \in 1..stamps
                   /\ \A i \in DOMAIN delivery'.versions :
                         delivery'.versions[i].files # job[g].stamp
        <5>1. g # h /\ pc[g] \in Holding /\ job'[g].stamp = job[g].stamp
          BY <4>2 DEF Leaves, Holding
        <5>2. job[g].stamp # job[h].stamp
          BY <3>3, <5>1 DEF IInv, StampsOK
        <5> QED
          BY <3>1, <3>2, <5>1, <5>2 DEF IInv, StampsOK
      <4>3. ASSUME NEW g \in Handlers, NEW k \in Handlers, pc'[g] \in Holding,
                   pc'[k] \in Holding, job'[g].stamp = job'[k].stamp
            PROVE  g = k
        BY <4>2, <4>3 DEF IInv, StampsOK
      <4> QED
        BY <1>1, <4>1, <4>2, <4>3 DEF StampsOK
    <3>6. UploadsOK'
      BY <1>1, <1>5 DEF Leaves, IInv, UploadsOK, UploadOK, Stored, Files
    <3>7. VersionsBacked'
      <4>1. \A i \in 1..n : Stored(delivery.versions[i].files) \subseteq gcs \cap drive
        BY <3>1 DEF IInv, VersionsBacked
      <4>2. \A i \in DOMAIN delivery'.versions :
               Stored(delivery'.versions[i].files) \subseteq gcs \cap drive
        BY <3>1, <3>2, <3>3, <4>1
      <4> QED
        BY <1>1, <4>2 DEF VersionsBacked, Stored, Files
    <3>8. VersionsDistinct'
      BY <3>1, <3>2, <3>3 DEF IInv, VersionsDistinct
    <3> QED
      BY <3>4, <3>5, <3>6, <3>7, <3>8
  <2> QED
    BY <1>2, <2>1, <2>2
<1> QED
  BY <1>3, <1>6, <1>7, <1>8, <1>9 DEF IInv

LEMMA DeliverStep ==
    ASSUME IInv, NEW h \in Handlers, Deliver(h) PROVE IInv'
<1>1. /\ pc[h] = "deliver" /\ Upsert(h) /\ GenerationEnds(h)
      /\ UNCHANGED <<run, source, storeVars>> /\ faults' \in 0..MaxFaults
  BY DEF Deliver, NoFault, IInv, TypeOK
<1>2. Leaves(h)
  BY <1>1, EndEffect DEF IInv, Leaves
<1> QED
  BY <1>1, <1>2, UpsertStep

LEMMA DeliverFailsStep ==
    ASSUME IInv, NEW h \in Handlers, DeliverFails(h) PROVE IInv'
<1>1. /\ pc[h] = "deliver" /\ GenerationFails(h, "failed")
      /\ UNCHANGED <<run, source, gcs, drive, stamps, storeVars>> /\ faults' \in 0..MaxFaults
      /\ gcs \subseteq (1..stamps) \X Files /\ drive \subseteq (1..stamps) \X Files
  BY FaultBudget DEF DeliverFails, Fault, storeVars, IInv, TypeOK
<1>2. CASE UNCHANGED delivery
  BY <1>1, <1>2, FailureStep DEF Owning
<1>3. CASE Upsert(h)
  <2>1. TypeOK /\ "failed" \in Statuses
    BY DEF IInv, Statuses
  <2>2. Leaves(h)
    BY <1>1, <2>1, FailureEffect DEF Leaves
  <2> QED
    BY <1>1, <1>3, <2>2, UpsertStep
<1> QED
  BY <1>2, <1>3 DEF DeliverFails

-----------------------------------------------------------------------------
(* The environment, and the invariant *)

LEMMA EnvironmentStep ==
    ASSUME IInv, Environment PROVE IInv'
<1>1. /\ UNCHANGED <<storeVars, pc, job, resp>>
      /\ faults' \in 0..MaxFaults /\ source' \in BOOLEAN
      /\ run' \in [status : Statuses, stale : BOOLEAN]
      /\ run'.status = run.status
      /\ delivery' \in Delivery /\ delivery'.versions = delivery.versions
      /\ delivery'.current_version = delivery.current_version
      /\ delivery'.exists = delivery.exists
  <2>1. CASE SourceLoaded \/ SourceReloading
    <3>1. source' \in BOOLEAN
      BY <2>1, Zenon DEF SourceLoaded, SourceReloading
    <3>2. faults' \in 0..MaxFaults
      BY <2>1, FaultBudget DEF SourceLoaded, SourceReloading, Fault, IInv, TypeOK
    <3> QED
      BY <2>1, <3>1, <3>2 DEF SourceLoaded, SourceReloading, storeVars, handlerVars, IInv, TypeOK
  <2>2. CASE BecomeStale
    <3>1. run' = [run EXCEPT !.stale = TRUE] /\ run \in [status : Statuses, stale : BOOLEAN]
      BY <2>2 DEF BecomeStale, IInv, TypeOK
    <3>2. run' \in [status : Statuses, stale : BOOLEAN] /\ run'.status = run.status
      BY <3>1
    <3> QED
      BY <2>2, <3>2 DEF BecomeStale, IInv, TypeOK, handlerVars
  <2>3. CASE SetActive
    <3>1. PICK active \in BOOLEAN : delivery' = [delivery EXCEPT !.active = active]
      BY <2>3 DEF SetActive
    <3>2. /\ delivery' \in Delivery /\ delivery'.versions = delivery.versions
          /\ delivery'.current_version = delivery.current_version
          /\ delivery'.exists = delivery.exists
      <4>1. delivery \in Delivery
        BY DEF IInv, TypeOK
      <4> QED
        BY <3>1, <4>1 DEF Delivery
    <3> QED
      BY <2>3, <3>2 DEF SetActive, storeVars, handlerVars, IInv, TypeOK
  <2> QED
    BY <2>1, <2>2, <2>3 DEF Environment
<1>2. gcs' = gcs /\ drive' = drive /\ stamps' = stamps
  BY <1>1 DEF storeVars
<1>3. TypeOK'
  BY <1>1, <1>2 DEF IInv, TypeOK
<1>4. DocumentOK' /\ StampsOK' /\ UploadsOK'
  BY <1>1, <1>2 DEF IInv, DocumentOK, NewestIsCurrent, OneScheduledVersion, StampsOK,
                    UploadsOK, UploadOK, Stored, Files
<1>5. PlacesOK'
  BY <1>1 DEF IInv, PlacesOK, PlaceOK, HasScheduledVersion
<1>6. VersionsBacked' /\ VersionsDistinct' /\ DoneMeansDelivered' /\ NoSecondCopy'
  BY <1>1, <1>2 DEF IInv, VersionsBacked, VersionsDistinct, DoneMeansDelivered,
                    NoSecondCopy, HasScheduledVersion, Stored, Files
<1> QED
  BY <1>3, <1>4, <1>5, <1>6 DEF IInv

LEMMA StutterStep ==
    ASSUME IInv, UNCHANGED vars PROVE IInv'
<1>1. /\ run' = run /\ source' = source /\ gcs' = gcs /\ drive' = drive
      /\ delivery' = delivery /\ stamps' = stamps /\ faults' = faults
      /\ pc' = pc /\ job' = job /\ resp' = resp
  BY DEF vars
<1>2. TypeOK' /\ DocumentOK' /\ StampsOK'
  BY <1>1 DEF IInv, TypeOK, DocumentOK, NewestIsCurrent, OneScheduledVersion, StampsOK
<1>3. UploadsOK' /\ PlacesOK'
  BY <1>1 DEF IInv, UploadsOK, UploadOK, PlacesOK, PlaceOK, Stored, Files, HasScheduledVersion
<1>4. VersionsBacked' /\ VersionsDistinct' /\ DoneMeansDelivered' /\ NoSecondCopy'
  BY <1>1 DEF IInv, VersionsBacked, VersionsDistinct, DoneMeansDelivered, NoSecondCopy,
              HasScheduledVersion, Stored, Files
<1> QED
  BY <1>2, <1>3, <1>4 DEF IInv

LEMMA NextIInv ==
    ASSUME IInv, [Next]_vars PROVE IInv'
<1>1. CASE UNCHANGED vars
  BY <1>1, StutterStep
<1>2. CASE Environment
  BY <1>2, EnvironmentStep
<1>3. ASSUME NEW h \in Handlers, Peek(h) \/ StartManual(h) \/ Step(h) \/ Crash(h)
      PROVE  IInv'
  <2>1. CASE Peek(h) \/ StartManual(h) \/ Crash(h)
    BY <2>1, PeekStep, StartManualStep, CrashStep
  <2>2. CASE FindVersion(h) \/ MarkDelivered(h) \/ CheckReadiness(h) \/ MarkNotReady(h)
    BY <2>2, FindVersionStep, MarkDeliveredStep, CheckReadinessStep, MarkNotReadyStep
  <2>3. CASE ReadClaim(h) \/ WriteClaim(h) \/ PreludeFails(h)
    BY <2>3, ReadClaimStep, WriteClaimStep, PreludeFailsStep
  <2>4. CASE Recheck(h) \/ FetchAndBuild(h) \/ UploadToGcs(h) \/ WorkFails(h)
    BY <2>4, RecheckStep, FetchAndBuildStep, UploadToGcsStep, WorkFailsStep
  <2>5. CASE UploadToDrive(h) \/ UploadToDriveFails(h) \/ TrashNext(h)
    BY <2>5, UploadToDriveStep, UploadToDriveFailsStep, TrashNextStep
  <2>6. CASE Deliver(h) \/ DeliverFails(h) \/ Record(h) \/ RecordFails(h)
    BY <2>6, DeliverStep, DeliverFailsStep, RecordStep, RecordFailsStep
  <2> QED
    BY <1>3, <2>1, <2>2, <2>3, <2>4, <2>5, <2>6 DEF Step
<1> QED
  BY <1>1, <1>2, <1>3 DEF Next

(***************************************************************************)
(* The inductive invariant holds in every behaviour, whatever the number   *)
(* of requests, of files and of faults.                                    *)
(***************************************************************************)
THEOREM Invariance == Spec => []IInv
<1>1. Init => IInv
  BY InitIInv
<1>2. IInv /\ [Next]_vars => IInv'
  BY NextIInv
<1> QED
  BY <1>1, <1>2, PTL DEF Spec

(***************************************************************************)
(* Every variable keeps its type.                                          *)
(***************************************************************************)
THEOREM TypeCorrect == Spec => []TypeOK
<1>1. IInv => TypeOK
  BY DEF IInv
<1> QED
  BY <1>1, Invariance, PTL

(***************************************************************************)
(* The scheduled version of the month is added once, however many          *)
(* invocations of the scheduled handler race and whatever fails            *)
(* (plan_multi_file_delivery_write inside the transaction).                *)
(***************************************************************************)
THEOREM AddedOnce == Spec => []OneScheduledVersion
<1>1. IInv => OneScheduledVersion
  BY DEF IInv, DocumentOK
<1> QED
  BY <1>1, Invariance, PTL

(***************************************************************************)
(* Every version of the delivery has its complete set of files in Cloud    *)
(* Storage and in Drive, the cleanup loop of failed uploads included       *)
(* (upload_generated_files).                                               *)
(***************************************************************************)
THEOREM AlwaysBacked == Spec => []VersionsBacked
<1>1. IInv => VersionsBacked
  BY DEF IInv
<1> QED
  BY <1>1, Invariance, PTL

(***************************************************************************)
(* No two versions share their files: no rerun overwrites the objects of   *)
(* an earlier version.                                                     *)
(***************************************************************************)
THEOREM NeverShared == Spec => []VersionsDistinct
<1>1. IInv => VersionsDistinct
  BY DEF IInv
<1> QED
  BY <1>1, Invariance, PTL

(***************************************************************************)
(* Versions are numbered 1, 2, ... and the newest is current, so that      *)
(* get_current_version always finds a version.                             *)
(***************************************************************************)
THEOREM NumberedInOrder == Spec => []NewestIsCurrent
<1>1. IInv => NewestIsCurrent
  BY DEF IInv, DocumentOK
<1> QED
  BY <1>1, Invariance, PTL

(***************************************************************************)
(* A month is recorded as succeeded, and Cloud Scheduler told 200, only    *)
(* when its scheduled version is in the delivery.                          *)
(***************************************************************************)
THEOREM DoneIsDelivered == Spec => []DoneMeansDelivered
<1>1. IInv => DoneMeansDelivered
  BY DEF IInv
<1> QED
  BY <1>1, Invariance, PTL

(***************************************************************************)
(* A request that arrives after the month was delivered generates nothing, *)
(* even if the record of the success was lost or overwritten.              *)
(***************************************************************************)
THEOREM DeliveredStaysDone == Spec => []NoSecondCopy
<1>1. IInv => NoSecondCopy
  BY DEF IInv
<1> QED
  BY <1>1, Invariance, PTL

-----------------------------------------------------------------------------
(* What the recipients are promised *)

(***************************************************************************)
(* Who changes the delivery document: the upsert and set_delivery_active.  *)
(***************************************************************************)
LEMMA DeliveryChanges ==
    ASSUME [Next]_vars
    PROVE  \/ UNCHANGED delivery
           \/ SetActive
           \/ \E h \in Handlers : Upsert(h)
<1>1. CASE UNCHANGED vars
  BY <1>1 DEF vars
<1>2. CASE Environment
  BY <1>2 DEF Environment, SourceLoaded, SourceReloading, BecomeStale
<1>3. ASSUME NEW h \in Handlers, Peek(h) \/ StartManual(h) \/ Step(h) \/ Crash(h)
      PROVE  UNCHANGED delivery \/ Upsert(h)
  <2>1. CASE Peek(h) \/ StartManual(h) \/ Crash(h)
    BY <2>1 DEF Peek, StartManual, Crash
  <2>2. CASE FindVersion(h) \/ MarkDelivered(h) \/ CheckReadiness(h) \/ MarkNotReady(h)
    BY <2>2 DEF FindVersion, MarkDelivered, CheckReadiness, MarkNotReady
  <2>3. CASE ReadClaim(h) \/ WriteClaim(h) \/ PreludeFails(h)
    BY <2>3 DEF ReadClaim, WriteClaim, PreludeFails
  <2>4. CASE Recheck(h) \/ FetchAndBuild(h) \/ UploadToGcs(h) \/ WorkFails(h)
    BY <2>4 DEF Recheck, FetchAndBuild, UploadToGcs, WorkFails
  <2>5. CASE UploadToDrive(h) \/ UploadToDriveFails(h) \/ TrashNext(h)
    BY <2>5 DEF UploadToDrive, UploadToDriveFails, TrashNext
  <2>6. CASE Deliver(h) \/ DeliverFails(h) \/ Record(h) \/ RecordFails(h)
    BY <2>6 DEF Deliver, DeliverFails, Record, RecordFails
  <2> QED
    BY <1>3, <2>1, <2>2, <2>3, <2>4, <2>5, <2>6 DEF Step
<1> QED
  BY <1>1, <1>2, <1>3 DEF Next

LEMMA ExtendedOrKept ==
    ASSUME IInv, NEW h \in Handlers, Upsert(h)
    PROVE  \/ UNCHANGED delivery
           \/ Extended(delivery, delivery', job[h].stamp, job[h].full, KeyOf(h), job[h].stamp)
<1>1. WellFormed(delivery)
  BY DEF IInv, TypeOK, DocumentOK, NewestIsCurrent, WellFormed
<1>2. job[h].stamp \in Nat /\ job[h].full \in BOOLEAN /\ KeyOf(h) \in Keys
  BY DEF IInv, TypeOK, Job, KeyOf, Keys
<1> QED
  BY <1>1, <1>2, UpsertEffect DEF Upsert

(***************************************************************************)
(* The public URL never changes once there is one, and no rerun puts a     *)
(* disabled delivery back online (upsert_multi_file_delivery).             *)
(***************************************************************************)
THEOREM KeptAcrossReruns == Spec => UrlAndActiveKept
<1> DEFINE Kept == delivery.exists =>
                     /\ delivery'.token = delivery.token
                     /\ delivery'.versions # delivery.versions
                          => delivery'.active = delivery.active
<1>1. IInv /\ [Next]_vars => [Kept]_vars
  <2> SUFFICES ASSUME IInv, [Next]_vars PROVE Kept
    OBVIOUS
  <2>1. CASE UNCHANGED delivery
    BY <2>1
  <2>2. CASE SetActive
    <3>1. delivery \in Delivery
      BY DEF IInv, TypeOK
    <3>2. PICK active \in BOOLEAN : delivery' = [delivery EXCEPT !.active = active]
      BY <2>2 DEF SetActive
    <3> QED
      BY <3>1, <3>2 DEF Delivery
  <2>3. ASSUME NEW h \in Handlers, Upsert(h) PROVE Kept
    BY <2>3, ExtendedOrKept DEF Extended
  <2> QED
    BY <2>1, <2>2, <2>3, DeliveryChanges
<1> QED
  BY <1>1, Invariance, PTL DEF Spec, UrlAndActiveKept

(***************************************************************************)
(* The publications DeliveryPromise speaks of.                             *)
(***************************************************************************)
Publications(d) == [i \in DOMAIN d.versions |->
                      [files |-> d.versions[i].files,
                       key |-> d.versions[i].idempotency_key]]

(***************************************************************************)
(* A function on 1..n+1 that continues one on 1..n is an append.           *)
(***************************************************************************)
LEMMA ContinuedSequence ==
    ASSUME NEW S, NEW n \in Nat, NEW f \in [1..n -> S], NEW g \in [1..(n + 1) -> S],
           \A i \in 1..n : g[i] = f[i]
    PROVE  Len(f) = n /\ Len(g) = n + 1 /\ g = Append(f, g[n + 1])
<1>1. f \in Seq(S) /\ Len(f) = n
  OBVIOUS
<1>2. g \in Seq(S) /\ Len(g) = n + 1 /\ g[n + 1] \in S
  OBVIOUS
<1> DEFINE a == Append(f, g[n + 1])
<1>3. a \in Seq(S) /\ Len(a) = n + 1 /\ a[n + 1] = g[n + 1]
      /\ \A i \in 1..n : a[i] = f[i]
  BY <1>1, <1>2
<1> HIDE DEF a
<1>4. \A i \in 1..(n + 1) : g[i] = a[i]
  <2>1. \A i \in 1..(n + 1) : i \in 1..n \/ i = n + 1
    OBVIOUS
  <2> QED
    BY <1>3, <2>1
<1>5. g = a
  BY <1>2, <1>3, <1>4
<1> QED
  BY <1>1, <1>2, <1>5 DEF a

LEMMA PublishStep ==
    ASSUME IInv, NEW h \in Handlers,
           Extended(delivery, delivery', job[h].stamp, job[h].full, KeyOf(h), job[h].stamp),
           KeyOf(h) = ScheduledKey => ~HasScheduledVersion
    PROVE  Promise!Publish
<1> DEFINE n == Len(delivery.versions)
           p == Publications(delivery)
           q == Publications(delivery')
           v == NewVersion(n + 1, job[h].stamp, job[h].full, KeyOf(h))
<1>1. /\ delivery.versions \in Seq(Version) /\ n \in Nat /\ DOMAIN delivery.versions = 1..n
      /\ delivery.token \in Nat
      /\ job[h].stamp \in Nat /\ job[h].full \in BOOLEAN /\ KeyOf(h) \in Keys
      /\ delivery.exists <=> delivery.versions # <<>>
  BY DEF IInv, TypeOK, DocumentOK, NewestIsCurrent, Delivery, Job, KeyOf, Keys
<1>2. v \in Version /\ v.files = job[h].stamp /\ v.idempotency_key = KeyOf(h)
  BY <1>1 DEF NewVersion, Version
<1>3. delivery'.versions = Append(delivery.versions, v)
  BY DEF Extended
<1> HIDE DEF v
<1>4. /\ delivery'.versions \in Seq(Version) /\ DOMAIN delivery'.versions = 1..(n + 1)
      /\ \A i \in 1..n : delivery'.versions[i] = delivery.versions[i]
      /\ delivery'.versions[n + 1] = v
  BY <1>1, <1>2, <1>3
<1> DEFINE P == [files : Nat, key : Keys]
<1>5. \A i \in 1..n : /\ delivery.versions[i].files \in Nat
                      /\ delivery.versions[i].idempotency_key \in Keys
  <2>1. \A i \in 1..n : delivery.versions[i] \in Version
    BY <1>1
  <2> QED
    BY <2>1 DEF Version
<1>6. \A i \in 1..(n + 1) : /\ delivery'.versions[i].files \in Nat
                            /\ delivery'.versions[i].idempotency_key \in Keys
  <2>1. \A i \in 1..(n + 1) : delivery'.versions[i] \in Version
    BY <1>4
  <2> QED
    BY <2>1 DEF Version
<1>7. p \in [1..n -> P]
  BY <1>1, <1>5 DEF Publications
<1>8. /\ q \in [1..(n + 1) -> P] /\ \A i \in 1..n : q[i] = p[i]
      /\ q[n + 1] = [files |-> job[h].stamp, key |-> KeyOf(h)]
  BY <1>1, <1>2, <1>4, <1>6 DEF Publications
<1>9. Len(p) = n /\ Len(q) = n + 1 /\ q = Append(p, q[n + 1])
  <2> HIDE DEF n, p, q, P
  <2> QED BY <1>1, <1>7, <1>8, ContinuedSequence
<1>10. KeyOf(h) = ScheduledKey => \A i \in DOMAIN p : p[i].key # ScheduledKey
  BY <1>1 DEF Publications, HasScheduledVersion
<1>11. p = <<>> <=> ~delivery.exists
  <2>1. p = <<>> <=> n = 0
    <3> HIDE DEF p, n, P
    <3> QED BY <1>1, <1>7, <1>9
  <2>2. delivery.versions = <<>> <=> n = 0
    BY <1>1
  <2> QED
    BY <1>1, <2>1, <2>2
<1>12. /\ p = <<>> => delivery'.token \in Nat
       /\ p # <<>> => delivery'.token = delivery.token
  BY <1>1, <1>11 DEF Extended
<1>13. q[n + 1] \in P /\ q[n + 1].key = KeyOf(h)
  BY <1>1, <1>8
<1> HIDE DEF n, p, q, P
<1>14. /\ q[Len(q)] = q[n + 1] /\ Len(q) = Len(p) + 1
  BY <1>9
<1> QED
  BY <1>9, <1>10, <1>12, <1>13, <1>14
     DEF Promise!Publish, Promise!New, Promise!HasScheduled, Promise!Publication,
         Publications, p, q, P

(***************************************************************************)
(* The delivery document implements DeliveryPromise: one URL, versions     *)
(* only ever added, the scheduled one once.                                *)
(***************************************************************************)
THEOREM PromiseKept == Spec => KeepsPromise
<1> DEFINE pubs == Publications(delivery)
<1>1. Init => Promise!Init
  <2> SUFFICES ASSUME Init PROVE Promise!Init
    OBVIOUS
  <2>1. delivery.token = 0 /\ delivery.versions = <<>>
    BY DEF Init, NoDelivery
  <2>2. Publications(delivery) = <<>>
    BY <2>1 DEF Publications
  <2> QED
    BY <2>1, <2>2 DEF Promise!Init, Publications
<1>2. IInv /\ [Next]_vars => [Promise!Publish]_<<delivery.token, pubs>>
  <2> SUFFICES ASSUME IInv, [Next]_vars
               PROVE  Promise!Publish \/ UNCHANGED <<delivery.token, pubs>>
    OBVIOUS
  <2>1. CASE UNCHANGED delivery
    BY <2>1 DEF Publications
  <2>2. CASE SetActive
    <3>1. delivery \in Delivery
      BY DEF IInv, TypeOK
    <3>2. PICK active \in BOOLEAN : delivery' = [delivery EXCEPT !.active = active]
      BY <2>2 DEF SetActive
    <3>3. delivery'.token = delivery.token /\ delivery'.versions = delivery.versions
      BY <3>1, <3>2 DEF Delivery
    <3> QED
      BY <3>3 DEF Publications
  <2>3. ASSUME NEW h \in Handlers, Upsert(h)
        PROVE  Promise!Publish \/ UNCHANGED <<delivery.token, pubs>>
    <3>1. CASE UNCHANGED delivery
      BY <2>1, <3>1 DEF Publications
    <3>2. CASE ~UNCHANGED delivery
      <4>1. Extended(delivery, delivery', job[h].stamp, job[h].full, KeyOf(h), job[h].stamp)
        BY <2>3, <3>2, ExtendedOrKept
      <4>2. KeyOf(h) = ScheduledKey => ~HasScheduledVersion
        BY <2>3, <3>2, UpsertDelivery DEF OneLonger
      <4> QED
        BY <4>1, <4>2, PublishStep
    <3> QED
      BY <3>1, <3>2
  <2> QED
    BY <2>1, <2>2, <2>3, DeliveryChanges
<1> QED
  BY <1>1, <1>2, Invariance, PTL DEF Spec, KeepsPromise, Promise!Spec, Publications

-----------------------------------------------------------------------------
(* Only complete months, as long as no source table is reloaded *)

(***************************************************************************)
(* What a request carries from its readiness query to its version: once    *)
(* the query of Recheck said "ready" the month stays ready, so the rows    *)
(* are complete, and so is the version made of them.                       *)
(***************************************************************************)
DataOK ==
    /\ OnlyCompleteData
    /\ \A h \in Handlers : pc[h] = "fetch" => source
    /\ \A h \in Handlers : pc[h] \in Holding => job[h].full

(***************************************************************************)
(* A step of a request that writes no version of its own.                  *)
(***************************************************************************)
Carries(h) ==
    /\ UNCHANGED <<source, delivery>>
    /\ \A g \in Handlers \ {h} : pc'[g] = pc[g] /\ job'[g] = job[g]
    /\ pc'[h] = "fetch" => source
    /\ pc'[h] \in Holding => \/ pc[h] \in Holding /\ job'[h].full = job[h].full
                             \/ pc[h] = "fetch" /\ job'[h].full = source

LEMMA CarriesStep ==
    ASSUME DataOK, NEW h \in Handlers, Carries(h)
    PROVE  DataOK'
<1>1. OnlyCompleteData'
  BY DEF Carries, DataOK, OnlyCompleteData
<1>2. \A g \in Handlers : pc'[g] = "fetch" => source'
  BY DEF Carries, DataOK
<1>3. \A g \in Handlers : pc'[g] \in Holding => job'[g].full
  BY DEF Carries, DataOK
<1> QED
  BY <1>1, <1>2, <1>3 DEF DataOK

(***************************************************************************)
(* The steps of a request before and after the pipeline.                   *)
(***************************************************************************)
LEMMA OutsideCarries ==
    ASSUME IInv, NEW h \in Handlers,
           \/ Peek(h) \/ StartManual(h) \/ Crash(h)
           \/ FindVersion(h) \/ MarkDelivered(h) \/ CheckReadiness(h) \/ MarkNotReady(h)
           \/ ReadClaim(h) \/ WriteClaim(h) \/ PreludeFails(h) \/ Record(h) \/ RecordFails(h)
    PROVE  /\ UNCHANGED <<source, delivery, storeVars>>
           /\ \A g \in Handlers \ {h} : pc'[g] = pc[g] /\ job'[g] = job[g]
           /\ pc'[h] \notin Holding \cup {"fetch"}
           /\ pc[h] \in Holding => Crash(h)
<1>1. pc \in [Handlers -> Places] /\ job \in [Handlers -> Job]
  BY DEF IInv, TypeOK
<1>2. CASE \E code \in Replies : Reply(h, code)
  <2>1. /\ pc' = [pc EXCEPT ![h] = "idle"] /\ job' = [job EXCEPT ![h] = NoJob]
    BY <1>2 DEF Reply, Goto
  <2> QED
    BY <1>1, <2>1
       DEF Holding, Peek, StartManual, Crash, MarkDelivered, CheckReadiness, MarkNotReady,
           ReadClaim, WriteClaim, PreludeFails, Record, RecordFails, FindVersion, Owning
<1>3. CASE \E place \in {"find", "found", "ready", "notready", "claim", "claimed", "recheck"} :
              Goto(h, place)
  <2>1. PICK place \in {"find", "found", "ready", "notready", "claim", "claimed", "recheck"} :
              pc' = [pc EXCEPT ![h] = place]
    BY <1>3 DEF Goto
  <2>2. /\ \A g \in Handlers \ {h} : pc'[g] = pc[g]
        /\ pc'[h] = place
    BY <1>1, <2>1
  <2>3. \A g \in Handlers \ {h} : job'[g] = job[g]
    BY <1>1 DEF Peek, StartManual, Crash, MarkDelivered, CheckReadiness, MarkNotReady,
                ReadClaim, WriteClaim, PreludeFails, Record, RecordFails, FindVersion,
                Continue, Reply
  <2> QED
    BY <2>2, <2>3
       DEF Holding, Peek, StartManual, Crash, MarkDelivered, CheckReadiness, MarkNotReady,
           ReadClaim, WriteClaim, PreludeFails, Record, RecordFails, FindVersion, Owning
<1>4. \/ \E code \in Replies : Reply(h, code)
      \/ \E place \in {"find", "found", "ready", "notready", "claim", "claimed", "recheck"} :
            Goto(h, place)
  BY DEF Peek, StartManual, Crash, FindVersion, MarkDelivered, CheckReadiness, MarkNotReady,
         ReadClaim, WriteClaim, PreludeFails, Record, RecordFails, Continue, Replies, ReplyFor
<1> QED
  BY <1>2, <1>3, <1>4

(***************************************************************************)
(* The steps of the pipeline up to the upsert.                             *)
(***************************************************************************)
LEMMA PipelineCarries ==
    ASSUME IInv, NEW h \in Handlers,
           \/ Recheck(h) \/ FetchAndBuild(h) \/ UploadToGcs(h) \/ WorkFails(h)
           \/ UploadToDrive(h) \/ UploadToDriveFails(h) \/ TrashNext(h)
    PROVE  Carries(h)
<1>1. /\ TypeOK /\ pc \in [Handlers -> Places] /\ job \in [Handlers -> Job]
      /\ "failed" \in Statuses /\ "source_not_ready" \in Statuses
  BY DEF IInv, TypeOK, Statuses
<1>2. UNCHANGED <<source, delivery>>
  BY DEF Recheck, FetchAndBuild, UploadToGcs, WorkFails, UploadToDrive,
         UploadToDriveFails, TrashNext
<1>3. CASE \E status \in {"failed", "source_not_ready"} : GenerationFails(h, status)
  BY <1>1, <1>2, <1>3, FailureEffect DEF Carries, Holding
<1>4. CASE GenerationEnds(h)
  BY <1>1, <1>2, <1>4, EndEffect DEF Carries, Holding
<1>5. CASE Recheck(h) /\ source /\ Continue(h, "fetch")
  BY <1>1, <1>2, <1>5 DEF Continue, Goto, Carries, Holding
<1>6. CASE FetchAndBuild(h)
  <2>1. /\ pc[h] = "fetch" /\ pc' = [pc EXCEPT ![h] = "gcs"]
        /\ job' = [job EXCEPT ![h].full = source, ![h].stamp = FreshStamp]
    BY <1>6 DEF FetchAndBuild, Goto
  <2>2. \A g \in Handlers \ {h} : pc'[g] = pc[g] /\ job'[g] = job[g]
    BY <1>1, <2>1
  <2>3. pc'[h] = "gcs" /\ job'[h].full = source
    BY <1>1, <2>1 DEF Job
  <2> QED
    BY <1>2, <2>1, <2>2, <2>3 DEF Carries
<1>7. CASE \E place \in {"drive", "deliver", "trash"} : Continue(h, place) /\ pc[h] \in Holding
  BY <1>1, <1>2, <1>7 DEF Continue, Goto, Carries
<1>8. CASE /\ pc[h] \in Holding /\ UNCHANGED pc
           /\ \/ job' = [job EXCEPT ![h].done = @ + 1]
              \/ job' = [job EXCEPT ![h].trashed = @ + 1]
  <2>1. \A g \in Handlers \ {h} : job'[g] = job[g]
    BY <1>1, <1>8
  <2>2. job'[h].full = job[h].full
    BY <1>1, <1>8 DEF Job
  <2> QED
    BY <1>2, <1>8, <2>1, <2>2 DEF Carries, Holding
<1> QED
  BY <1>3, <1>4, <1>5, <1>6, <1>7, <1>8
     DEF Recheck, UploadToGcs, WorkFails, UploadToDrive, UploadToDriveFails, TrashNext, Holding

(***************************************************************************)
(* The upsert publishes the rows its request carries.                      *)
(***************************************************************************)
LEMMA DeliverCarries ==
    ASSUME IInv, DataOK, NEW h \in Handlers, Deliver(h) \/ DeliverFails(h)
    PROVE  DataOK'
<1>1. TypeOK /\ pc[h] = "deliver" /\ "failed" \in Statuses
  BY DEF IInv, Deliver, DeliverFails, Statuses
<1>2. Leaves(h) /\ UNCHANGED source
  BY <1>1, EndEffect, FailureEffect DEF Deliver, DeliverFails, Leaves
<1>3. CASE UNCHANGED delivery
  <2>1. Carries(h)
    BY <1>2, <1>3 DEF Leaves, Carries, Holding
  <2> QED
    BY <2>1, CarriesStep
<1>4. CASE Upsert(h) /\ ~UNCHANGED delivery
  <2> DEFINE n == Len(delivery.versions)
             v == NewVersion(n + 1, job[h].stamp, job[h].full, KeyOf(h))
  <2>1. /\ delivery.versions \in Seq(Version) /\ n \in Nat
        /\ job[h].stamp \in Nat /\ job[h].full \in BOOLEAN /\ KeyOf(h) \in Keys
    BY DEF IInv, TypeOK, Delivery, Job, KeyOf, Keys
  <2>2. v \in Version /\ v.full = job[h].full
    BY <2>1 DEF NewVersion, Version
  <2>3. delivery'.versions = Append(delivery.versions, v)
    BY <1>4, ExtendedOrKept DEF Extended
  <2> HIDE DEF v
  <2>4. /\ DOMAIN delivery.versions = 1..n
        /\ DOMAIN delivery'.versions = 1..(n + 1)
        /\ \A i \in 1..n : delivery'.versions[i] = delivery.versions[i]
        /\ delivery'.versions[n + 1] = v
    BY <2>1, <2>2, <2>3
  <2>5. \A i \in 1..(n + 1) : i \in 1..n \/ i = n + 1
    BY <2>1
  <2>6. job[h].full
    BY <1>1 DEF DataOK, Holding
  <2>7. OnlyCompleteData'
    BY <2>2, <2>4, <2>5, <2>6 DEF DataOK, OnlyCompleteData
  <2> QED
    BY <1>2, <2>7 DEF DataOK, Leaves, Holding
<1> QED
  BY <1>3, <1>4 DEF Deliver, DeliverFails

LEMMA NextDataOK ==
    ASSUME "source" \notin FaultKinds, IInv, DataOK, [Next]_vars
    PROVE  DataOK'
<1>1. CASE UNCHANGED vars
  BY <1>1 DEF vars, DataOK, OnlyCompleteData
<1>2. CASE Environment
  <2>1. UNCHANGED <<pc, job>> /\ (source => source') /\ delivery'.versions = delivery.versions
    <3>1. CASE SourceLoaded \/ SourceReloading \/ BecomeStale
      BY <3>1 DEF SourceLoaded, SourceReloading, BecomeStale, Fault, handlerVars
    <3>2. CASE SetActive
      <4>1. delivery \in Delivery
        BY DEF IInv, TypeOK
      <4>2. PICK active \in BOOLEAN : delivery' = [delivery EXCEPT !.active = active]
        BY <3>2 DEF SetActive
      <4>3. delivery'.versions = delivery.versions
        BY <4>1, <4>2 DEF Delivery
      <4> QED
        BY <3>2, <4>3 DEF SetActive, handlerVars
    <3> QED
      BY <1>2, <3>1, <3>2 DEF Environment
  <2> QED
    BY <2>1 DEF DataOK, OnlyCompleteData
<1>3. ASSUME NEW h \in Handlers, Peek(h) \/ StartManual(h) \/ Step(h) \/ Crash(h)
      PROVE  DataOK'
  <2>1. CASE Deliver(h) \/ DeliverFails(h)
    BY <2>1, DeliverCarries
  <2>2. CASE \/ Recheck(h) \/ FetchAndBuild(h) \/ UploadToGcs(h) \/ WorkFails(h)
             \/ UploadToDrive(h) \/ UploadToDriveFails(h) \/ TrashNext(h)
    BY <2>2, PipelineCarries, CarriesStep
  <2>3. CASE \/ Peek(h) \/ StartManual(h) \/ Crash(h)
             \/ FindVersion(h) \/ MarkDelivered(h) \/ CheckReadiness(h) \/ MarkNotReady(h)
             \/ ReadClaim(h) \/ WriteClaim(h) \/ PreludeFails(h) \/ Record(h) \/ RecordFails(h)
    <3>1. Carries(h)
      BY <2>3, OutsideCarries DEF Carries
    <3> QED
      BY <3>1, CarriesStep
  <2> QED
    BY <1>3, <2>1, <2>2, <2>3 DEF Step
<1> QED
  BY <1>1, <1>2, <1>3 DEF Next

(***************************************************************************)
(* As long as BigQuery reloads no month that was complete, every version   *)
(* was made of a complete month: the readiness query that is repeated      *)
(* after the claim (generate_coin_ledger_report) is enough, though the     *)
(* rows are read by later queries.                                         *)
(***************************************************************************)
THEOREM CompleteMonthsOnly ==
    ASSUME "source" \notin FaultKinds
    PROVE  Spec => []OnlyCompleteData
<1>1. Init => DataOK
  BY DEF Init, DataOK, OnlyCompleteData, NoDelivery, Holding
<1>2. IInv /\ DataOK /\ [Next]_vars => DataOK'
  BY NextDataOK
<1>3. DataOK => OnlyCompleteData
  BY DEF DataOK
<1> QED
  BY <1>1, <1>2, <1>3, Invariance, PTL DEF Spec

-----------------------------------------------------------------------------
(* No part of a set stays in Drive, as long as failures are reported *)

(***************************************************************************)
(* The failures whose outcome the handler learns: no instance dies, no     *)
(* upload happens without its answer, and no trash call is refused.        *)
(***************************************************************************)
FailuresAreReported == FaultKinds \cap {"crash", "driveLost", "trash"} = {}

(***************************************************************************)
(* What the Drive folder holds of a run stamp: all or nothing, unless a    *)
(* request is uploading it or taking it back, and then exactly the files   *)
(* that request has counted.                                               *)
(***************************************************************************)
Whole(s) == \/ \A n \in Files : <<s, n>> \in drive
            \/ \A n \in Files : <<s, n>> \notin drive

FolderOK(h) ==
    /\ pc[h] = "gcs" => \A n \in Files : <<job[h].stamp, n>> \notin drive
    /\ pc[h] = "drive" =>
          \A n \in Files : <<job[h].stamp, n>> \in drive <=> n <= job[h].done
    /\ pc[h] = "trash" =>
          \A n \in Files : <<job[h].stamp, n>> \in drive
                             <=> job[h].trashed < n /\ n <= job[h].done

CleanOK ==
    /\ \A s \in 1..stamps : AtWork(s) \/ Whole(s)
    /\ \A h \in Handlers : FolderOK(h)

(***************************************************************************)
(* A step that leaves Drive alone, of a request that does not hold files   *)
(* there, or stays where it is.                                            *)
(***************************************************************************)
LEMMA FolderUntouched ==
    ASSUME CleanOK, NEW h \in Handlers, UNCHANGED <<drive, stamps>>,
           \A g \in Handlers \ {h} : pc'[g] = pc[g] /\ job'[g] = job[g],
           pc[h] \notin {"drive", "trash"},
           pc'[h] \notin {"gcs", "drive", "trash"}
    PROVE  CleanOK'
<1>1. \A s \in 1..stamps : Whole(s)' = Whole(s)
  BY DEF Whole
<1>2. \A s \in 1..stamps : AtWork(s) => AtWork(s)'
  BY DEF AtWork
<1>3. FolderOK(h)'
  BY DEF FolderOK
<1>4. \A g \in Handlers \ {h} : FolderOK(g)'
  BY DEF CleanOK, FolderOK
<1> QED
  BY <1>1, <1>2, <1>3, <1>4 DEF CleanOK

(***************************************************************************)
(* A step on one's own stamp: what Drive holds of the other stamps, and of *)
(* the requests at work on them, stays as it is.                           *)
(***************************************************************************)
OwnStamp(h) ==
    /\ stamps' = stamps
    /\ pc[h] \in Holding
    /\ \A g \in Handlers \ {h} : pc'[g] = pc[g] /\ job'[g] = job[g]
    /\ \A s \in 1..stamps, n \in Files :
          s # job[h].stamp => (<<s, n>> \in drive' <=> <<s, n>> \in drive)

LEMMA OwnStampStep ==
    ASSUME IInv, CleanOK, NEW h \in Handlers, NEW own, own = job[h].stamp,
           OwnStamp(h), FolderOK(h)',
           (pc'[h] \in {"drive", "trash"} /\ job'[h].stamp = own) \/ Whole(own)'
    PROVE  CleanOK'
<1>1. ASSUME NEW s \in 1..stamps PROVE AtWork(s)' \/ Whole(s)'
  <2>1. CASE s = own
    BY <2>1 DEF AtWork
  <2>2. CASE s # job[h].stamp
    <3>1. Whole(s)' = Whole(s)
      BY <2>2 DEF Whole, OwnStamp
    <3>2. AtWork(s) => AtWork(s)'
      BY <2>2 DEF AtWork, OwnStamp
    <3> QED
      BY <3>1, <3>2 DEF CleanOK
  <2> QED
    BY <2>1, <2>2
<1>2. ASSUME NEW g \in Handlers \ {h} PROVE FolderOK(g)'
  <2>1. pc'[g] = pc[g] /\ job'[g] = job[g] /\ FolderOK(g)
    BY DEF OwnStamp, CleanOK
  <2>2. CASE pc[g] \notin Holding
    BY <2>1, <2>2 DEF FolderOK, Holding
  <2>3. CASE pc[g] \in Holding
    <3>1. job[g].stamp \in 1..stamps /\ job[g].stamp # job[h].stamp
      BY <2>3 DEF IInv, StampsOK, OwnStamp
    <3> QED
      BY <2>1, <3>1 DEF FolderOK, OwnStamp
  <2> QED
    BY <2>2, <2>3
<1> QED
  BY <1>1, <1>2 DEF CleanOK, OwnStamp

LEMMA UploadLeavesWhole ==
    ASSUME IInv, CleanOK, NEW h \in Handlers, UploadToDrive(h)
    PROVE  CleanOK'
<1> PICK s : s = job[h].stamp
  OBVIOUS
<1> PICK d : d = job[h].done
  OBVIOUS
<1>1. /\ pc[h] = "drive" /\ drive' = drive \cup {<<s, d + 1>>} /\ stamps' = stamps
      /\ pc \in [Handlers -> Places] /\ job \in [Handlers -> Job]
      /\ d \in Nat /\ s \in 1..stamps
      /\ \A n \in Files : <<s, n>> \in drive <=> n <= d
  BY DEF UploadToDrive, IInv, TypeOK, Job, StampsOK, Holding, CleanOK, FolderOK
<1>2. /\ \A t \in 1..stamps, n \in Files :
            t # s => (<<t, n>> \in drive' <=> <<t, n>> \in drive)
      /\ \A n \in Files : <<s, n>> \in drive' <=> n <= d + 1
  BY <1>1 DEF Files
<1>3. CASE ~LastFile(h)
  <2>1. pc' = pc /\ job' = [job EXCEPT ![h].done = @ + 1]
    BY <1>3 DEF UploadToDrive
  <2>2. \A g \in Handlers \ {h} : job'[g] = job[g]
    BY <1>1, <2>1
  <2>3. job'[h].done = d + 1 /\ job'[h].stamp = s
    BY <1>1, <2>1 DEF Job
  <2>4. OwnStamp(h)
    BY <1>1, <1>2, <2>1, <2>2 DEF OwnStamp, Holding
  <2>5. FolderOK(h)'
    BY <1>1, <1>2, <2>1, <2>3 DEF FolderOK, Files
  <2> QED
    BY <1>1, <2>1, <2>3, <2>4, <2>5, OwnStampStep
<1>4. CASE LastFile(h)
  <2>1. Whole(s)'
    BY <1>1, <1>2, <1>4, FileCount DEF Whole, LastFile, Files
  <2>2. /\ pc'[h] \in {"deliver", "idle", "record"}
        /\ \A g \in Handlers \ {h} : pc'[g] = pc[g] /\ job'[g] = job[g]
    <3>1. CASE job[h].deliver
      BY <1>1, <1>4, <3>1 DEF UploadToDrive, Continue, Goto
    <3>2. CASE ~job[h].deliver
      BY <1>4, <3>2, EndEffect DEF UploadToDrive, IInv
    <3> QED
      BY <3>1, <3>2
  <2>3. OwnStamp(h) /\ FolderOK(h)'
    BY <1>1, <1>2, <2>2 DEF OwnStamp, FolderOK, Holding
  <2> QED
    BY <2>1, <2>3, OwnStampStep
<1> QED
  BY <1>3, <1>4

LEMMA FailedUploadLeavesWhole ==
    ASSUME FailuresAreReported, IInv, CleanOK, NEW h \in Handlers, UploadToDriveFails(h)
    PROVE  CleanOK'
<1> PICK s : s = job[h].stamp
  OBVIOUS
<1>1. /\ pc[h] = "drive" /\ drive' = drive /\ stamps' = stamps
      /\ pc \in [Handlers -> Places] /\ job \in [Handlers -> Job] /\ TypeOK
      /\ job[h].done \in Nat /\ job[h].trashed = 0 /\ job[h].stamp \in 1..stamps
      /\ \A n \in Files : <<job[h].stamp, n>> \in drive <=> n <= job[h].done
  BY DEF FailuresAreReported, UploadToDriveFails, Fault, IInv, TypeOK, Job, StampsOK,
         UploadsOK, UploadOK, Holding, CleanOK, FolderOK
<1>2. CASE UploadsToTrash(h)
  <2>1. pc' = [pc EXCEPT ![h] = "trash"] /\ job' = job
    BY <1>2 DEF UploadToDriveFails, Continue, Goto
  <2>2. OwnStamp(h)
    BY <1>1, <2>1 DEF OwnStamp, Holding
  <2>3. FolderOK(h)'
    BY <1>1, <2>1 DEF FolderOK, Files
  <2> QED
    BY <1>1, <2>1, <2>2, <2>3, OwnStampStep
<1>3. CASE ~UploadsToTrash(h)
  <2>1. /\ pc'[h] \in {"idle", "record"}
        /\ \A g \in Handlers \ {h} : pc'[g] = pc[g] /\ job'[g] = job[g]
    BY <1>1, <1>3, FailureEffect DEF UploadToDriveFails, Statuses
  <2>2. Whole(s)'
    BY <1>1, <1>3 DEF Whole, UploadsToTrash, Files
  <2>3. OwnStamp(h) /\ FolderOK(h)'
    BY <1>1, <2>1 DEF OwnStamp, FolderOK, Holding
  <2> QED
    BY <2>2, <2>3, OwnStampStep
<1> QED
  BY <1>2, <1>3

LEMMA TrashLeavesWhole ==
    ASSUME FailuresAreReported, IInv, CleanOK, NEW h \in Handlers, TrashNext(h)
    PROVE  CleanOK'
<1> PICK s : s = job[h].stamp
  OBVIOUS
<1> PICK t : t = job[h].trashed
  OBVIOUS
<1>1. /\ pc[h] = "trash" /\ drive' = drive \ {<<s, t + 1>>} /\ stamps' = stamps
      /\ pc \in [Handlers -> Places] /\ job \in [Handlers -> Job] /\ TypeOK
      /\ job[h].done \in Nat /\ t \in Nat /\ t < job[h].done /\ s \in 1..stamps
      /\ \A n \in Files : <<s, n>> \in drive <=> t < n /\ n <= job[h].done
  BY DEF FailuresAreReported, TrashNext, Fault, IInv, TypeOK, Job, StampsOK,
         UploadsOK, UploadOK, Holding, CleanOK, FolderOK
<1>2. /\ \A r \in 1..stamps, n \in Files :
            r # s => (<<r, n>> \in drive' <=> <<r, n>> \in drive)
      /\ \A n \in Files : <<s, n>> \in drive' <=> t + 1 < n /\ n <= job[h].done
  BY <1>1 DEF Files
<1>3. CASE t + 1 < job[h].done
  <2>1. pc' = pc /\ job' = [job EXCEPT ![h].trashed = @ + 1]
    BY <1>3 DEF TrashNext
  <2>2. \A g \in Handlers \ {h} : job'[g] = job[g]
    BY <1>1, <2>1
  <2>3. job'[h].trashed = t + 1 /\ job'[h].stamp = s /\ job'[h].done = job[h].done
    BY <1>1, <2>1 DEF Job
  <2>4. OwnStamp(h)
    BY <1>1, <1>2, <2>1, <2>2 DEF OwnStamp, Holding
  <2>5. FolderOK(h)'
    BY <1>1, <1>2, <2>1, <2>3 DEF FolderOK, Files
  <2> QED
    BY <1>1, <2>1, <2>3, <2>4, <2>5, OwnStampStep
<1>4. CASE ~(t + 1 < job[h].done)
  <2>1. /\ pc'[h] \in {"idle", "record"}
        /\ \A g \in Handlers \ {h} : pc'[g] = pc[g] /\ job'[g] = job[g]
    BY <1>1, <1>4, FailureEffect DEF TrashNext, Statuses
  <2>2. Whole(s)'
    BY <1>1, <1>2, <1>4 DEF Whole, Files
  <2>3. OwnStamp(h) /\ FolderOK(h)'
    BY <1>1, <1>2, <2>1 DEF OwnStamp, FolderOK, Holding
  <2> QED
    BY <2>2, <2>3, OwnStampStep
<1> QED
  BY <1>3, <1>4

LEMMA PipelineLeavesWhole ==
    ASSUME IInv, CleanOK, NEW h \in Handlers,
           \/ Recheck(h) \/ FetchAndBuild(h) \/ UploadToGcs(h) \/ WorkFails(h)
           \/ Deliver(h) \/ DeliverFails(h)
    PROVE  CleanOK'
<1>1. /\ TypeOK /\ pc \in [Handlers -> Places] /\ job \in [Handlers -> Job]
      /\ "failed" \in Statuses /\ "source_not_ready" \in Statuses
      /\ pc[h] \in {"recheck", "fetch", "gcs", "deliver"} /\ drive' = drive
  BY DEF IInv, TypeOK, Statuses, Recheck, FetchAndBuild, UploadToGcs, WorkFails, Deliver,
         DeliverFails, storeVars
<1>2. CASE /\ stamps' = stamps
           /\ \/ \E status \in {"failed", "source_not_ready"} : GenerationFails(h, status)
              \/ GenerationEnds(h)
              \/ Continue(h, "fetch")
  <2>1. /\ \A g \in Handlers \ {h} : pc'[g] = pc[g] /\ job'[g] = job[g]
        /\ pc'[h] \in {"idle", "record", "fetch"}
    <3>1. CASE \E status \in {"failed", "source_not_ready"} : GenerationFails(h, status)
      BY <1>1, <3>1, FailureEffect
    <3>2. CASE GenerationEnds(h)
      BY <1>1, <3>2, EndEffect
    <3>3. CASE Continue(h, "fetch")
      BY <1>1, <3>3 DEF Continue, Goto
    <3> QED
      BY <1>2, <3>1, <3>2, <3>3
  <2> QED
    BY <1>1, <1>2, <2>1, FolderUntouched
<1>3. CASE UploadToGcs(h)
  <2> PICK s : s = job[h].stamp
    OBVIOUS
  <2>1. /\ pc[h] = "gcs" /\ pc' = [pc EXCEPT ![h] = "drive"] /\ job' = job
        /\ stamps' = stamps /\ job[h].done = 0
        /\ \A n \in Files : <<s, n>> \notin drive
    BY <1>3 DEF UploadToGcs, Continue, Goto, IInv, UploadsOK, UploadOK, CleanOK, FolderOK
  <2>2. OwnStamp(h)
    BY <1>1, <2>1 DEF OwnStamp, Holding
  <2>3. FolderOK(h)'
    BY <1>1, <2>1 DEF FolderOK, Files
  <2> QED
    BY <1>1, <2>1, <2>2, <2>3, OwnStampStep
<1>4. CASE FetchAndBuild(h)
  <2>1. /\ pc[h] = "fetch" /\ pc' = [pc EXCEPT ![h] = "gcs"] /\ stamps' = stamps + 1
        /\ job' = [job EXCEPT ![h].full = source, ![h].stamp = stamps + 1]
        /\ stamps \in Nat /\ drive \subseteq (1..stamps) \X Files
    BY <1>4 DEF FetchAndBuild, Goto, FreshStamp, IInv, TypeOK
  <2>2. \A g \in Handlers \ {h} : pc'[g] = pc[g] /\ job'[g] = job[g]
    BY <1>1, <2>1
  <2>3. job'[h].stamp = stamps + 1 /\ pc'[h] = "gcs"
    BY <1>1, <2>1 DEF Job
  <2>4. \A n \in Files : <<stamps + 1, n>> \notin drive
    BY <2>1
  <2>5. FolderOK(h)'
    BY <1>1, <2>3, <2>4 DEF FolderOK
  <2>6. \A g \in Handlers \ {h} : FolderOK(g)'
    BY <1>1, <2>2 DEF CleanOK, FolderOK
  <2>7. ASSUME NEW s \in 1..stamps' PROVE AtWork(s)' \/ Whole(s)'
    <3>1. CASE s = stamps + 1
      BY <1>1, <2>4, <3>1 DEF Whole
    <3>2. CASE s \in 1..stamps
      <4>1. Whole(s)' = Whole(s)
        BY <1>1 DEF Whole
      <4>2. AtWork(s) => AtWork(s)'
        BY <2>1, <2>2 DEF AtWork
      <4> QED
        BY <3>2, <4>1, <4>2 DEF CleanOK
    <3> QED
      BY <2>1, <3>1, <3>2
  <2> QED
    BY <2>5, <2>6, <2>7 DEF CleanOK
<1> QED
  BY <1>2, <1>3, <1>4 DEF Recheck, WorkFails, Deliver, DeliverFails, storeVars

LEMMA NextCleanOK ==
    ASSUME FailuresAreReported, IInv, CleanOK, [Next]_vars
    PROVE  CleanOK'
<1>1. CASE UNCHANGED vars \/ Environment
  <2>1. UNCHANGED <<drive, stamps, pc, job>>
    BY <1>1 DEF vars, Environment, SourceLoaded, SourceReloading, BecomeStale, SetActive,
                storeVars, handlerVars
  <2> QED
    BY <2>1 DEF CleanOK, AtWork, Whole, FolderOK
<1>2. ASSUME NEW h \in Handlers, Peek(h) \/ StartManual(h) \/ Step(h) \/ Crash(h)
      PROVE  CleanOK'
  <2>1. CASE UploadToDrive(h) \/ UploadToDriveFails(h) \/ TrashNext(h)
    BY <2>1, UploadLeavesWhole, FailedUploadLeavesWhole, TrashLeavesWhole
  <2>2. CASE \/ Recheck(h) \/ FetchAndBuild(h) \/ UploadToGcs(h) \/ WorkFails(h)
             \/ Deliver(h) \/ DeliverFails(h)
    BY <2>2, PipelineLeavesWhole
  <2>3. CASE Crash(h)
    BY <2>3 DEF FailuresAreReported, Crash, Fault
  <2>4. CASE /\ ~Crash(h)
             /\ \/ Peek(h) \/ StartManual(h)
                \/ FindVersion(h) \/ MarkDelivered(h) \/ CheckReadiness(h) \/ MarkNotReady(h)
                \/ ReadClaim(h) \/ WriteClaim(h) \/ PreludeFails(h)
                \/ Record(h) \/ RecordFails(h)
    <3>1. /\ UNCHANGED <<drive, stamps>>
          /\ \A g \in Handlers \ {h} : pc'[g] = pc[g] /\ job'[g] = job[g]
          /\ pc'[h] \notin Holding /\ pc[h] \notin Holding
      BY <2>4, OutsideCarries DEF storeVars
    <3> QED
      BY <3>1, FolderUntouched DEF Holding
  <2> QED
    BY <1>2, <2>1, <2>2, <2>3, <2>4 DEF Step
<1> QED
  BY <1>1, <1>2 DEF Next

(***************************************************************************)
(* As long as no instance dies, no Drive answer is lost and no trash call  *)
(* is refused, the Drive folder holds a set of files completely or not at  *)
(* all, once the run that uploaded it has ended (upload_generated_files    *)
(* and its cleanup loop).  Each of the three is needed: the code does      *)
(* nothing more against them.                                              *)
(***************************************************************************)
THEOREM SetsAreWhole ==
    ASSUME FaultKinds \cap {"crash", "driveLost", "trash"} = {}
    PROVE  Spec => []NoPartialSet
<1>1. Init => CleanOK
  BY DEF Init, CleanOK, FolderOK
<1>2. IInv /\ CleanOK /\ [Next]_vars => CleanOK'
  BY NextCleanOK DEF FailuresAreReported
<1>3. IInv /\ CleanOK => NoPartialSet
  <2> SUFFICES ASSUME IInv, CleanOK, NEW s \in 1..stamps, Whole(s)
               PROVE  {f \in drive : f[1] = s} \in {{}, Stored(s)}
    BY DEF CleanOK, NoPartialSet
  <2>1. \A f \in drive : f = <<f[1], f[2]>> /\ f[2] \in Files
    BY DEF IInv, TypeOK
  <2>2. CASE \A n \in Files : <<s, n>> \in drive
    BY <2>1, <2>2 DEF Stored
  <2>3. CASE \A n \in Files : <<s, n>> \notin drive
    BY <2>1, <2>3
  <2> QED
    BY <2>2, <2>3 DEF Whole
<1> QED
  BY <1>1, <1>2, <1>3, Invariance, PTL DEF Spec
=============================================================================
