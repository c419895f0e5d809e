------------------------------- MODULE Retention -------------------------------
(***************************************************************************)
(* The retention review: check-retention-candidates.py lists records and   *)
(* objects past their retention, people approve some of them, and          *)
(* delete-firestore-retention-records.py deletes the approved records in   *)
(* batches; an approved object is deleted by hand (docs/operations.md).    *)
(* Days pass between the listing, the approval and the deletion, while     *)
(* administrators and reruns go on using the deliveries.                   *)
(*                                                                         *)
(* A definition named D_X is a faulty variant of D, a change that a        *)
(* property must notice; nothing uses it.                                  *)
(***************************************************************************)
EXTENDS Integers, Sequences, SequencesExt, FiniteSetsExt

CONSTANTS
    Ids,            \* ids of delivery documents
    Records,        \* ids of documents of the other collections
    Dates,          \* per record, its date fields in the order they are tried; 0 is none
    RecordDays,     \* per record, the days its collection keeps it
    DeliveryDays,   \* firestore_days
    ObjectDays,     \* gcs_expires_days
    Objects,        \* object names
    Reviewed,       \* the objects in the bucket and under the prefix of the review
    ScanLimits,     \* scan limits a listing may be given
    CandidateLimit, MaxRecords, BatchSize,    \* options of the scripts
    Gone,           \* stands for a document that does not exist
    MaxDay, MaxEvents, MaxRuns    \* bounds of the check

ASSUME OptionsArePositive ==
    \A n \in ScanLimits \cup {CandidateLimit, MaxRecords, BatchSize} : n \in Nat \ {0}
ASSUME PeriodsAreDays ==
    /\ {DeliveryDays, ObjectDays, MaxDay} \subseteq Nat
    /\ Dates \in [Records -> Seq(Nat)] /\ RecordDays \in [Records -> Nat]
ASSUME IdsAreApart == Ids \cap Records = {} /\ Gone \notin Ids /\ Reviewed \subseteq Objects
ASSUME FinitelyManyDocuments == IsFiniteSet(Ids) /\ IsFiniteSet(Records)

VARIABLES
    today,      \* the day
    delivery,   \* the delivery documents
    record,     \* the records of the other collections that exist
    object,     \* the objects that exist
    listed,     \* the listing that is under review
    touched,    \* the deliveries made, enabled or given a version since that listing
    manifest,   \* the approved records, in the manifest's order
    events, runs, \* events and script runs so far
    script      \* where the deletion script is and its locals

retvars == <<today, delivery, record, object, listed, touched, manifest, events, runs, script>>

(***************************************************************************)
(* month: the day the report month has been over for its 13 months.        *)
(***************************************************************************)
Delivery == [active : BOOLEAN, expires : Nat, month : Nat, versions : Seq(Objects)]

ASSUME GoneIsNoDelivery == Gone \notin Delivery

Alive == {d \in Ids : delivery[d] # Gone}

NoListing == [deliveries |-> {}, records |-> {}, objects |-> {}, scanned |-> {}]

-----------------------------------------------------------------------------
(* check-retention-candidates.py *)

(***************************************************************************)
(* No more than limit of a set, the ones that Firestore streams first.     *)
(***************************************************************************)
AtMost(limit, S) == {T \in SUBSET S : Cardinality(T) = Min({limit, Cardinality(S)})}

(***************************************************************************)
(* delivery_record_candidates                                              *)
(***************************************************************************)
RetiredDelivery(d) == ~d.active /\ d.expires + DeliveryDays <= today

DeliveryCandidates(scanned) == {d \in scanned : RetiredDelivery(delivery[d])}

(***************************************************************************)
(* firestore_record_candidates: the first field that holds a date counts.  *)
(***************************************************************************)
RecordDate(r) == LET held == SelectSeq(Dates[r], LAMBDA day : day # 0)
                 IN IF held = <<>> THEN 0 ELSE Head(held)

RetiredRecord(r) == RecordDate(r) # 0 /\ RecordDate(r) + RecordDays[r] <= today

References(d) == Range(delivery[d].versions)

(***************************************************************************)
(* gcs_object_candidates: the objects of deliveries past their retention   *)
(* that no version of an active delivery that was scanned refers to.       *)
(***************************************************************************)
RetainedUntil(d) == Max({delivery[d].expires + ObjectDays, delivery[d].month})

ActiveReferenced(scanned) == UNION {References(d) : d \in {e \in scanned : delivery[e].active}}

ObjectCandidates_AnyPrefix(scanned) ==
    UNION {References(d) : d \in {e \in scanned : RetainedUntil(e) <= today}}
        \ ActiveReferenced(scanned)

ObjectCandidates_Current(scanned) ==
    (Reviewed \cap UNION {References(d) : d \in {e \in scanned : RetainedUntil(e) <= today}})
        \ {Last(delivery[d].versions) : d \in {e \in scanned : delivery[e].active}}

ObjectCandidates(scanned) ==
    (Reviewed \cap UNION {References(d) : d \in {e \in scanned : RetainedUntil(e) <= today}})
        \ ActiveReferenced(scanned)

Ran == runs < MaxRuns /\ runs' = runs + 1

(***************************************************************************)
(* build_result.  A review starts from its own listing: what was approved  *)
(* from an earlier one is not carried over.                                *)
(***************************************************************************)
ListCandidates(limit) ==
    /\ script.at = "idle"
    /\ Ran
    /\ \E scanned \in AtMost(limit, Alive), seen \in AtMost(limit, record) :
       \E ds \in AtMost(CandidateLimit, DeliveryCandidates(scanned)),
          rs \in AtMost(CandidateLimit, {r \in seen : RetiredRecord(r)}),
          os \in AtMost(CandidateLimit, ObjectCandidates(scanned)) :
              listed' = [deliveries |-> ds, records |-> rs, objects |-> os, scanned |-> scanned]
    /\ touched' = {}
    /\ manifest' = <<>>
    /\ UNCHANGED <<today, delivery, record, object, events, script>>

-----------------------------------------------------------------------------
(* The approval, and the deletion of an object *)

Approve(targets) ==
    /\ script.at = "idle" /\ manifest = <<>>
    /\ targets # <<>> /\ Len(targets) <= MaxRecords
    /\ manifest' = targets
    /\ UNCHANGED <<today, delivery, record, object, listed, touched, events, runs, script>>

RemoveObject(o) ==
    /\ o \in listed.objects \cap object
    /\ object' = object \ {o}
    /\ UNCHANGED <<today, delivery, record, listed, touched, manifest, events, runs, script>>

-----------------------------------------------------------------------------
(* delete-firestore-retention-records.py *)

Exists(t) == t \in Alive \/ t \in record

NoScript == [at |-> "idle", allow_missing |-> FALSE, todo |-> <<>>, found |-> <<>>, remade |-> {}]

(***************************************************************************)
(* validate_manifest: a refused manifest changes nothing.                  *)
(***************************************************************************)
StartDeletion(allow_deliveries, allow_missing) ==
    /\ script.at = "idle" /\ manifest # <<>>
    /\ allow_deliveries \/ Range(manifest) \cap Ids = {}
    /\ Ran
    /\ script' = [NoScript EXCEPT !.at = "inspect", !.todo = manifest,
                                  !.allow_missing = allow_missing]
    /\ UNCHANGED <<today, delivery, record, object, listed, touched, manifest, events>>

(***************************************************************************)
(* inspect_targets reads them one by one; one that is missing blocks the   *)
(* run unless it was allowed.                                              *)
(***************************************************************************)
InspectTarget ==
    /\ script.at = "inspect" /\ script.todo # <<>>
    /\ script' = [script EXCEPT
                    !.todo = Tail(@),
                    !.found = IF Exists(Head(script.todo)) THEN Append(@, Head(script.todo)) ELSE @]
    /\ UNCHANGED <<today, delivery, record, object, listed, touched, manifest, events, runs>>

EndInspection ==
    /\ script.at = "inspect" /\ script.todo = <<>>
    /\ script' = IF Len(script.found) < Len(manifest) /\ ~script.allow_missing
                 THEN NoScript
                 ELSE [script EXCEPT !.at = "delete"]
    /\ UNCHANGED <<today, delivery, record, object, listed, touched, manifest, events, runs>>

(***************************************************************************)
(* delete_targets commits a batch when it is full, and what is left of the *)
(* last one after the loop.                                                *)
(***************************************************************************)
Batch(found) == SubSeq(found, 1, Min({BatchSize, Len(found)}))

CommitBatch ==
    /\ script.at = "delete" /\ script.found # <<>>
    /\ LET batch == Range(Batch(script.found))
       IN /\ delivery' = [d \in Ids |-> IF d \in batch THEN Gone ELSE delivery[d]]
          /\ record' = record \ batch
    /\ script' = [script EXCEPT !.found = IF Len(@) <= BatchSize THEN <<>>
                                          ELSE SubSeq(@, BatchSize + 1, Len(@))]
    /\ UNCHANGED <<today, object, listed, touched, manifest, events, runs>>

ReportDeletion ==
    /\ script.at = "delete" /\ script.found = <<>>
    /\ script' = NoScript
    /\ UNCHANGED <<today, delivery, record, object, listed, touched, manifest, events, runs>>

(***************************************************************************)
(* A run may end between any two calls; the next one starts over.          *)
(***************************************************************************)
RunDies ==
    /\ script.at # "idle"
    /\ script' = NoScript
    /\ UNCHANGED <<today, delivery, record, object, listed, touched, manifest, events, runs>>

-----------------------------------------------------------------------------
(* The deliveries in use (DeliveryVersions), as far as the review sees it *)

Event == events < MaxEvents /\ events' = events + 1

Touch(d) == touched' = touched \cup {d}

(***************************************************************************)
(* A new delivery; one of a bespoke report comes back under its fixed id.  *)
(***************************************************************************)
CreateDelivery(d, o) ==
    /\ Event
    /\ delivery[d] = Gone
    /\ delivery' = [delivery EXCEPT ![d] = [active |-> TRUE, expires |-> today + 1,
                                            month |-> today + 1, versions |-> <<o>>]]
    /\ object' = object \cup {o}
    /\ Touch(d)
    /\ script' = [script EXCEPT !.remade = @ \cup {d}]
    /\ UNCHANGED <<today, record, listed, manifest, runs>>

AddVersion(d, o) ==
    /\ Event
    /\ d \in Alive
    /\ delivery' = [delivery EXCEPT ![d].versions = Append(@, o)]
    /\ object' = object \cup {o}
    /\ Touch(d)
    /\ UNCHANGED <<today, record, listed, manifest, runs, script>>

Enable(d) ==
    /\ Event
    /\ d \in Alive /\ ~delivery[d].active
    /\ delivery' = [delivery EXCEPT ![d].active = TRUE]
    /\ Touch(d)
    /\ UNCHANGED <<today, record, object, listed, manifest, runs, script>>

(***************************************************************************)
(* An administrator, or the cleanup.                                       *)
(***************************************************************************)
Disable(d) ==
    /\ d \in Alive /\ delivery[d].active
    /\ delivery' = [delivery EXCEPT ![d].active = FALSE]
    /\ UNCHANGED <<today, record, object, listed, touched, manifest, events, runs, script>>

DayPasses ==
    /\ today < MaxDay
    /\ today' = today + 1
    /\ UNCHANGED <<delivery, record, object, listed, touched, manifest, events, runs, script>>

RetentionInit ==
    /\ today = 0
    /\ delivery = [d \in Ids |-> Gone]
    /\ record = Records
    /\ object = {}
    /\ listed = NoListing
    /\ touched = {}
    /\ manifest = <<>>
    /\ events = 0
    /\ runs = 0
    /\ script = NoScript

RetentionNext ==
    \/ \E limit \in ScanLimits : ListCandidates(limit)
    \/ \E S \in SUBSET (listed.deliveries \cup listed.records) :
          \E targets \in SetToSeqs(S) : Approve(targets)
    \/ \E o \in Objects : RemoveObject(o)
    \/ \E allow_deliveries, allow_missing \in BOOLEAN :
          StartDeletion(allow_deliveries, allow_missing)
    \/ InspectTarget
    \/ EndInspection
    \/ CommitBatch
    \/ ReportDeletion
    \/ RunDies
    \/ \E d \in Ids, o \in Objects : CreateDelivery(d, o) \/ AddVersion(d, o)
    \/ \E d \in Ids : Enable(d) \/ Disable(d)
    \/ DayPasses

RetentionSpec == RetentionInit /\ [][RetentionNext]_retvars

-----------------------------------------------------------------------------
Review == [deliveries : SUBSET Ids, records : SUBSET Records,
           objects : SUBSET Reviewed, scanned : SUBSET Ids]
Targets == Seq(Ids \cup Records)
Script == [at : {"idle", "inspect", "delete"}, allow_missing : BOOLEAN,
           todo : Targets, found : Targets, remade : SUBSET Ids]

RetentionTypeOK ==
    /\ today \in 0..MaxDay
    /\ delivery \in [Ids -> Delivery \cup {Gone}]
    /\ record \subseteq Records /\ object \subseteq Objects
    /\ listed \in Review /\ listed.deliveries \subseteq listed.scanned
    /\ touched \subseteq Ids
    /\ manifest \in Targets
    /\ events \in Nat /\ runs \in Nat
    /\ script \in Script

(***************************************************************************)
(* A delivery's record goes only when it is inactive and long expired, or  *)
(* when somebody used it after the listing: the script does not look again.*)
(***************************************************************************)
RetiredGo ==
    \A d \in Alive :
        delivery'[d] = Gone =>
            \/ ~delivery[d].active /\ delivery[d].expires + DeliveryDays <= today
            \/ d \in touched

(***************************************************************************)
(* An object goes while an active delivery refers to it only when the      *)
(* listing did not reach that delivery, or somebody used it afterwards.    *)
(***************************************************************************)
UnreferencedGo ==
    \A o \in object \ object', d \in Alive :
        delivery[d].active /\ o \in References(d) => d \notin listed.scanned \/ d \in touched

(***************************************************************************)
(* A run that reports its deletion leaves none of the approved records, but*)
(* for deliveries made anew while it ran, whatever earlier runs that died  *)
(* had already deleted.                                                    *)
(***************************************************************************)
ReportedIsGone ==
    ReportDeletion => \A t \in Range(manifest) \ script.remade : ~Exists(t)

(***************************************************************************)
(* What the review deletes is what was listed for it, and all of it,       *)
(* however long it takes and whatever happens to the deliveries meanwhile. *)
(***************************************************************************)
DeletionIsTheListed == [][RetiredGo /\ UnreferencedGo /\ ReportedIsGone]_retvars
=============================================================================
