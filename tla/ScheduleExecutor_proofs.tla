------------------------ MODULE ScheduleExecutor_proofs ------------------------
(***************************************************************************)
(* Proofs about ScheduleExecutor, for any number of calls, operators,      *)
(* reports and dates: a run delivers at most once, and the file it         *)
(* delivers is of its own report and of a template published for it.  They *)
(* rest on the invariant of the definitions (ReportDefinitions_proofs).    *)
(***************************************************************************)
EXTENDS ScheduleExecutor, ReportDefinitions_proofs

(***************************************************************************)
(* The places where a call runs an item, and those where its record is set.*)
(***************************************************************************)
Started == {"resolve", "download", "save", "store", "deliver", "succeed", "failed"}
Busy == Started \cup {"set"}

ReportOf(c) == Head(c.todo).report

(***************************************************************************)
(* A file made from x was made from a template published for r.            *)
(***************************************************************************)
Made(r, x) == x # NoTemplate /\ (r \notin raced => \E v \in published[r] : v.template = x)

CallOK(e) ==
    LET c == call[e]
    IN  /\ c.at \in Busy => c.todo # <<>>
        /\ c.at \in Started => c.step # "validate"
        /\ c.at = "download" =>
              \E v \in published[ReportOf(c)] : v.template # NoTemplate /\ v.path = c.path
        /\ c.at = "save" => Made(ReportOf(c), c.template)
        /\ c.at = "store" /\ c.date \notin mixed =>
              workbook[c.date].report = ReportOf(c) /\ Made(ReportOf(c), workbook[c.date].template)
        /\ c.at = "deliver" =>
              c.step = "deliver" /\ <<Head(c.todo).prefix, c.date, ReportOf(c)>> \in generated

(***************************************************************************)
(* An object in which one report alone was stored is that report's.        *)
(***************************************************************************)
FileOK(p, d, r) ==
    /\ <<p, d, r>> \in generated
    /\ d \notin mixed
    /\ \A q \in Report : <<p, d, q>> \in generated => q = r
    => file[<<p, d>>].report = r /\ Made(r, file[<<p, d>>].template)

DeliveryOK(i) ==
    LET d == deliveries[i]
    IN  d.object[2] = d.run.date /\ <<d.object[1], d.object[2], d.run.report>> \in generated

(***************************************************************************)
(* A call holds the record of the item that it runs.                       *)
(***************************************************************************)
Holds(e, id) == call[e].at \in Busy /\ Id(call[e]) = id

Delivered(id) == \E i \in DOMAIN deliveries : deliveries[i].run = id

(***************************************************************************)
(* A record that calls did not contest has one holder, which found it      *)
(* absent, and what it says follows that holder's place.                   *)
(***************************************************************************)
RecordOK(id) ==
    /\ \A i, j \in DOMAIN deliveries : deliveries[i].run = id /\ deliveries[j].run = id => i = j
    /\ runs[id] = "delivery_succeeded" => Delivered(id)
    /\ Delivered(id) => runs[id] \in {"delivery_started", "delivery_failed", "delivery_succeeded"}

HolderOK(e, id) ==
    Holds(e, id) =>
        /\ call[e].at = "set" => runs[id] = "absent"
        /\ call[e].at \in Started => runs[id] = StartedCode(call[e].step)
        /\ call[e].at \in Started \ {"succeed", "failed"} => ~Delivered(id)
        /\ call[e].at = "succeed" /\ call[e].step = "deliver" => Delivered(id)

OneHolder(id) == \A e, f \in Caller : Holds(e, id) /\ Holds(f, id) => e = f

RunOK(id) == RecordOK(id) /\ OneHolder(id) /\ \A e \in Caller : HolderOK(e, id)

FilesOK == \A p \in Prefixes, d \in Date, r \in Report : FileOK(p, d, r)

IInv ==
    /\ RInv
    /\ TypeOK
    /\ \A e \in Caller : CallOK(e)
    /\ FilesOK
    /\ \A i \in DOMAIN deliveries : DeliveryOK(i)
    /\ \A id \in RunId \ contested : RunOK(id)

-----------------------------------------------------------------------------
(* Values *)

LEMMA DateNotEmpty ==
    /\ (CHOOSE d \in Date : TRUE) \in Date
    /\ (CHOOSE k \in Keys : TRUE) \in Keys
<1>1. PICK m \in Months, d \in Days : TRUE
  BY SomeCall, SomeValues
<1>2. <<m, d>> \in Date
  BY DEF Date
<1> QED
  BY <1>2, SomeCall

LEMMA NoCallType ==
    /\ NoCall \in Call /\ NoCall.at = "idle" /\ NoCall.todo = <<>> /\ NoCall.path = 0
    /\ NoCall.template = NoTemplate
<1>1. <<>> \in Seq(Item)
  OBVIOUS
<1>2. "idle" \in CallPlaces /\ "validate" \in Steps /\ NoTemplate \in Content
  BY DEF CallPlaces, Steps, Content
<1> QED
  BY <1>1, <1>2, DateNotEmpty DEF NoCall, Call

(***************************************************************************)
(* What the types say of one call.                                         *)
(***************************************************************************)
LEMMA CallFields ==
    ASSUME NEW c \in Call
    PROVE  /\ c.at \in CallPlaces /\ c.step \in Steps /\ c.key \in Keys /\ c.date \in Date
           /\ c.todo \in Seq(Item) /\ c.path \in Nat /\ c.template \in Content
           /\ c.todo # <<>> =>
                 /\ Head(c.todo).report \in Report /\ Head(c.todo).prefix \in Prefixes
                 /\ Head(c.todo).time \in Times /\ Tail(c.todo) \in Seq(Item)
                 /\ Id(c) \in RunId
<1>1. /\ c.at \in CallPlaces /\ c.step \in Steps /\ c.key \in Keys /\ c.date \in Date
      /\ c.todo \in Seq(Item) /\ c.path \in Nat /\ c.template \in Content
  BY DEF Call
<1>2. ASSUME c.todo # <<>>
      PROVE  Head(c.todo) \in Item /\ Tail(c.todo) \in Seq(Item)
  BY <1>1, <1>2
<1>3. \A i \in Item : i.report \in Report /\ i.prefix \in Prefixes /\ i.time \in Times
  BY DEF Item
<1>4. ASSUME c.todo # <<>> PROVE Id(c) \in RunId
  <2>1. Head(c.todo).report \in Report /\ Head(c.todo).time \in Times
    BY <1>2, <1>3, <1>4
  <2> QED
    BY <1>1, <2>1 DEF Id, RunId
<1> QED
  BY <1>1, <1>2, <1>3, <1>4

LEMMA CTypes ==
    ASSUME TypeOK
    PROVE  /\ call \in [Caller -> Call] /\ \A e \in Caller : call[e] \in Call
           /\ runs \in [RunId -> ResultCodes] /\ workbook \in [Date -> File]
           /\ file \in [Object -> File] /\ deliveries \in Seq(DeliveryRecord)
           /\ contested \in SUBSET RunId /\ mixed \in SUBSET Date
           /\ generated \in SUBSET (Prefixes \X Date \X Report)
           /\ calls \in Nat /\ faults \in Nat /\ DefinitionsTypeOK
<1>1. DefinitionsTypeOK
  BY DEF TypeOK
<1>2. faults \in Nat
  BY <1>1, RTypes
<1> QED
  BY <1>1, <1>2 DEF TypeOK

(***************************************************************************)
(* What Goto, NextItem and Return make of a call.                          *)
(***************************************************************************)
LEMMA GotoCall ==
    ASSUME TypeOK, NEW e \in Caller, NEW place \in CallPlaces, Goto(e, place)
    PROVE  \E c \in Call : /\ call' = [call EXCEPT ![e] = c]
                           /\ c.at = place /\ c.step = call[e].step /\ c.key = call[e].key
                           /\ c.date = call[e].date /\ c.todo = call[e].todo
                           /\ c.path = call[e].path /\ c.template = call[e].template
                           /\ Id(c) = Id(call[e])
<1> DEFINE c == [call[e] EXCEPT !.at = place]
<1>1. call \in [Caller -> Call] /\ call[e] \in Call
  BY CTypes
<1>2. /\ c \in Call
      /\ c.at = place /\ c.step = call[e].step /\ c.key = call[e].key
      /\ c.date = call[e].date /\ c.todo = call[e].todo
      /\ c.path = call[e].path /\ c.template = call[e].template
  BY <1>1 DEF Call
<1>3. call' = [call EXCEPT ![e] = c]
  BY <1>1 DEF Goto
<1> HIDE DEF c
<1>4. Id(c) = Id(call[e])
  BY <1>2 DEF Id
<1> QED
  BY <1>2, <1>3, <1>4

LEMMA NextItemCall ==
    ASSUME TypeOK, NEW e \in Caller, call[e].todo # <<>>, NextItem(e)
    PROVE  \E c \in Call : call' = [call EXCEPT ![e] = c] /\ c.at = "loop"
<1>1. call \in [Caller -> Call] /\ call[e] \in Call
  BY CTypes
<1>2. PICK tail \in Seq(Item) : tail = Tail(call[e].todo)
  BY <1>1, CallFields
<1> DEFINE c == [call[e] EXCEPT !.at = "loop", !.todo = tail, !.path = 0, !.template = NoTemplate]
<1>3. c \in Call /\ c.at = "loop"
  BY <1>1 DEF Call, CallPlaces, Content
<1>4. call' = [call EXCEPT ![e] = c]
  BY <1>1, <1>2 DEF NextItem
<1> QED
  BY <1>3, <1>4

LEMMA OneCall ==
    ASSUME TypeOK, NEW e \in Caller, NEW c \in Call, call' = [call EXCEPT ![e] = c]
    PROVE  /\ call' \in [Caller -> Call] /\ call'[e] = c
           /\ \A f \in Caller \ {e} : call'[f] = call[f]
BY CTypes

-----------------------------------------------------------------------------
(* What a step leaves as it was *)

(***************************************************************************)
(* Another call, whatever the definitions become: only the workbook of its *)
(* date must not be replaced while it is about to store it.                *)
(***************************************************************************)
LEMMA CallStays ==
    ASSUME Grows, NEW f, call[f] \in Call, call'[f] = call[f], CallOK(f),
           mixed \subseteq mixed', generated \subseteq generated',
           call[f].at = "store" /\ call[f].date \notin mixed' =>
              workbook'[call[f].date] = workbook[call[f].date]
    PROVE  CallOK(f)'
<1> DEFINE c == call[f]
<1>1. c.at \in Busy => c.todo # <<>> /\ ReportOf(c) \in Report
  BY CallFields DEF CallOK, ReportOf
<1>2. ASSUME c.at = "download"
      PROVE  \E v \in published'[ReportOf(c)] : v.template # NoTemplate /\ v.path = c.path
  BY <1>1, <1>2 DEF CallOK, Grows, Busy, Started
<1>3. ASSUME c.at = "save" PROVE Made(ReportOf(c), c.template)'
  <2>1. Made(ReportOf(c), c.template) /\ ReportOf(c) \in Report
    BY <1>1, <1>3 DEF CallOK, Busy, Started
  <2> QED
    BY <2>1 DEF Made, Grows
<1>4. ASSUME c.at = "store", c.date \notin mixed'
      PROVE  /\ workbook'[c.date].report = ReportOf(c)
             /\ Made(ReportOf(c), workbook[c.date].template)'
  <2>1. /\ Made(ReportOf(c), workbook[c.date].template) /\ ReportOf(c) \in Report
        /\ workbook'[c.date] = workbook[c.date] /\ workbook[c.date].report = ReportOf(c)
    BY <1>1, <1>4 DEF CallOK, Busy, Started
  <2> QED
    BY <2>1 DEF Made, Grows
<1> QED
  BY <1>1, <1>2, <1>3, <1>4 DEF CallOK, Made, ReportOf

LEMMA FilesStay ==
    ASSUME Grows, FilesOK, UNCHANGED <<file, generated>>, mixed \subseteq mixed'
    PROVE  FilesOK'
<1>1. ASSUME NEW p \in Prefixes, NEW d \in Date, NEW r \in Report
      PROVE  FileOK(p, d, r)'
  BY DEF FilesOK, FileOK, Made, Grows
<1> QED
  BY <1>1 DEF FilesOK

(***************************************************************************)
(* A step that sets no record and delivers nothing, of a call that goes on *)
(* with its item, gives it up or had none.                                 *)
(***************************************************************************)
LEMMA RunsStay ==
    ASSUME TypeOK, NEW e \in Caller, NEW c \in Call, call' = [call EXCEPT ![e] = c],
           \A id \in RunId \ contested : RunOK(id),
           UNCHANGED <<runs, deliveries>>, contested \subseteq contested',
           c.at \in Busy =>
              /\ call[e].at \in Started /\ c.at \in Started
              /\ Id(c) = Id(call[e]) /\ c.step = call[e].step
              /\ c.at \notin {"succeed", "failed"} => call[e].at \notin {"succeed", "failed"}
              /\ c.at = "succeed" => c.step # "deliver"
    PROVE  \A id \in RunId \ contested' : RunOK(id)'
<1> TAKE id \in RunId \ contested'
<1>1. RunOK(id)
  OBVIOUS
<1>2. call'[e] = c /\ \A f \in Caller \ {e} : call'[f] = call[f]
  BY OneCall
<1>3. RecordOK(id)'
  BY <1>1 DEF RunOK, RecordOK, Delivered
<1>4. Holds(e, id)' => Holds(e, id)
  BY <1>2 DEF Holds, Busy
<1>5. \A f \in Caller \ {e} : Holds(f, id)' <=> Holds(f, id)
  BY <1>2 DEF Holds
<1>6. OneHolder(id)'
  BY <1>1, <1>4, <1>5 DEF RunOK, OneHolder
<1>7. HolderOK(e, id)'
  <2> SUFFICES ASSUME Holds(e, id)' PROVE HolderOK(e, id)'
    BY DEF HolderOK
  <2>1. Holds(e, id) /\ HolderOK(e, id) /\ c.at \in Busy
    BY <1>1, <1>2, <1>4 DEF RunOK, Holds
  <2> QED
    BY <1>2, <2>1 DEF HolderOK, Delivered, Started
<1>8. ASSUME NEW f \in Caller \ {e} PROVE HolderOK(f, id)'
  BY <1>1, <1>2, <1>5, <1>8 DEF RunOK, HolderOK, Delivered
<1> QED
  BY <1>3, <1>6, <1>7, <1>8 DEF RunOK

(***************************************************************************)
(* A step of call e keeps the invariant if it keeps what it may disturb.   *)
(***************************************************************************)
LEMMA CallStep ==
    ASSUME IInv, NEW e \in Caller, NEW c \in Call, call' = [call EXCEPT ![e] = c],
           UNCHANGED <<scope, docs, edits, task>>, faults' \in Nat, calls' \in Nat,
           runs' \in [RunId -> ResultCodes], workbook' \in [Date -> File],
           file' \in [Object -> File], deliveries' \in Seq(DeliveryRecord),
           contested' \in SUBSET RunId, mixed' \in SUBSET Date,
           generated' \in SUBSET (Prefixes \X Date \X Report),
           mixed \subseteq mixed', generated \subseteq generated',
           \A f \in Caller \ {e} : call[f].at = "store" /\ call[f].date \notin mixed' =>
              workbook'[call[f].date] = workbook[call[f].date],
           CallOK(e)', FilesOK', \A i \in DOMAIN deliveries' : DeliveryOK(i)',
           \A id \in RunId \ contested' : RunOK(id)'
    PROVE  IInv'
<1>1. RInv' /\ Grows
  BY ReaderKeepsRInv DEF IInv
<1>2. TypeOK /\ \A f \in Caller : CallOK(f)
  BY DEF IInv
<1>3. call' \in [Caller -> Call] /\ \A f \in Caller \ {e} : call'[f] = call[f] /\ call[f] \in Call
  BY <1>2, OneCall, CTypes
<1>4. TypeOK'
  BY <1>1, <1>3 DEF TypeOK, RInv
<1>5. \A f \in Caller \ {e} : CallOK(f)'
  BY <1>1, <1>2, <1>3, CallStays
<1> QED
  BY <1>1, <1>4, <1>5 DEF IInv

(***************************************************************************)
(* The same for a step that leaves every result as it was.                 *)
(***************************************************************************)
LEMMA LocalStep ==
    ASSUME IInv, NEW e \in Caller, NEW c \in Call, call' = [call EXCEPT ![e] = c],
           UNCHANGED <<scope, docs, edits, task, results>>, faults' \in Nat, calls' \in Nat,
           CallOK(e)',
           c.at \in Busy =>
              /\ call[e].at \in Started /\ c.at \in Started
              /\ Id(c) = Id(call[e]) /\ c.step = call[e].step
              /\ c.at \notin {"succeed", "failed"} => call[e].at \notin {"succeed", "failed"}
              /\ c.at = "succeed" => c.step # "deliver"
    PROVE  IInv'
<1>1. /\ TypeOK /\ FilesOK /\ \A i \in DOMAIN deliveries : DeliveryOK(i)
      /\ \A id \in RunId \ contested : RunOK(id)
  BY DEF IInv
<1>2. /\ UNCHANGED <<runs, workbook, file, deliveries, contested, mixed, generated>>
      /\ UNCHANGED <<scope, docs, edits, task>>
  BY DEF results
<1>3. Grows
  BY <1>2, ReaderKeepsRInv DEF IInv
<1>4. FilesOK'
  BY <1>1, <1>2, <1>3, FilesStay
<1>5. \A i \in DOMAIN deliveries' : DeliveryOK(i)'
  BY <1>1, <1>2 DEF DeliveryOK
<1>6. \A id \in RunId \ contested' : RunOK(id)'
  BY <1>1, <1>2, RunsStay
<1>7. /\ runs' \in [RunId -> ResultCodes] /\ workbook' \in [Date -> File]
      /\ file' \in [Object -> File] /\ deliveries' \in Seq(DeliveryRecord)
      /\ contested' \in SUBSET RunId /\ mixed' \in SUBSET Date
      /\ generated' \in SUBSET (Prefixes \X Date \X Report)
  BY <1>1, <1>2, CTypes
<1> QED
  BY <1>2, <1>4, <1>5, <1>6, <1>7, CallStep

-----------------------------------------------------------------------------
(* The steps that change no result *)

(***************************************************************************)
(* The items of a new call are of the definitions that the query streamed. *)
(***************************************************************************)
LEMMA StartCallStep ==
    ASSUME IInv, NEW e \in Caller, StartCall(e), UNCHANGED <<scope, docs, edits, task>>
    PROVE  IInv'
<1>0. TypeOK /\ DefinitionsTypeOK
  BY CTypes DEF IInv
<1>1. PICK step \in Steps, key \in Keys, d \in Date, time \in Times, domains \in BOOLEAN,
           asked \in SUBSET Report, chosen \in Streams :
          /\ {chosen[i] : i \in DOMAIN chosen} =
                {k \in DOMAIN Documents :
                    Documents[k] \in asked /\ Runs(Documents[k], step, d[2], time, domains)}
          /\ call' = [call EXCEPT ![e] = [NoCall EXCEPT
                !.at = "loop", !.step = step, !.key = key, !.date = d,
                !.todo = [i \in DOMAIN chosen |-> ItemOf(Documents[chosen[i]])]]]
  BY DEF StartCall
<1>2. PICK todo \in Seq(Item) : todo = [i \in DOMAIN chosen |-> ItemOf(Documents[chosen[i]])]
  <2>1. PICK n \in DOMAIN Documents : chosen \in [1..n -> DOMAIN Documents]
    BY DEF Streams
  <2>2. n \in Nat
    BY <2>1, SomeReport
  <2>3. ASSUME NEW r \in Report PROVE ItemOf(r) \in Item
    <3>1. definition[r] \in Definition
      BY <1>0, RTypes
    <3>2. definition[r].prefix \in Prefixes /\ definition[r].schedule.time \in Times
      BY <3>1 DEF Definition, Schedule
    <3> QED
      BY <3>2 DEF ItemOf, Item
  <2>4. \A i \in 1..n : ItemOf(Documents[chosen[i]]) \in Item
    BY <2>1, <2>3 DEF Report
  <2>5. DOMAIN chosen = 1..n
    BY <2>1
  <2>6. [i \in 1..n |-> ItemOf(Documents[chosen[i]])] \in Seq(Item)
    BY <2>2, <2>4
  <2> QED
    BY <2>5, <2>6
<1> DEFINE c == [NoCall EXCEPT !.at = "loop", !.step = step, !.key = key, !.date = d, !.todo = todo]
<1>3. c \in Call /\ c.at = "loop"
  BY NoCallType DEF Call, CallPlaces
<1>4. call' = [call EXCEPT ![e] = c]
  BY <1>1, <1>2
<1> HIDE DEF c
<1>5. UNCHANGED results /\ faults' \in Nat /\ calls' \in Nat
  BY <1>0, CTypes DEF StartCall
<1>6. CallOK(e)'
  BY <1>0, <1>3, <1>4, OneCall DEF CallOK, Busy, Started
<1> QED
  BY <1>3, <1>4, <1>5, <1>6, LocalStep DEF Busy, Started

LEMMA EndCallStep ==
    ASSUME IInv, NEW e \in Caller, EndCall(e), UNCHANGED <<scope, docs, edits, task>>
    PROVE  IInv'
<1>0. TypeOK
  BY DEF IInv
<1>1. call' = [call EXCEPT ![e] = NoCall] /\ UNCHANGED results /\ faults' \in Nat /\ calls' \in Nat
  BY <1>0, CTypes DEF EndCall, Return, NoFault
<1>2. CallOK(e)'
  BY <1>0, <1>1, NoCallType, OneCall DEF CallOK, Busy, Started
<1> QED
  BY <1>1, <1>2, NoCallType, LocalStep DEF Busy, Started

LEMMA CallDiesStep ==
    ASSUME IInv, NEW e \in Caller, CallDies(e), UNCHANGED <<scope, docs, edits, task>>
    PROVE  IInv'
<1>0. TypeOK
  BY DEF IInv
<1>1. call' = [call EXCEPT ![e] = NoCall] /\ UNCHANGED results /\ faults' \in Nat /\ calls' \in Nat
  BY <1>0, CTypes DEF CallDies, Return, Fault
<1>2. CallOK(e)'
  BY <1>0, <1>1, NoCallType, OneCall DEF CallOK, Busy, Started
<1> QED
  BY <1>1, <1>2, NoCallType, LocalStep DEF Busy, Started

LEMMA ItemFailsStep ==
    ASSUME IInv, NEW e \in Caller, ItemFails(e), UNCHANGED <<scope, docs, edits, task>>
    PROVE  IInv'
<1>0. TypeOK /\ CallOK(e)
  BY DEF IInv
<1>1. /\ Goto(e, "failed") /\ UNCHANGED results /\ faults' \in Nat /\ calls' \in Nat
      /\ call[e].at \in Started
  BY <1>0, CTypes DEF ItemFails, Fault, Started
<1>2. PICK c \in Call : /\ call' = [call EXCEPT ![e] = c]
                        /\ c.at = "failed" /\ c.step = call[e].step /\ c.todo = call[e].todo
                        /\ Id(c) = Id(call[e])
  BY <1>0, <1>1, GotoCall DEF CallPlaces
<1>3. CallOK(e)'
  BY <1>0, <1>1, <1>2, OneCall DEF CallOK, Busy, Started
<1> QED
  BY <1>1, <1>2, <1>3, LocalStep DEF Started

(***************************************************************************)
(* The version that is current when the template is resolved was published.*)
(***************************************************************************)
LEMMA ResolveStep ==
    ASSUME IInv, NEW e \in Caller, Resolve(e), UNCHANGED <<scope, docs, edits, task>>
    PROVE  IInv'
<1>0. TypeOK /\ DefinitionsTypeOK /\ CallOK(e) /\ call[e] \in Call /\ call[e].at = "resolve"
  BY CTypes DEF IInv, Resolve
<1>1. UNCHANGED results /\ faults' \in Nat /\ calls' \in Nat
  BY <1>0, CTypes DEF Resolve, NoFault
<1>2. CASE Goto(e, "failed")
  <2>1. PICK c \in Call : /\ call' = [call EXCEPT ![e] = c]
                          /\ c.at = "failed" /\ c.step = call[e].step /\ c.todo = call[e].todo
                          /\ Id(c) = Id(call[e])
    BY <1>0, <1>2, GotoCall DEF CallPlaces
  <2>2. CallOK(e)'
    BY <1>0, <2>1, OneCall DEF CallOK, Busy, Started
  <2> QED
    BY <1>0, <1>1, <2>1, <2>2, LocalStep DEF Started
<1>3. CASE ~Goto(e, "failed")
  <2>r. PICK r \in Report : r = ReportOf(call[e])
    BY <1>0, CallFields DEF CallOK, Busy, Started, ReportOf
  <2>1. /\ HasCurrent(definition[r]) /\ Current(definition[r]).template # NoTemplate
        /\ call' = [call EXCEPT ![e].at = "download", ![e].path = Current(definition[r]).path]
    BY <1>3, <2>r DEF Resolve, ReportOf
  <2>2. PICK i \in DOMAIN definition[r].versions :
            Current(definition[r]) = definition[r].versions[i]
    BY <2>1, CurrentIsListed
  <2>3. PICK v \in published[r] : v = Current(definition[r])
    BY <2>2 DEF IInv, RInv, DefinitionOK, ListOK
  <2>4. v.path \in Nat /\ v.template # NoTemplate
    BY <1>0, <2>1, <2>3, RTypes, VersionTypes
  <2> DEFINE c == [call[e] EXCEPT !.at = "download", !.path = v.path]
  <2>5. /\ c \in Call /\ c.at = "download" /\ c.path = v.path /\ c.step = call[e].step
        /\ c.todo = call[e].todo /\ c.date = call[e].date /\ c.key = call[e].key
    BY <1>0, <2>4 DEF Call, CallPlaces
  <2>6. call' = [call EXCEPT ![e] = c]
    BY <1>0, <2>1, <2>3, CTypes
  <2> HIDE DEF c
  <2>7. Id(c) = Id(call[e]) /\ ReportOf(c) = r
    BY <2>5, <2>r DEF Id, ReportOf
  <2>8. published' = published
    BY DEF docs
  <2>9. CallOK(e)'
    <3>1. \E w \in published'[ReportOf(c)] : w.template # NoTemplate /\ w.path = c.path
      BY <2>4, <2>5, <2>7, <2>8
    <3> QED
      BY <1>0, <2>5, <2>6, <3>1, OneCall DEF CallOK, Busy, Started
  <2> QED
    BY <1>0, <1>1, <2>5, <2>6, <2>7, <2>9, LocalStep DEF Started
<1> QED
  BY <1>2, <1>3

(***************************************************************************)
(* The template is downloaded later, by its path: what is stored there is  *)
(* still what was published, unless publishes overlapped.                  *)
(***************************************************************************)
LEMMA DownloadStep ==
    ASSUME IInv, NEW e \in Caller, Download(e), UNCHANGED <<scope, docs, edits, task>>
    PROVE  IInv'
<1>0. TypeOK /\ DefinitionsTypeOK /\ CallOK(e) /\ call[e] \in Call /\ call[e].at = "download"
  BY CTypes DEF IInv, Download
<1>1. UNCHANGED results /\ faults' \in Nat /\ calls' \in Nat
  BY <1>0, CTypes DEF Download, NoFault
<1>r. PICK r \in Report : r = ReportOf(call[e])
  BY <1>0, CallFields DEF CallOK, Busy, Started, ReportOf
<1>2. PICK v \in published[r] : v.template # NoTemplate /\ v.path = call[e].path
  BY <1>0, <1>r DEF CallOK
<1>3. /\ v.path \in DOMAIN object[r]
      /\ r \notin raced => object[r][v.path] = v.template
  BY <1>2 DEF IInv, RInv, DefinitionOK, PublishedOK, HasObject, UnracedOK, TemplatesStand
<1>4. PICK x \in Templates : x = object[r][call[e].path]
  BY <1>0, <1>2, <1>3, RTypes
<1>5. Made(r, x)
  BY <1>2, <1>3, <1>4, NoTemplateIsNone DEF Made
<1>6. PICK c \in Call :
          /\ call' = [call EXCEPT ![e] = c]
          /\ c.at = "save" /\ c.template = x /\ c.step = call[e].step
          /\ c.todo = call[e].todo /\ c.date = call[e].date /\ c.key = call[e].key
  <2> DEFINE c == [call[e] EXCEPT !.at = "save", !.template = x]
  <2>1. /\ c \in Call /\ c.at = "save" /\ c.template = x /\ c.step = call[e].step
        /\ c.todo = call[e].todo /\ c.date = call[e].date /\ c.key = call[e].key
    BY <1>0, <1>4 DEF Call, CallPlaces, Content
  <2>2. call' = [call EXCEPT ![e] = c]
    BY <1>0, <1>r, <1>4, CTypes DEF Download, ReportOf
  <2> HIDE DEF c
  <2> QED
    BY <2>1, <2>2
<1>7. Id(c) = Id(call[e]) /\ ReportOf(c) = r
  BY <1>6, <1>r DEF Id, ReportOf
<1>8. CallOK(e)'
  <2>1. published' = published /\ raced' = raced
    BY DEF docs
  <2>2. Made(ReportOf(c), c.template)'
    BY <1>5, <1>6, <1>7, <2>1 DEF Made
  <2>3. call'[e] = c
    BY <1>0, <1>6, OneCall
  <2>4. Made(ReportOf(call[e]), call[e].template)'
    BY <2>2, <2>3
  <2> QED
    BY <1>0, <1>6, <2>3, <2>4 DEF CallOK, Busy, Started
<1> QED
  BY <1>0, <1>1, <1>6, <1>7, <1>8, LocalStep DEF Started

-----------------------------------------------------------------------------
(* The steps that change results *)

(***************************************************************************)
(* Two calls that find the record absent contest it; a call beyond its set *)
(* made the record, so that it is not found absent.                        *)
(***************************************************************************)
LEMMA LookStep ==
    ASSUME IInv, NEW e \in Caller, Look(e), UNCHANGED <<scope, docs, edits, task>>
    PROVE  IInv'
<1>0. /\ TypeOK /\ FilesOK /\ \A i \in DOMAIN deliveries : DeliveryOK(i)
      /\ \A id \in RunId \ contested : RunOK(id)
      /\ \A f \in Caller : CallOK(f)
      /\ call[e] \in Call /\ call[e].at = "loop" /\ call[e].todo # <<>> /\ Id(call[e]) \in RunId
  BY CTypes, CallFields DEF IInv, Look
<1>1. /\ UNCHANGED <<runs, workbook, file, deliveries, mixed, generated>>
      /\ faults' \in Nat /\ calls' \in Nat
  BY <1>0, CTypes DEF Look, NoFault
<1>2. /\ contested \subseteq contested' /\ contested' \in SUBSET RunId
      /\ \A f \in Caller \ {e} : ~Recorded(Id(call[e])) /\ call[f].at = "set"
                                 /\ Id(call[f]) = Id(call[e]) => Id(call[e]) \in contested'
  BY <1>0, CTypes DEF Look
<1>3. Grows
  BY ReaderKeepsRInv, <1>1 DEF IInv
<1>4. FilesOK'
  BY <1>0, <1>1, <1>3, FilesStay
<1>5. \A i \in DOMAIN deliveries' : DeliveryOK(i)'
  BY <1>0, <1>1 DEF DeliveryOK
<1>6. /\ runs' \in [RunId -> ResultCodes] /\ workbook' \in [Date -> File]
      /\ file' \in [Object -> File] /\ deliveries' \in Seq(DeliveryRecord)
      /\ mixed' \in SUBSET Date /\ generated' \in SUBSET (Prefixes \X Date \X Report)
  BY <1>0, <1>1, CTypes
<1>7. CASE Recorded(Id(call[e]))
  <2>1. NextItem(e)
    BY <1>7 DEF Look
  <2>2. PICK c \in Call : call' = [call EXCEPT ![e] = c] /\ c.at = "loop"
    BY <1>0, <2>1, NextItemCall
  <2>3. CallOK(e)'
    BY <1>0, <2>2, OneCall DEF CallOK, Busy, Started
  <2>4. \A id \in RunId \ contested' : RunOK(id)'
    BY <1>0, <1>1, <1>2, <2>2, RunsStay DEF Busy, Started
  <2> QED
    BY <1>1, <1>2, <1>4, <1>5, <1>6, <2>2, <2>3, <2>4, CallStep
<1>8. CASE ~Recorded(Id(call[e]))
  <2>1. Goto(e, "set")
    BY <1>8 DEF Look
  <2>2. PICK c \in Call : /\ call' = [call EXCEPT ![e] = c]
                          /\ c.at = "set" /\ c.todo = call[e].todo /\ Id(c) = Id(call[e])
    BY <1>0, <2>1, GotoCall DEF CallPlaces
  <2>3. call'[e] = c /\ \A f \in Caller \ {e} : call'[f] = call[f]
    BY <1>0, <2>2, OneCall
  <2>4. CallOK(e)'
    BY <1>0, <2>2, <2>3 DEF CallOK, Busy, Started
  <2>5. ASSUME NEW id \in RunId \ contested' PROVE RunOK(id)'
    <3>0. RunOK(id) /\ runs' = runs /\ deliveries' = deliveries
      BY <1>0, <1>1, <1>2
    <3>1. RecordOK(id)'
      BY <3>0 DEF RunOK, RecordOK, Delivered
    <3>2. \A f \in Caller \ {e} : Holds(f, id)' <=> Holds(f, id)
      BY <2>3 DEF Holds
    <3>3. \A f \in Caller \ {e} : HolderOK(f, id)'
      BY <2>3, <3>0, <3>2 DEF RunOK, HolderOK, Delivered
    <3>4. Holds(e, id)' <=> id = Id(call[e])
      BY <2>2, <2>3 DEF Holds, Busy
    <3>5. HolderOK(e, id)'
      BY <1>8, <2>2, <2>3, <3>0, <3>4 DEF HolderOK, Recorded, Started
    <3>6. ASSUME id = Id(call[e]), NEW f \in Caller \ {e}, Holds(f, id) PROVE FALSE
      <4>1. call[f].at # "set"
        BY <1>2, <1>8, <3>6 DEF Holds
      <4>2. call[f].at \in Started
        BY <3>6, <4>1 DEF Holds, Busy
      <4>3. runs[id] = StartedCode(call[f].step) /\ call[f].step \in Steps
        BY <1>0, <3>0, <3>6, <4>2, CTypes, CallFields DEF RunOK, HolderOK
      <4> QED
        BY <1>8, <3>6, <4>3 DEF Recorded, StartedCode, Steps
    <3>7. OneHolder(id)'
      BY <3>0, <3>2, <3>4, <3>6 DEF RunOK, OneHolder
    <3> QED
      BY <3>1, <3>3, <3>5, <3>7 DEF RunOK
  <2> QED
    BY <1>1, <1>2, <1>4, <1>5, <1>6, <2>2, <2>4, <2>5, CallStep
<1> QED
  BY <1>7, <1>8

(***************************************************************************)
(* A step of call e on its item's record: what it does to that record and  *)
(* leaves to the others.                                                   *)
(***************************************************************************)
LEMMA HeldRun ==
    ASSUME TypeOK, NEW e \in Caller, NEW c \in Call, call' = [call EXCEPT ![e] = c],
           call[e].at \in Busy, c.at \in Busy => Id(c) = Id(call[e]),
           \A id \in RunId \ contested : RunOK(id), contested' = contested,
           \A id \in RunId \ contested : id # Id(call[e]) =>
              RecordOK(id)' /\ (Delivered(id)' <=> Delivered(id)) /\ runs'[id] = runs[id],
           NEW own \in RunId, own = Id(call[e]),
           own \notin contested => RecordOK(own)' /\ HolderOK(e, own)'
    PROVE  \A id \in RunId \ contested' : RunOK(id)'
<1> TAKE id \in RunId \ contested'
<1>1. RunOK(id)
  OBVIOUS
<1>2. call'[e] = c /\ \A f \in Caller \ {e} : call'[f] = call[f]
  BY OneCall
<1>3. \A f \in Caller \ {e} : Holds(f, id)' <=> Holds(f, id)
  BY <1>2 DEF Holds
<1>4. CASE id = own
  <2>1. \A f \in Caller \ {e} : ~Holds(f, id)
    BY <1>1, <1>4 DEF RunOK, OneHolder, Holds
  <2>2. OneHolder(id)' /\ \A f \in Caller \ {e} : HolderOK(f, id)'
    BY <1>3, <2>1 DEF OneHolder, HolderOK
  <2> QED
    BY <1>4, <2>2 DEF RunOK
<1>5. CASE id # own
  <2>1. ~Holds(e, id)'
    BY <1>2, <1>5 DEF Holds
  <2>2. OneHolder(id)' /\ HolderOK(e, id)'
    BY <1>1, <1>3, <2>1 DEF RunOK, OneHolder, HolderOK
  <2>3. \A f \in Caller \ {e} : HolderOK(f, id)'
    BY <1>1, <1>2, <1>3, <1>5 DEF RunOK, HolderOK
  <2> QED
    BY <1>5, <2>2, <2>3 DEF RunOK
<1> QED
  BY <1>4, <1>5

LEMMA CodeStep ==
    ASSUME IInv, NEW e \in Caller, NEW c \in Call, call' = [call EXCEPT ![e] = c],
           UNCHANGED <<scope, docs, edits, task>>, faults' \in Nat, calls' \in Nat,
           UNCHANGED <<workbook, file, deliveries, contested, mixed, generated>>,
           call[e].at \in Busy, c.at \in Busy => Id(c) = Id(call[e]),
           NEW own \in RunId, own = Id(call[e]),
           NEW code \in ResultCodes, runs' = [runs EXCEPT ![own] = code], CallOK(e)',
           own \notin contested => RecordOK(own)' /\ HolderOK(e, own)'
    PROVE  IInv'
<1>0. /\ TypeOK /\ FilesOK /\ \A i \in DOMAIN deliveries : DeliveryOK(i)
      /\ \A id \in RunId \ contested : RunOK(id)
  BY DEF IInv
<1>1. Grows
  BY ReaderKeepsRInv DEF IInv
<1>2. FilesOK'
  BY <1>0, <1>1, FilesStay
<1>3. \A i \in DOMAIN deliveries' : DeliveryOK(i)'
  BY <1>0 DEF DeliveryOK
<1>4. runs' \in [RunId -> ResultCodes] /\ \A id \in RunId : id # own => runs'[id] = runs[id]
  BY <1>0, CTypes
<1>5. \A id \in RunId \ contested : id # own =>
          RecordOK(id)' /\ (Delivered(id)' <=> Delivered(id)) /\ runs'[id] = runs[id]
  BY <1>0, <1>4 DEF RunOK, RecordOK, Delivered
<1>6. \A id \in RunId \ contested' : RunOK(id)'
  BY <1>0, <1>5, HeldRun
<1>7. /\ workbook' \in [Date -> File] /\ file' \in [Object -> File]
      /\ deliveries' \in Seq(DeliveryRecord) /\ contested' \in SUBSET RunId
      /\ mixed' \in SUBSET Date /\ generated' \in SUBSET (Prefixes \X Date \X Report)
  BY <1>0, CTypes
<1> QED
  BY <1>2, <1>3, <1>4, <1>6, <1>7, CallStep

LEMMA SetRecordStep ==
    ASSUME IInv, NEW e \in Caller, SetRecord(e), UNCHANGED <<scope, docs, edits, task>>
    PROVE  IInv'
<1>0. /\ TypeOK /\ CallOK(e) /\ call[e] \in Call /\ call[e].at = "set" /\ call[e].at \in Busy
      /\ call[e].step \in Steps
  BY CTypes, CallFields DEF IInv, SetRecord, Busy
<1>1. call[e].todo # <<>> /\ Id(call[e]) \in RunId
  BY <1>0, CallFields DEF CallOK
<1>2. /\ UNCHANGED <<workbook, file, deliveries, contested, mixed, generated>>
      /\ faults' \in Nat /\ calls' \in Nat
  BY <1>0, CTypes DEF SetRecord, NoFault
<1>3. PICK own \in RunId, code \in ResultCodes :
          own = Id(call[e]) /\ code = StartedCode(call[e].step) /\ code # "delivery_succeeded"
  BY <1>0, <1>1 DEF StartedCode, Steps, ResultCodes
<1>4. runs' = [runs EXCEPT ![own] = code] /\ runs'[own] = code
  BY <1>0, <1>3, CTypes DEF SetRecord
<1>5. own \notin contested => ~Delivered(own) /\ RecordOK(own)'
  <2> SUFFICES ASSUME own \notin contested PROVE ~Delivered(own) /\ RecordOK(own)'
    OBVIOUS
  <2>1. RunOK(own)
    BY DEF IInv
  <2>2. runs[own] = "absent"
    BY <1>0, <1>3, <2>1 DEF RunOK, HolderOK, Holds
  <2>3. ~Delivered(own)
    BY <2>1, <2>2 DEF RunOK, RecordOK
  <2> QED
    BY <1>2, <1>3, <1>4, <2>1, <2>3 DEF RunOK, RecordOK, Delivered
<1>6. CASE call[e].step = "validate"
  <2>1. NextItem(e)
    BY <1>6 DEF SetRecord
  <2>2. PICK c \in Call : call' = [call EXCEPT ![e] = c] /\ c.at = "loop"
    BY <1>0, <1>1, <2>1, NextItemCall
  <2>3. call'[e] = c
    BY <1>0, <2>2, OneCall
  <2>4. CallOK(e)' /\ HolderOK(e, own)' /\ c.at \notin Busy
    BY <2>2, <2>3 DEF CallOK, HolderOK, Holds, Busy, Started
  <2> QED
    BY <1>0, <1>2, <1>3, <1>4, <1>5, <2>2, <2>4, CodeStep
<1>7. CASE call[e].step # "validate"
  <2>1. Goto(e, "resolve")
    BY <1>7 DEF SetRecord
  <2>2. PICK c \in Call : /\ call' = [call EXCEPT ![e] = c] /\ Id(c) = Id(call[e])
                          /\ c.at = "resolve" /\ c.todo = call[e].todo /\ c.step = call[e].step
    BY <1>0, <2>1, GotoCall DEF CallPlaces
  <2>3. call'[e] = c
    BY <1>0, <2>2, OneCall
  <2>4. CallOK(e)'
    BY <1>1, <1>7, <2>2, <2>3 DEF CallOK, Busy, Started
  <2>5. own \notin contested => HolderOK(e, own)'
    BY <1>2, <1>3, <1>4, <1>5, <2>2, <2>3 DEF HolderOK, Delivered, Started
  <2> QED
    BY <1>0, <1>2, <1>3, <1>4, <1>5, <2>2, <2>4, <2>5, CodeStep
<1> QED
  BY <1>6, <1>7

(***************************************************************************)
(* A record ends as delivered only when its delivery was made, and as      *)
(* generated only when none was.                                           *)
(***************************************************************************)
LEMMA EndsRecord ==
    ASSUME IInv, NEW e \in Caller, call[e].at \in {"succeed", "failed"}, NEW good \in BOOLEAN,
           good => call[e].at = "succeed", NEW own \in RunId, own = Id(call[e]),
           UNCHANGED <<deliveries, contested>>,
           runs' = [runs EXCEPT ![own] = EndCode(call[e].step, good)]
    PROVE  /\ EndCode(call[e].step, good) \in ResultCodes
           /\ own \notin contested => RecordOK(own)'
<1>0. TypeOK /\ CallOK(e) /\ call[e].at \in Started /\ call[e].at \in Busy
  BY DEF IInv, Busy, Started
<1>1. call[e].step \in {"generate", "deliver"}
  BY <1>0, CTypes, CallFields DEF CallOK, Steps
<1>2. EndCode(call[e].step, good) \in ResultCodes
  BY <1>1 DEF EndCode, ResultCodes
<1>3. runs'[own] = EndCode(call[e].step, good)
  BY <1>0, CTypes
<1>4. ASSUME own \notin contested PROVE RecordOK(own)'
  <2>1. RunOK(own)
    BY <1>4 DEF IInv
  <2>2. /\ runs[own] = StartedCode(call[e].step)
        /\ call[e].at = "succeed" /\ call[e].step = "deliver" => Delivered(own)
    BY <1>0, <2>1 DEF RunOK, HolderOK, Holds
  <2>3. call[e].step = "generate" => ~Delivered(own)
    BY <2>1, <2>2 DEF RunOK, RecordOK, StartedCode
  <2>4. Delivered(own)' <=> Delivered(own)
    BY DEF Delivered
  <2> QED
    BY <1>1, <1>3, <2>1, <2>2, <2>3, <2>4 DEF RunOK, RecordOK, EndCode
<1> QED
  BY <1>2, <1>4

LEMMA SucceedStep ==
    ASSUME IInv, NEW e \in Caller, Succeed(e), UNCHANGED <<scope, docs, edits, task>>
    PROVE  IInv'
<1>0. /\ TypeOK /\ CallOK(e) /\ call[e] \in Call /\ call[e].at = "succeed" /\ call[e].at \in Busy
  BY CTypes DEF IInv, Succeed, Busy, Started
<1>1. call[e].todo # <<>> /\ Id(call[e]) \in RunId
  BY <1>0, CallFields DEF CallOK
<1>2. /\ UNCHANGED <<workbook, file, deliveries, contested, mixed, generated>>
      /\ faults' \in Nat /\ calls' \in Nat /\ NextItem(e)
  BY <1>0, CTypes DEF Succeed, NoFault
<1>3. PICK own \in RunId : own = Id(call[e])
  BY <1>1
<1>4. runs' = [runs EXCEPT ![own] = EndCode(call[e].step, TRUE)]
  BY <1>3 DEF Succeed
<1>5. PICK code \in ResultCodes :
          code = EndCode(call[e].step, TRUE) /\ (own \notin contested => RecordOK(own)')
  BY <1>0, <1>2, <1>3, <1>4, EndsRecord
<1>6. PICK c \in Call : call' = [call EXCEPT ![e] = c] /\ c.at = "loop"
  BY <1>0, <1>1, <1>2, NextItemCall
<1>7. call'[e] = c
  BY <1>0, <1>6, OneCall
<1>8. CallOK(e)' /\ HolderOK(e, own)' /\ c.at \notin Busy
  BY <1>6, <1>7 DEF CallOK, HolderOK, Holds, Busy, Started
<1> QED
  BY <1>0, <1>2, <1>3, <1>4, <1>5, <1>6, <1>8, CodeStep

LEMMA RecordFailureStep ==
    ASSUME IInv, NEW e \in Caller, RecordFailure(e), UNCHANGED <<scope, docs, edits, task>>
    PROVE  IInv'
<1>0. /\ TypeOK /\ CallOK(e) /\ call[e] \in Call /\ call[e].at = "failed" /\ call[e].at \in Busy
  BY CTypes DEF IInv, RecordFailure, Busy, Started
<1>1. call[e].todo # <<>> /\ Id(call[e]) \in RunId
  BY <1>0, CallFields DEF CallOK
<1>2. /\ UNCHANGED <<workbook, file, deliveries, contested, mixed, generated>>
      /\ faults' \in Nat /\ calls' \in Nat /\ call' = [call EXCEPT ![e] = NoCall]
  BY <1>0, CTypes DEF RecordFailure, NoFault, Return
<1>3. PICK own \in RunId : own = Id(call[e])
  BY <1>1
<1>4. runs' = [runs EXCEPT ![own] = EndCode(call[e].step, FALSE)]
  BY <1>3 DEF RecordFailure
<1>5. PICK code \in ResultCodes :
          code = EndCode(call[e].step, FALSE) /\ (own \notin contested => RecordOK(own)')
  BY <1>0, <1>2, <1>3, <1>4, EndsRecord
<1>6. call'[e] = NoCall
  BY <1>0, <1>2, NoCallType, OneCall
<1>7. CallOK(e)' /\ HolderOK(e, own)' /\ NoCall.at \notin Busy
  BY <1>6, NoCallType DEF CallOK, HolderOK, Holds, Busy, Started
<1> QED
  BY <1>0, <1>2, <1>3, <1>4, <1>5, <1>7, NoCallType, CodeStep

(***************************************************************************)
(* A workbook saved while another call is about to store one of that date  *)
(* mixes the date; otherwise no call loses its own.                        *)
(***************************************************************************)
LEMMA SaveWorkbookStep ==
    ASSUME IInv, NEW e \in Caller, SaveWorkbook(e), UNCHANGED <<scope, docs, edits, task>>
    PROVE  IInv'
<1>0. /\ TypeOK /\ FilesOK /\ CallOK(e) /\ call[e] \in Call /\ call[e].at = "save"
      /\ \A i \in DOMAIN deliveries : DeliveryOK(i)
      /\ \A id \in RunId \ contested : RunOK(id)
  BY CTypes DEF IInv, SaveWorkbook
<1>1. /\ UNCHANGED <<runs, file, deliveries, contested, generated>>
      /\ faults' \in Nat /\ calls' \in Nat /\ Goto(e, "store")
  BY <1>0, CTypes DEF SaveWorkbook, NoFault
<1>2. PICK c \in Call : /\ call' = [call EXCEPT ![e] = c] /\ Id(c) = Id(call[e])
                        /\ c.at = "store" /\ c.todo = call[e].todo /\ c.step = call[e].step
                        /\ c.date = call[e].date
  BY <1>0, <1>1, GotoCall DEF CallPlaces
<1>3. PICK r \in Report, x \in Content, d \in Date :
          r = ReportOf(call[e]) /\ x = call[e].template /\ d = call[e].date
  BY <1>0, CallFields DEF CallOK, Busy, Started, ReportOf
<1>4. Made(r, x)
  BY <1>0, <1>3 DEF CallOK
<1>5. PICK w \in File : /\ w.report = r /\ w.template = x
                        /\ workbook' = [workbook EXCEPT ![d] = w]
  <2> DEFINE w == [report |-> r, template |-> x]
  <2>1. w \in File /\ w.report = r /\ w.template = x
    BY DEF File
  <2>2. workbook' = [workbook EXCEPT ![d] = w]
    BY <1>3 DEF SaveWorkbook, ReportOf
  <2> QED
    BY <2>1, <2>2
<1>6. /\ workbook' \in [Date -> File] /\ workbook'[d] = w
      /\ \A b \in Date : b # d => workbook'[b] = workbook[b]
  BY <1>0, <1>5, CTypes
<1>7. /\ mixed \subseteq mixed' /\ mixed' \in SUBSET Date
      /\ \A f \in Caller \ {e} : call[f].at = "store" /\ call[f].date = d => d \in mixed'
  BY <1>0, <1>3, CTypes DEF SaveWorkbook
<1>8. \A f \in Caller \ {e} : call[f].at = "store" /\ call[f].date \notin mixed' =>
          workbook'[call[f].date] = workbook[call[f].date]
  BY <1>0, <1>6, <1>7, CTypes, CallFields
<1>9. Grows /\ published' = published /\ raced' = raced
  BY ReaderKeepsRInv, <1>1 DEF IInv, docs
<1>10. FilesOK'
  BY <1>0, <1>1, <1>7, <1>9, FilesStay
<1>11. \A i \in DOMAIN deliveries' : DeliveryOK(i)'
  BY <1>0, <1>1 DEF DeliveryOK
<1>12. \A id \in RunId \ contested' : RunOK(id)'
  BY <1>0, <1>1, <1>2, RunsStay DEF Started
<1>13. CallOK(e)'
  <2>1. call'[e] = c /\ ReportOf(c) = r
    BY <1>0, <1>2, <1>3, OneCall DEF ReportOf
  <2>2. workbook'[c.date].report = r /\ Made(r, workbook[c.date].template)'
    BY <1>2, <1>3, <1>4, <1>5, <1>6, <1>9 DEF Made
  <2>3. ReportOf(call[e])' = r /\ workbook'[call'[e].date].report = r
    BY <2>1, <2>2 DEF ReportOf
  <2>4. Made(ReportOf(call[e]), workbook[call[e].date].template)'
    BY <2>1, <2>2, <2>3 DEF Made
  <2> QED
    BY <1>0, <1>2, <2>1, <2>3, <2>4 DEF CallOK, Busy, Started
<1>14. /\ runs' \in [RunId -> ResultCodes] /\ file' \in [Object -> File]
       /\ deliveries' \in Seq(DeliveryRecord) /\ contested' \in SUBSET RunId
       /\ generated' \in SUBSET (Prefixes \X Date \X Report)
  BY <1>0, <1>1, CTypes
<1> QED
  BY <1>1, <1>2, <1>6, <1>7, <1>8, <1>10, <1>11, <1>12, <1>13, <1>14, CallStep

(***************************************************************************)
(* What is stored is the workbook of the date, the call's own unless dates *)
(* were mixed.                                                             *)
(***************************************************************************)
LEMMA StoreFileStep ==
    ASSUME IInv, NEW e \in Caller, StoreFile(e), UNCHANGED <<scope, docs, edits, task>>
    PROVE  IInv'
<1>0. /\ TypeOK /\ FilesOK /\ CallOK(e) /\ call[e] \in Call /\ call[e].at = "store"
      /\ \A i \in DOMAIN deliveries : DeliveryOK(i)
      /\ \A id \in RunId \ contested : RunOK(id)
  BY CTypes DEF IInv, StoreFile
<1>1. /\ UNCHANGED <<runs, workbook, deliveries, contested, mixed>>
      /\ faults' \in Nat /\ calls' \in Nat
  BY <1>0, CTypes DEF StoreFile, NoFault
<1>2. PICK place \in {"deliver", "succeed"} :
          Goto(e, place) /\ (place = "deliver" <=> call[e].step = "deliver")
  BY DEF StoreFile
<1>3. PICK c \in Call : /\ call' = [call EXCEPT ![e] = c] /\ Id(c) = Id(call[e])
                        /\ c.at = place /\ c.todo = call[e].todo /\ c.step = call[e].step
                        /\ c.date = call[e].date
  <2>1. place \in CallPlaces
    BY DEF CallPlaces
  <2> QED
    BY <1>0, <1>2, <2>1, GotoCall
<1>4. PICK r \in Report, d \in Date, p \in Prefixes :
          r = ReportOf(call[e]) /\ d = call[e].date /\ p = Head(call[e].todo).prefix
  BY <1>0, CallFields DEF CallOK, Busy, Started, ReportOf
<1>5. d \notin mixed => workbook[d].report = r /\ Made(r, workbook[d].template)
  BY <1>0, <1>4 DEF CallOK
<1>6. /\ file' = [file EXCEPT ![<<p, d>>] = workbook[d]]
      /\ generated' = generated \cup {<<p, d, r>>}
  BY <1>4 DEF StoreFile, ObjectOf, ReportOf
<1>7. /\ file' \in [Object -> File] /\ file'[<<p, d>>] = workbook[d]
      /\ \A o \in Object : o # <<p, d>> => file'[o] = file[o]
  <2>1. <<p, d>> \in Object /\ workbook[d] \in File
    BY <1>0, CTypes DEF Object
  <2> QED
    BY <1>0, <1>6, <2>1, CTypes
<1>8. /\ generated' \in SUBSET (Prefixes \X Date \X Report) /\ generated \subseteq generated'
      /\ <<p, d, r>> \in generated'
      /\ \A t \in generated' : t \in generated \/ t = <<p, d, r>>
  BY <1>0, <1>6, CTypes
<1>9. Grows /\ published' = published /\ raced' = raced
  BY ReaderKeepsRInv, <1>1 DEF IInv, docs
<1>10. FilesOK'
  <2>1. ASSUME NEW q \in Prefixes, NEW b \in Date, NEW s \in Report,
               <<q, b, s>> \in generated', b \notin mixed',
               \A t \in Report : <<q, b, t>> \in generated' => t = s
        PROVE  file'[<<q, b>>].report = s /\ Made(s, file[<<q, b>>].template)'
    <3>1. CASE q = p /\ b = d
      <4>1. s = r
        BY <1>8, <2>1, <3>1
      <4> QED
        BY <1>1, <1>5, <1>7, <1>9, <2>1, <3>1, <4>1 DEF Made
    <3>2. CASE ~(q = p /\ b = d)
      <4>1. <<q, b>> # <<p, d>> /\ <<q, b, s>> # <<p, d, r>> /\ <<q, b>> \in Object
        BY <3>2 DEF Object
      <4>2. <<q, b, s>> \in generated /\ \A t \in Report : <<q, b, t>> \in generated => t = s
        BY <1>8, <2>1, <4>1
      <4>3. file[<<q, b>>].report = s /\ Made(s, file[<<q, b>>].template)
        BY <1>0, <1>1, <2>1, <4>2 DEF FilesOK, FileOK
      <4>4. file'[<<q, b>>] = file[<<q, b>>]
        BY <1>7, <4>1
      <4> QED
        BY <1>9, <4>3, <4>4 DEF Made
    <3> QED
      BY <3>1, <3>2
  <2> QED
    BY <2>1 DEF FilesOK, FileOK
<1>11. \A i \in DOMAIN deliveries' : DeliveryOK(i)'
  BY <1>0, <1>1, <1>8 DEF DeliveryOK
<1>12. \A id \in RunId \ contested' : RunOK(id)'
  BY <1>0, <1>1, <1>2, <1>3, RunsStay DEF Started
<1>13. CallOK(e)'
  <2>1. call'[e] = c /\ ReportOf(c) = r /\ c.at \in {"deliver", "succeed"}
    BY <1>0, <1>3, <1>4, OneCall DEF ReportOf
  <2>2. c.at = "deliver" => <<Head(c.todo).prefix, c.date, ReportOf(c)>> \in generated'
    BY <1>3, <1>4, <1>8, <2>1
  <2>3. c.at = "deliver" => c.step = "deliver"
    BY <1>2, <1>3
  <2>4. ReportOf(call[e])' = ReportOf(c)
    BY <2>1 DEF ReportOf
  <2> QED
    BY <1>0, <1>3, <2>1, <2>2, <2>3, <2>4 DEF CallOK, Busy, Started
<1>14. /\ runs' \in [RunId -> ResultCodes] /\ workbook' \in [Date -> File]
       /\ deliveries' \in Seq(DeliveryRecord) /\ contested' \in SUBSET RunId
       /\ mixed' \in SUBSET Date
  BY <1>0, <1>1, CTypes
<1> QED
  BY <1>1, <1>3, <1>7, <1>8, <1>10, <1>11, <1>12, <1>13, <1>14, CallStep

(***************************************************************************)
(* A call that holds a record delivers for it only once: nothing was       *)
(* delivered before, and it goes on to its end.                            *)
(***************************************************************************)
LEMMA DeliverStep ==
    ASSUME IInv, NEW e \in Caller, Deliver(e), UNCHANGED <<scope, docs, edits, task>>
    PROVE  IInv'
<1>0. /\ TypeOK /\ FilesOK /\ CallOK(e) /\ call[e] \in Call
      /\ call[e].at = "deliver" /\ call[e].at \in Busy
      /\ \A i \in DOMAIN deliveries : DeliveryOK(i)
      /\ \A id \in RunId \ contested : RunOK(id)
  BY CTypes DEF IInv, Deliver, Busy, Started
<1>1. /\ UNCHANGED <<runs, workbook, file, contested, mixed, generated>>
      /\ faults' \in Nat /\ calls' \in Nat /\ Goto(e, "succeed")
  BY <1>0, CTypes DEF Deliver, NoFault
<1>2. PICK c \in Call : /\ call' = [call EXCEPT ![e] = c] /\ Id(c) = Id(call[e])
                        /\ c.at = "succeed" /\ c.todo = call[e].todo /\ c.step = call[e].step
  BY <1>0, <1>1, GotoCall DEF CallPlaces
<1>3. PICK own \in RunId, d \in Date, p \in Prefixes, r \in Report :
          /\ own = Id(call[e]) /\ d = call[e].date /\ p = Head(call[e].todo).prefix
          /\ r = ReportOf(call[e])
  BY <1>0, CallFields DEF CallOK, ReportOf
<1>4. own.date = d /\ own.report = r /\ <<p, d, r>> \in generated
  BY <1>0, <1>3 DEF CallOK, Id, ReportOf
<1>5. PICK new \in DeliveryRecord : /\ new.run = own /\ new.object = <<p, d>>
                                    /\ deliveries' = Append(deliveries, new)
  <2> DEFINE new == [run |-> own, object |-> <<p, d>>]
  <2>1. new \in DeliveryRecord /\ new.run = own /\ new.object = <<p, d>>
    BY DEF DeliveryRecord, Object
  <2>2. deliveries' = Append(deliveries, new)
    BY <1>3 DEF Deliver
  <2> QED
    BY <2>1, <2>2
<1>6. PICK n \in Nat :
          /\ n \notin DOMAIN deliveries /\ DOMAIN deliveries' = DOMAIN deliveries \cup {n}
          /\ \A i \in DOMAIN deliveries : deliveries'[i] = deliveries[i]
          /\ deliveries'[n] = new /\ deliveries' \in Seq(DeliveryRecord)
  <2>1. deliveries \in Seq(DeliveryRecord) /\ Len(deliveries) \in Nat
    BY <1>0, CTypes
  <2> QED
    BY <1>5, <2>1
<1>7. \A i \in DOMAIN deliveries' : DeliveryOK(i)'
  <2>1. \A i \in DOMAIN deliveries : DeliveryOK(i)'
    BY <1>0, <1>1, <1>6 DEF DeliveryOK
  <2>2. DeliveryOK(n)'
    <3>1. new.object[1] = p /\ new.object[2] = d /\ new.run.date = d /\ new.run.report = r
      BY <1>4, <1>5
    <3>2. <<new.object[1], new.object[2], new.run.report>> \in generated'
      BY <1>1, <1>4, <3>1
    <3> QED
      BY <1>6, <3>1, <3>2 DEF DeliveryOK
  <2> QED
    BY <1>6, <2>1, <2>2
<1>8. \A id \in RunId \ contested : id # own =>
          RecordOK(id)' /\ (Delivered(id)' <=> Delivered(id)) /\ runs'[id] = runs[id]
  <2> SUFFICES ASSUME NEW id \in RunId \ contested, id # own
               PROVE  RecordOK(id)' /\ (Delivered(id)' <=> Delivered(id)) /\ runs'[id] = runs[id]
    OBVIOUS
  <2>1. RecordOK(id)
    BY <1>0 DEF RunOK
  <2>2. \A i \in DOMAIN deliveries' : deliveries'[i].run = id =>
            i \in DOMAIN deliveries /\ deliveries[i].run = id
    BY <1>5, <1>6
  <2>3. Delivered(id)' <=> Delivered(id)
    BY <1>6, <2>2 DEF Delivered
  <2> QED
    BY <1>1, <2>1, <2>2, <2>3 DEF RecordOK
<1>9. own \notin contested => RecordOK(own)' /\ HolderOK(e, own)'
  <2> SUFFICES ASSUME own \notin contested PROVE RecordOK(own)' /\ HolderOK(e, own)'
    OBVIOUS
  <2>1. RunOK(own)
    BY <1>0
  <2>2. ~Delivered(own) /\ runs[own] = "delivery_started"
    BY <1>0, <1>3, <2>1 DEF RunOK, HolderOK, Holds, Started, StartedCode, CallOK
  <2>3. Delivered(own)'
    BY <1>5, <1>6 DEF Delivered
  <2>4. \A i \in DOMAIN deliveries' : deliveries'[i].run = own => i = n
    BY <1>6, <2>2 DEF Delivered
  <2>5. RecordOK(own)'
    BY <1>1, <2>2, <2>3, <2>4 DEF RecordOK
  <2>6. call'[e] = c
    BY <1>0, <1>2, OneCall
  <2>7. StartedCode(call[e].step) = "delivery_started"
    BY <1>0 DEF CallOK, StartedCode
  <2>8. HolderOK(e, own)'
    BY <1>1, <1>2, <2>2, <2>3, <2>6, <2>7 DEF HolderOK, Started
  <2> QED
    BY <2>5, <2>8
<1>10. \A id \in RunId \ contested' : RunOK(id)'
  BY <1>0, <1>1, <1>2, <1>3, <1>8, <1>9, HeldRun
<1>11. Grows
  BY ReaderKeepsRInv, <1>1 DEF IInv
<1>12. FilesOK'
  BY <1>0, <1>1, <1>11, FilesStay
<1>13. CallOK(e)'
  BY <1>0, <1>2, OneCall DEF CallOK, Busy, Started
<1>14. /\ runs' \in [RunId -> ResultCodes] /\ workbook' \in [Date -> File]
       /\ file' \in [Object -> File] /\ contested' \in SUBSET RunId
       /\ mixed' \in SUBSET Date /\ generated' \in SUBSET (Prefixes \X Date \X Report)
  BY <1>0, <1>1, CTypes
<1> QED
  BY <1>1, <1>2, <1>6, <1>7, <1>10, <1>12, <1>13, <1>14, CallStep

-----------------------------------------------------------------------------
(* The invariant of the specification *)

(***************************************************************************)
(* A step of an operator changes only the definitions, and takes nothing   *)
(* back.                                                                   *)
(***************************************************************************)
LEMMA OperatorStep ==
    ASSUME IInv, RNext, UNCHANGED <<results, calls, call>>
    PROVE  IInv'
<1>0. /\ TypeOK /\ FilesOK /\ \A e \in Caller : CallOK(e)
      /\ \A i \in DOMAIN deliveries : DeliveryOK(i)
      /\ \A id \in RunId \ contested : RunOK(id)
  BY DEF IInv
<1>1. RInv' /\ Grows
  BY RNextInv DEF IInv
<1>2. UNCHANGED <<runs, workbook, file, deliveries, contested, mixed, generated, calls, call>>
  BY DEF results
<1>3. TypeOK'
  BY <1>0, <1>1, <1>2 DEF TypeOK, RInv
<1>4. \A e \in Caller : CallOK(e)'
  BY <1>0, <1>1, <1>2, CTypes, CallStays
<1>5. FilesOK'
  BY <1>0, <1>1, <1>2, FilesStay
<1>6. \A i \in DOMAIN deliveries' : DeliveryOK(i)'
  BY <1>0, <1>2 DEF DeliveryOK
<1>7. \A id \in RunId \ contested' : RunOK(id)'
  BY <1>0, <1>2 DEF RunOK, RecordOK, OneHolder, HolderOK, Holds, Delivered
<1> QED
  BY <1>1, <1>3, <1>4, <1>5, <1>6, <1>7 DEF IInv

LEMMA NextInv ==
    ASSUME IInv, Next
    PROVE  IInv'
<1>1. ASSUME NEW e \in Caller, ExecutorStep(e), UNCHANGED <<scope, docs, edits, task>>
      PROVE  IInv'
  BY <1>1, StartCallStep, EndCallStep, LookStep, SetRecordStep, ResolveStep, DownloadStep,
     SaveWorkbookStep, StoreFileStep, DeliverStep, SucceedStep, RecordFailureStep,
     ItemFailsStep, CallDiesStep
  DEF ExecutorStep
<1>2. ASSUME RNext, UNCHANGED <<results, calls, call>> PROVE IInv'
  BY <1>2, OperatorStep
<1> QED
  BY <1>1, <1>2 DEF Next

LEMMA StutterInv ==
    ASSUME IInv, UNCHANGED vars
    PROVE  IInv'
<1>0. /\ TypeOK /\ FilesOK /\ \A e \in Caller : CallOK(e)
      /\ \A i \in DOMAIN deliveries : DeliveryOK(i)
      /\ \A id \in RunId \ contested : RunOK(id)
  BY DEF IInv
<1>1. UNCHANGED <<runs, workbook, file, deliveries, contested, mixed, generated, calls, call>>
      /\ UNCHANGED <<scope, docs, edits, task>> /\ faults' = faults
  BY DEF vars, rvars, results
<1>2. RInv' /\ Grows
  BY <1>0, <1>1, CTypes, ReaderKeepsRInv DEF IInv
<1>3. TypeOK'
  BY <1>0, <1>1, <1>2 DEF TypeOK, RInv
<1>4. \A e \in Caller : CallOK(e)'
  BY <1>0, <1>1, <1>2, CTypes, CallStays
<1>5. FilesOK'
  BY <1>0, <1>1, <1>2, FilesStay
<1>6. \A i \in DOMAIN deliveries' : DeliveryOK(i)'
  BY <1>0, <1>1 DEF DeliveryOK
<1>7. \A id \in RunId \ contested' : RunOK(id)'
  BY <1>0, <1>1 DEF RunOK, RecordOK, OneHolder, HolderOK, Holds, Delivered
<1> QED
  BY <1>2, <1>3, <1>4, <1>5, <1>6, <1>7 DEF IInv

LEMMA InitInv ==
    ASSUME Init
    PROVE  IInv
<1>1. RInv
  BY RInitInv DEF Init
<1>2. /\ runs = [id \in RunId |-> "absent"] /\ workbook = [d \in Date |-> NoFile]
      /\ file = [o \in Object |-> NoFile] /\ deliveries = <<>>
      /\ contested = {} /\ mixed = {} /\ generated = {} /\ calls = 0
      /\ call = [e \in Caller |-> NoCall]
  BY DEF Init
<1>3. NoFile \in File
  BY ReportNotEmpty DEF NoFile, File, Content
<1>4. /\ call \in [Caller -> Call] /\ \A e \in Caller : call[e].at = "idle"
      /\ deliveries \in Seq(DeliveryRecord) /\ DOMAIN deliveries = {}
      /\ runs \in [RunId -> ResultCodes] /\ \A id \in RunId : runs[id] = "absent"
  BY <1>2, NoCallType DEF ResultCodes
<1>5. TypeOK
  BY <1>1, <1>2, <1>3, <1>4 DEF TypeOK, RInv
<1>6. \A e \in Caller : CallOK(e)
  BY <1>4 DEF CallOK, Busy, Started
<1>7. FilesOK
  BY <1>2 DEF FilesOK, FileOK
<1>8. \A id \in RunId \ contested : RunOK(id)
  BY <1>4 DEF RunOK, RecordOK, OneHolder, HolderOK, Holds, Delivered, Busy, Started
<1> QED
  BY <1>1, <1>4, <1>5, <1>6, <1>7, <1>8 DEF IInv

(***************************************************************************)
(* IInv holds in every reachable state.                                    *)
(***************************************************************************)
THEOREM Invariance == Spec => []IInv
<1>1. Init => IInv
  BY InitInv
<1>2. IInv /\ [Next]_vars => IInv'
  BY NextInv, StutterInv
<1> QED
  BY <1>1, <1>2, PTL DEF Spec

(***************************************************************************)
(* The variables of the definitions and of the executor keep their types.  *)
(***************************************************************************)
THEOREM TypeCorrect == Spec => []TypeOK
<1>1. IInv => TypeOK
  BY DEF IInv
<1> QED
  BY <1>1, Invariance, PTL

(***************************************************************************)
(* Beside the executor's calls, too, no publish, rollback or failure loses *)
(* a version unless publishes overlapped (distribution.py, publish and     *)
(* rollback of report definitions).                                        *)
(***************************************************************************)
THEOREM NoVersionIsLost == Spec => []VersionsStand
<1>1. IInv => VersionsStand
  BY RInvVersionsStand DEF IInv
<1> QED
  BY <1>1, Invariance, PTL

(***************************************************************************)
(* A run whose record no two calls contested delivers at most once,        *)
(* through retries, failures, deaths and edits, and its record tells       *)
(* (distribution.py, run_report_definition_schedule_runs).                 *)
(***************************************************************************)
THEOREM RunsDeliverOnce == Spec => []OneDeliveryPerRun
<1>1. ASSUME IInv PROVE OneDeliveryPerRun
  <2>1. ASSUME NEW id \in RunId \ contested
        PROVE  /\ Cardinality(DeliveriesOf(id)) <= 1
               /\ runs[id] = "delivery_succeeded" => DeliveriesOf(id) # {}
               /\ DeliveriesOf(id) # {} =>
                     runs[id] \in {"delivery_started", "delivery_failed", "delivery_succeeded"}
    <3>1. RecordOK(id)
      BY <1>1, <2>1 DEF IInv, RunOK
    <3>2. Delivered(id) <=> DeliveriesOf(id) # {}
      BY DEF Delivered, DeliveriesOf
    <3>3. Cardinality(DeliveriesOf(id)) <= 1
      <4>1. CASE DeliveriesOf(id) = {}
        <5>1. Cardinality({}) = 0
          BY FS_EmptySet
        <5> QED
          BY <4>1, <5>1
      <4>2. CASE DeliveriesOf(id) # {}
        <5>1. PICK i \in DeliveriesOf(id) : TRUE
          BY <4>2
        <5>2. DeliveriesOf(id) = {i}
          BY <3>1, <5>1 DEF RecordOK, DeliveriesOf
        <5>3. Cardinality({i}) = 1
          BY FS_Singleton
        <5> QED
          BY <5>2, <5>3
      <4> QED
        BY <4>1, <4>2
    <3> QED
      BY <3>1, <3>2, <3>3 DEF RecordOK
  <2> QED
    BY <2>1 DEF OneDeliveryPerRun
<1> QED
  BY <1>1, Invariance, PTL

(***************************************************************************)
(* The file that a delivery points at is of its own report and made from a *)
(* template published for it, unless another report shares its prefix or   *)
(* its date's workbooks were mixed (distribution.py                        *)
(* get_report_definition_runtime_template, report.py generate_report).     *)
(***************************************************************************)
THEOREM DeliveriesCarryTheirFile == Spec => []FileIsDeliverys
<1>1. ASSUME IInv PROVE FileIsDeliverys
  <2> SUFFICES ASSUME NEW i \in DOMAIN deliveries,
                      deliveries[i].run.date \notin mixed, OwnObject(deliveries[i])
               PROVE  LET f == file[deliveries[i].object]
                      IN  /\ f.report = deliveries[i].run.report
                          /\ f.report \notin raced =>
                                \E v \in published[f.report] :
                                    f.template # NoTemplate /\ v.template = f.template
    BY DEF FileIsDeliverys
  <2>1. deliveries[i] \in DeliveryRecord /\ DeliveryOK(i) /\ FilesOK
    BY <1>1, CTypes DEF IInv
  <2>2. PICK p \in Prefixes, d \in Date : deliveries[i].object = <<p, d>>
    BY <2>1 DEF DeliveryRecord, Object
  <2>3. PICK r \in Report : r = deliveries[i].run.report
    BY <2>1 DEF DeliveryRecord, RunId
  <2>4. d = deliveries[i].run.date /\ <<p, d, r>> \in generated
    BY <2>1, <2>2, <2>3 DEF DeliveryOK
  <2>5. \A q \in Report : <<p, d, q>> \in generated => q = r
    BY <2>2, <2>3 DEF OwnObject
  <2>6. file[<<p, d>>].report = r /\ Made(r, file[<<p, d>>].template)
    BY <2>1, <2>4, <2>5 DEF FilesOK, FileOK
  <2> QED
    BY <2>2, <2>3, <2>6 DEF Made
<1> QED
  BY <1>1, Invariance, PTL
=============================================================================
