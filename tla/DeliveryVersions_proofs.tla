------------------------ MODULE DeliveryVersions_proofs ------------------------
(***************************************************************************)
(* Proofs about DeliveryVersions, for any number of administrators, of     *)
(* file names and of events: what a step of an administrator, a rerun or   *)
(* an expiry does to the version list, and the invariant that the list     *)
(* stays sound under them.                                                 *)
(***************************************************************************)
EXTENDS DeliveryVersions, FiniteSetTheorems, TLAPS

(***************************************************************************)
(* A version list, of the document or read from it, is numbered 1, 2, ...  *)
(* and each of its versions was added and has its file.                    *)
(***************************************************************************)
Numbered(vs) == \A i \in DOMAIN vs : vs[i].version = i

Filed(vs) == \A i \in DOMAIN vs : vs[i].gen > 0 /\ object[vs[i].file_name] >= vs[i].gen

ListOK(vs) == /\ Numbered(vs)
              /\ Filed(vs)
              /\ \A i \in DOMAIN vs : vs[i] \in added

(***************************************************************************)
(* What ListSound rests on: no object is newer than the last generation;   *)
(* an admin request that has generated has its file; only a single-file    *)
(* delivery has requests that add versions; and a cleanup under way has    *)
(* seen the delivery expired.                                              *)
(***************************************************************************)
DocumentOK == /\ delivery.versions # <<>>
              /\ ListOK(delivery.versions)
              /\ \A n \in Names : object[n] <= generation

Adding == {"generate", "read", "append"}

TaskOK(a) ==
    /\ task[a].at \in {"read", "append"} =>
          task[a].gen > 0 /\ object[task[a].file_name] >= task[a].gen
    /\ task[a].at = "append" => ListOK(task[a].versions)
    /\ task[a].at \in Adding => scope.kind = "single"
    /\ task[a].at = "clean" => expired

TasksOK == \A a \in Admin : TaskOK(a)

DInv == /\ DeliveryTypeOK
        /\ DocumentOK
        /\ TasksOK
        /\ ListSound

-----------------------------------------------------------------------------
(* Lists *)

(***************************************************************************)
(* NextVersion continues the numbering of a list numbered 1, 2, ...        *)
(***************************************************************************)
LEMMA NextVersionCounts ==
    ASSUME NEW vs \in Seq(Version), Numbered(vs)
    PROVE  NextVersion(vs) = Len(vs) + 1
<1>1. CASE vs = <<>>
  BY <1>1 DEF NextVersion
<1>2. CASE vs # <<>>
  <2>1. Numbers(vs) = 1..Len(vs)
    BY DEF Numbers, Numbered
  <2>2. Len(vs) \in Nat /\ Len(vs) >= 1
    BY <1>2
  <2>3. Max(1..Len(vs)) = Len(vs)
    <3>1. \A y \in 1..Len(vs) : Len(vs) >= y
      BY <2>2
    <3>2. Len(vs) \in 1..Len(vs)
      BY <2>2
    <3>3. \A x \in 1..Len(vs) : (\A y \in 1..Len(vs) : x >= y) => x = Len(vs)
      BY <2>2, <3>2
    <3> QED
      BY <3>1, <3>2, <3>3 DEF Max
  <2> QED
    BY <1>2, <2>1, <2>3 DEF NextVersion
<1> QED
  BY <1>1, <1>2

(***************************************************************************)
(* A sound list with one more version of a file that is there.             *)
(***************************************************************************)
LEMMA AppendKeepsListOK ==
    ASSUME NEW vs \in Seq(Version), ListOK(vs), NEW new \in Version,
           new.version = Len(vs) + 1, new.gen > 0,
           object' \in [Names -> Nat], object \in [Names -> Nat],
           \A n \in Names : object'[n] >= object[n],
           object'[new.file_name] >= new.gen,
           added \cup {new} \subseteq added'
    PROVE  /\ Append(vs, new) \in Seq(Version)
           /\ Append(vs, new) # <<>>
           /\ Numbered(Append(vs, new))
           /\ \A i \in DOMAIN Append(vs, new) :
                 /\ Append(vs, new)[i] \in added'
                 /\ Append(vs, new)[i].gen > 0
                 /\ object'[Append(vs, new)[i].file_name] >= Append(vs, new)[i].gen
<1> DEFINE ws == Append(vs, new)
           m == Len(vs)
<1>1. /\ ws \in Seq(Version) /\ Len(ws) = m + 1 /\ m \in Nat
      /\ \A i \in 1..m : ws[i] = vs[i]
      /\ ws[m + 1] = new
      /\ DOMAIN ws = 1..m + 1 /\ DOMAIN vs = 1..m
  OBVIOUS
<1>2. ASSUME NEW i \in 1..m
      PROVE  /\ vs[i].version = i /\ vs[i] \in added'
             /\ vs[i].gen > 0 /\ object'[vs[i].file_name] >= vs[i].gen
  <2>1. vs[i] \in Version /\ vs[i].version = i /\ vs[i] \in added
        /\ vs[i].gen > 0 /\ object[vs[i].file_name] >= vs[i].gen
    BY <1>1 DEF ListOK, Numbered, Filed
  <2>2. vs[i].file_name \in Names /\ vs[i].gen \in Nat
    BY <2>1 DEF Version
  <2> QED
    BY <2>1, <2>2
<1> HIDE DEF ws, m
<1>3. ASSUME NEW i \in 1..m + 1
      PROVE  /\ ws[i].version = i /\ ws[i] \in added'
             /\ ws[i].gen > 0 /\ object'[ws[i].file_name] >= ws[i].gen
  <2>1. CASE i \in 1..m
    BY <1>1, <1>2, <2>1
  <2>2. CASE i = m + 1
    BY <1>1, <2>2 DEF m
  <2> QED
    BY <1>1, <2>1, <2>2
<1>4. ws # <<>>
  BY <1>1
<1> QED
  BY <1>1, <1>3, <1>4 DEF Numbered, ws

(***************************************************************************)
(* A list stays sound when objects only get newer and nothing added is     *)
(* forgotten.                                                              *)
(***************************************************************************)
LEMMA ListStaysOK ==
    ASSUME NEW vs \in Seq(Version), ListOK(vs),
           object \in [Names -> Nat], object' \in [Names -> Nat],
           \A n \in Names : object'[n] >= object[n],
           added \subseteq added'
    PROVE  \A i \in DOMAIN vs :
              /\ vs[i].version = i /\ vs[i] \in added'
              /\ vs[i].gen > 0 /\ object'[vs[i].file_name] >= vs[i].gen
<1> TAKE i \in DOMAIN vs
<1>1. vs[i] \in Version
  OBVIOUS
<1>2. vs[i].file_name \in Names /\ vs[i].gen \in Nat
  BY <1>1 DEF Version
<1> QED
  BY <1>1, <1>2 DEF ListOK, Numbered, Filed

-----------------------------------------------------------------------------
(* The initial states *)

LEMMA DInitInv == DInit => DInv
<1> SUFFICES ASSUME DInit PROVE DInv
  OBVIOUS
<1> PICK n \in Names : /\ delivery = NewDelivery(n)
                       /\ object = [m \in Names |-> IF m = n THEN 1 ELSE 0]
                       /\ added = {FirstVersion(n)}
  BY DEF DInit
<1>1. /\ FirstVersion(n) \in Version /\ FirstVersion(n).version = 1
      /\ FirstVersion(n).gen = 1 /\ FirstVersion(n).file_name = n
      /\ <<FirstVersion(n)>> \in Seq(Version)
  BY DEF FirstVersion, Version
<1>2. /\ delivery.active = TRUE /\ delivery.current_version = 1
      /\ delivery.versions = <<FirstVersion(n)>> /\ delivery \in Delivery
  <2> HIDE DEF FirstVersion
  <2> QED
    BY <1>1 DEF NewDelivery, Delivery
<1>3. NoTask \in Task /\ NoTask.at = "idle"
  <2>1. (CHOOSE m \in Names : TRUE) \in Names
    OBVIOUS
  <2> QED
    BY <2>1 DEF NoTask, Task, Places
<1>4. scope \in Scope /\ scope.faults \in Nat
  BY ScopesAreBounds DEF DInit, Scope
<1>5. DeliveryTypeOK
  <2>1. object \in [Names -> Nat] /\ added \in SUBSET Version
    <3> HIDE DEF FirstVersion
    <3> QED
      BY <1>1
  <2>2. task \in [Admin -> Task]
    <3> HIDE DEF NoTask
    <3> QED
      BY <1>3 DEF DInit
  <2>3. /\ scope \in Scopes /\ expired = FALSE /\ overlapped = FALSE /\ generation = 1
        /\ admins = 0 /\ ticks = 0 /\ faults = 0
    BY DEF DInit
  <2>4. faults \in 0..scope.faults
    BY <1>4, <2>3
  <2>5. generation \in Nat /\ admins \in Nat /\ ticks \in Nat
    BY <2>3
  <2>6. expired \in BOOLEAN /\ overlapped \in BOOLEAN
    BY <2>3
  <2> QED
    BY <1>2, <2>1, <2>2, <2>3, <2>4, <2>5, <2>6 DEF DeliveryTypeOK
<1>6. DOMAIN delivery.versions = {1} /\ delivery.versions[1] = FirstVersion(n)
  BY <1>2
<1>7. DocumentOK /\ VersionsHaveFiles
  BY <1>1, <1>2, <1>6
     DEF DocumentOK, ListOK, Numbered, Filed, VersionsHaveFiles, DInit
<1>8. NothingLost
  BY <1>1, <1>2, <1>6 DEF NothingLost, HasCurrent, Numbers
<1>9. TasksOK
  BY <1>3 DEF TasksOK, TaskOK, Adding, DInit
<1> QED
  BY <1>5, <1>7, <1>8, <1>9 DEF DInv, ListSound

-----------------------------------------------------------------------------
(* Steps that leave the version list alone *)

(***************************************************************************)
(* Whoever steps: what neither touches the list and what it refers to nor  *)
(* a request keeps the invariant.                                          *)
(***************************************************************************)
LEMMA ListUntouched ==
    ASSUME DInv,
           UNCHANGED <<scope, object, added, overlapped, generation>>,
           delivery' \in Delivery, delivery'.versions = delivery.versions,
           delivery'.current_version = delivery.current_version,
           expired' \in BOOLEAN, admins' \in Nat, ticks' \in Nat, faults' \in 0..scope.faults,
           task' \in [Admin -> Task], TasksOK'
    PROVE  DInv'
<1>1. DeliveryTypeOK'
  BY DEF DInv, DeliveryTypeOK
<1>2. DocumentOK'
  BY DEF DInv, DocumentOK, ListOK, Numbered, Filed
<1>3. ListSound'
  BY DEF DInv, ListSound, VersionsHaveFiles, NothingLost, HasCurrent, Numbers
<1> QED
  BY <1>1, <1>2, <1>3 DEF DInv

LEMMA OneRequestSteps ==
    ASSUME DInv, NEW a \in Admin, NEW t \in Task,
           UNCHANGED <<scope, expired, object, added, overlapped, generation>>,
           delivery' \in Delivery, delivery'.versions = delivery.versions,
           delivery'.current_version = delivery.current_version,
           admins' \in Nat, ticks' \in Nat, faults' \in 0..scope.faults,
           task' = [task EXCEPT ![a] = t],
           t.at \in {"read", "append"} => t.gen > 0 /\ object[t.file_name] >= t.gen,
           t.at = "append" => ListOK(t.versions),
           t.at \in Adding => scope.kind = "single",
           t.at = "clean" => expired
    PROVE  DInv'
<1>1. task \in [Admin -> Task]
  BY DEF DInv, DeliveryTypeOK
<1>2. task' \in [Admin -> Task] /\ task'[a] = t
      /\ \A b \in Admin \ {a} : task'[b] = task[b]
  BY <1>1
<1>3. TaskOK(a)'
  BY <1>2 DEF TaskOK, ListOK, Numbered, Filed
<1>4. ASSUME NEW b \in Admin \ {a} PROVE TaskOK(b)'
  BY <1>2 DEF DInv, TasksOK, TaskOK, ListOK, Numbered, Filed
<1>5. TasksOK'
  BY <1>3, <1>4 DEF TasksOK
<1>6. expired' \in BOOLEAN
  BY DEF DInv, DeliveryTypeOK
<1> QED
  BY <1>2, <1>5, <1>6, ListUntouched

LEMMA DTypes ==
    ASSUME DInv
    PROVE  /\ scope \in Scope /\ scope.faults \in Nat
           /\ delivery \in Delivery
           /\ delivery.versions \in Seq(Version) /\ delivery.current_version \in Nat
           /\ expired \in BOOLEAN /\ overlapped \in BOOLEAN
           /\ object \in [Names -> Nat]
           /\ generation \in Nat /\ admins \in Nat /\ ticks \in Nat
           /\ faults \in 0..scope.faults /\ faults \in Nat
           /\ task \in [Admin -> Task]
           /\ \A a \in Admin : /\ task[a] \in Task /\ task[a].file_name \in Names
                                /\ task[a].gen \in Nat /\ task[a].versions \in Seq(Version)
                                /\ task[a].active \in BOOLEAN /\ task[a].make_current \in BOOLEAN
<1>1. scope \in Scope /\ scope.faults \in Nat
  BY ScopesAreBounds DEF DInv, DeliveryTypeOK, Scope
<1>2. \A t \in Task : /\ t.file_name \in Names /\ t.gen \in Nat
                       /\ t.versions \in Seq(Version) /\ t.active \in BOOLEAN
                       /\ t.make_current \in BOOLEAN
  BY DEF Task
<1>3. delivery.versions \in Seq(Version) /\ delivery.current_version \in Nat
  BY DEF DInv, DeliveryTypeOK, Delivery
<1> QED
  BY <1>1, <1>2, <1>3 DEF DInv, DeliveryTypeOK

LEMMA NoTaskType == NoTask \in Task
<1>1. (CHOOSE m \in Names : TRUE) \in Names
  BY SomeName
<1> QED
  BY <1>1 DEF NoTask, Task, Places

LEMMA StartAddStep ==
    ASSUME DInv, UNCHANGED scope, NEW a \in Admin, StartAdd(a) PROVE DInv'
<1>0. PICK n \in Names, current \in BOOLEAN :
       task' = [task EXCEPT ![a] = [NoTask EXCEPT !.at = "generate", !.file_name = n,
                                                  !.make_current = current]]
  BY DEF StartAdd
<1> DEFINE t == [NoTask EXCEPT !.at = "generate", !.file_name = n, !.make_current = current]
<1>1. t \in Task /\ t.at = "generate"
  <2>1. NoTask \in Task
    BY NoTaskType
  <2> HIDE DEF NoTask
  <2> QED
    BY <2>1 DEF Task, Places, NoTask
<1>2. /\ UNCHANGED <<expired, object, added, overlapped, generation, delivery, ticks, faults>>
      /\ admins' = admins + 1 /\ scope.kind = "single"
  BY DEF StartAdd, store, Begin
<1>3. task' = [task EXCEPT ![a] = t]
  BY <1>0
<1>4. admins' \in Nat /\ ticks' \in Nat /\ faults' \in 0..scope.faults /\ delivery' \in Delivery
  BY <1>2, DTypes
<1>5. /\ t.at \notin {"read", "append", "clean"}
      /\ t.at \in Adding => scope.kind = "single"
  BY <1>1, <1>2 DEF Adding
<1> HIDE DEF t
<1> QED
  BY <1>1, <1>2, <1>3, <1>4, <1>5, OneRequestSteps

LEMMA ReadVersionsStep ==
    ASSUME DInv, UNCHANGED scope, NEW a \in Admin, ReadVersions(a) PROVE DInv'
<1> DEFINE t == [task[a] EXCEPT !.at = "append", !.versions = delivery.versions]
<1>0. task[a] \in Task /\ delivery.versions \in Seq(Version) /\ task \in [Admin -> Task]
  BY DTypes
<1>1. t \in Task /\ t.at = "append" /\ t.versions = delivery.versions
      /\ t.gen = task[a].gen /\ t.file_name = task[a].file_name
  BY <1>0 DEF Task, Places
<1>2. /\ UNCHANGED <<expired, object, added, overlapped, generation, delivery, ticks, faults, admins>>
      /\ task[a].at = "read"
      /\ task' = [task EXCEPT ![a] = t]
  BY <1>0 DEF ReadVersions, store, bounds
<1>3. t.gen > 0 /\ object[t.file_name] >= t.gen /\ ListOK(t.versions) /\ scope.kind = "single"
  BY <1>1, <1>2 DEF DInv, TasksOK, TaskOK, DocumentOK, Adding
<1> HIDE DEF t
<1> QED
  BY <1>1, <1>2, <1>3, DTypes, OneRequestSteps

LEMMA StartSwitchStep ==
    ASSUME DInv, UNCHANGED scope, NEW a \in Admin, StartSwitch(a) PROVE DInv'
<1>0. PICK active \in BOOLEAN :
       task' = [task EXCEPT ![a] = [NoTask EXCEPT !.at = "switch", !.active = active]]
  BY DEF StartSwitch
<1> DEFINE t == [NoTask EXCEPT !.at = "switch", !.active = active]
<1>1. t \in Task /\ t.at = "switch"
  <2>1. NoTask \in Task
    BY NoTaskType
  <2> QED
    BY <2>1 DEF Task, Places, NoTask
<1>2. /\ UNCHANGED <<expired, object, added, overlapped, generation, delivery, ticks, faults>>
      /\ admins' = admins + 1
  BY DEF StartSwitch, store, Begin
<1>3. task' = [task EXCEPT ![a] = t]
  BY <1>0
<1>4. admins' \in Nat /\ ticks' \in Nat /\ faults' \in 0..scope.faults /\ delivery' \in Delivery
  BY <1>2, DTypes
<1>5. /\ t.at \notin {"read", "append", "clean"}
      /\ t.at \in Adding => scope.kind = "single"
  BY <1>1, <1>2 DEF Adding
<1> HIDE DEF t
<1> QED
  BY <1>1, <1>2, <1>3, <1>4, <1>5, OneRequestSteps

(***************************************************************************)
(* A request that ends, having set the active flag at most.                *)
(***************************************************************************)
LEMMA EndStep ==
    ASSUME DInv, UNCHANGED <<scope, expired, object, added, overlapped, generation, admins, ticks>>,
           faults' \in 0..scope.faults, NEW a \in Admin, task' = [task EXCEPT ![a] = NoTask],
           NEW active \in BOOLEAN, delivery' = [delivery EXCEPT !.active = active]
    PROVE  DInv'
<1>1. /\ delivery' \in Delivery /\ delivery'.versions = delivery.versions
      /\ delivery'.current_version = delivery.current_version
  BY DTypes DEF Delivery
<1>2. NoTask \in Task /\ NoTask.at = "idle"
  BY NoTaskType DEF NoTask
<1>3. NoTask.at \notin {"read", "append", "clean"} \cup Adding
  BY <1>2 DEF Adding
<1>4. admins' \in Nat /\ ticks' \in Nat
  BY DTypes
<1> HIDE DEF NoTask
<1> QED
  BY <1>1, <1>2, <1>3, <1>4, OneRequestSteps

LEMMA SwitchStep ==
    ASSUME DInv, UNCHANGED scope, NEW a \in Admin, Switch(a) PROVE DInv'
BY DTypes, EndStep DEF Switch, bounds

LEMMA CommitCleanupStep ==
    ASSUME DInv, UNCHANGED scope, NEW a \in Admin, CommitCleanup(a) PROVE DInv'
BY DTypes, EndStep DEF CommitCleanup, bounds

LEMMA AdminFailsStep ==
    ASSUME DInv, UNCHANGED scope, NEW a \in Admin, AdminFails(a) PROVE DInv'
<1>1. delivery.active \in BOOLEAN /\ delivery' = [delivery EXCEPT !.active = delivery.active]
  BY DTypes DEF AdminFails, store, Delivery
<1>2. faults' \in 0..scope.faults
  BY DTypes DEF AdminFails, Fault
<1> QED
  BY <1>1, <1>2, EndStep DEF AdminFails, store

LEMMA QueryExpiredStep ==
    ASSUME DInv, UNCHANGED scope, NEW a \in Admin, QueryExpired(a) PROVE DInv'
<1> DEFINE t == [task[a] EXCEPT !.at = "clean"]
<1>0. task[a] \in Task /\ task \in [Admin -> Task]
  BY DTypes
<1>1. t \in Task /\ t.at = "clean"
  BY <1>0 DEF Task, Places
<1>2. /\ UNCHANGED <<expired, object, added, overlapped, generation, delivery, ticks, faults>>
      /\ admins' = admins + 1 /\ expired
      /\ task' = [task EXCEPT ![a] = t]
  BY <1>0 DEF QueryExpired, store, Begin
<1>3. t.at \notin {"read", "append"} \cup Adding
  BY <1>1 DEF Adding
<1>4. admins' \in Nat /\ ticks' \in Nat /\ faults' \in 0..scope.faults /\ delivery' \in Delivery
  BY <1>2, DTypes
<1> HIDE DEF t
<1> QED
  BY <1>1, <1>2, <1>3, <1>4, OneRequestSteps

LEMMA ExpireStep ==
    ASSUME DInv, UNCHANGED scope, Expire PROVE DInv'
<1>1. /\ UNCHANGED <<scope, object, added, overlapped, generation, delivery, task, admins, faults>>
      /\ ticks' = ticks + 1 /\ expired' = TRUE
  BY DEF Expire, Tick
<1>2. TasksOK'
  BY <1>1 DEF DInv, TasksOK, TaskOK, ListOK, Numbered, Filed
<1> QED
  BY <1>1, <1>2, DTypes, ListUntouched

-----------------------------------------------------------------------------
(* Steps that generate or add *)

(***************************************************************************)
(* A generation writes the newest file under its name: what had a file     *)
(* still has one.                                                          *)
(***************************************************************************)
LEMMA GenerationEffect ==
    ASSUME DInv, NEW f \in Names, generation' = generation + 1,
           object' = [object EXCEPT ![f] = generation + 1]
    PROVE  /\ object' \in [Names -> Nat] /\ object'[f] = generation'
           /\ generation' \in Nat /\ generation' > 0
           /\ \A n \in Names : object'[n] >= object[n] /\ object'[n] <= generation'
<1>1. \A n \in Names : object[n] \in Nat /\ object[n] <= generation
  BY DTypes DEF DInv, DocumentOK
<1> QED
  BY <1>1, DTypes

(***************************************************************************)
(* The other requests do not notice.                                       *)
(***************************************************************************)
LEMMA OtherTasksOK ==
    ASSUME DInv, NEW a \in Admin, \A b \in Admin \ {a} : task'[b] = task[b],
           UNCHANGED <<scope, expired>>,
           object' \in [Names -> Nat], \A n \in Names : object'[n] >= object[n],
           added \subseteq added', TaskOK(a)'
    PROVE  TasksOK'
<1> SUFFICES ASSUME NEW b \in Admin \ {a} PROVE TaskOK(b)'
  BY DEF TasksOK
<1>1. TaskOK(b) /\ task'[b] = task[b] /\ task[b].versions \in Seq(Version)
      /\ task[b].file_name \in Names /\ task[b].gen \in Nat
      /\ object[task[b].file_name] \in Nat
  BY DTypes DEF DInv, TasksOK
<1>2. ASSUME ListOK(task[b].versions)
      PROVE  \A i \in DOMAIN task[b].versions :
                /\ task[b].versions[i].version = i /\ task[b].versions[i] \in added'
                /\ task[b].versions[i].gen > 0
                /\ object'[task[b].versions[i].file_name] >= task[b].versions[i].gen
  BY <1>1, <1>2, DTypes, ListStaysOK
<1>3. task[b].at = "append" => ListOK(task[b].versions)'
  BY <1>1, <1>2 DEF TaskOK, ListOK, Numbered, Filed
<1>4. object'[task[b].file_name] >= object[task[b].file_name]
      /\ object'[task[b].file_name] \in Nat
  BY <1>1
<1> QED
  BY <1>1, <1>3, <1>4 DEF TaskOK

LEMMA GenerateStep ==
    ASSUME DInv, UNCHANGED scope, NEW a \in Admin, Generate(a) PROVE DInv'
<1> DEFINE f == task[a].file_name
           t == [task[a] EXCEPT !.at = "read", !.gen = generation + 1]
<1>0. /\ task[a] \in Task /\ f \in Names /\ task \in [Admin -> Task]
      /\ generation \in Nat
  BY DTypes
<1>1. t \in Task /\ t.at = "read" /\ t.gen = generation + 1 /\ t.file_name = f
  <2>1. generation + 1 \in Nat
    BY <1>0
  <2> QED
    BY <1>0, <2>1 DEF Task, Places
<1>2. /\ UNCHANGED <<delivery, expired, added, overlapped, admins, ticks, faults>>
      /\ generation' = generation + 1
      /\ object' = [object EXCEPT ![f] = generation + 1]
      /\ task' = [task EXCEPT ![a] = t]
      /\ task[a].at = "generate"
  BY <1>0 DEF Generate
<1> HIDE DEF t
<1>3. task' \in [Admin -> Task] /\ task'[a] = t /\ \A b \in Admin \ {a} : task'[b] = task[b]
  BY <1>0, <1>1, <1>2
<1>4. /\ object' \in [Names -> Nat] /\ object'[f] = generation'
      /\ generation' \in Nat /\ generation' > 0
      /\ \A n \in Names : object'[n] >= object[n] /\ object'[n] <= generation'
  BY <1>0, <1>2, GenerationEffect
<1>5. scope.kind = "single"
  BY <1>2 DEF DInv, TasksOK, TaskOK, Adding
<1>6. TaskOK(a)'
  BY <1>1, <1>2, <1>3, <1>4, <1>5 DEF TaskOK
<1>7. TasksOK'
  BY <1>2, <1>3, <1>4, <1>6, OtherTasksOK
<1>8. DeliveryTypeOK'
  BY <1>2, <1>3, <1>4 DEF DInv, DeliveryTypeOK
<1>9. \A i \in DOMAIN delivery.versions :
         /\ delivery.versions[i].version = i /\ delivery.versions[i] \in added'
         /\ delivery.versions[i].gen > 0
         /\ object'[delivery.versions[i].file_name] >= delivery.versions[i].gen
  BY <1>2, <1>4, DTypes, ListStaysOK DEF DInv, DocumentOK
<1>10. DocumentOK' /\ VersionsHaveFiles'
  BY <1>2, <1>4, <1>9
     DEF DInv, DocumentOK, ListOK, Numbered, Filed, VersionsHaveFiles
<1>11. ~overlapped' => NothingLost'
  BY <1>2 DEF DInv, ListSound, NothingLost, HasCurrent, Numbers
<1> QED
  BY <1>7, <1>8, <1>10, <1>11 DEF DInv, ListSound

(***************************************************************************)
(* A sound list, the document's unless the step makes `overlapped` true,   *)
(* is written back with one more version.                                  *)
(***************************************************************************)
LEMMA AppendEffect ==
    ASSUME DInv, UNCHANGED <<scope, expired>>,
           NEW vs \in Seq(Version), ListOK(vs), NEW new \in Version,
           new.version = Len(vs) + 1, new.gen > 0,
           object' \in [Names -> Nat], generation' \in Nat,
           \A n \in Names : object'[n] >= object[n] /\ object'[n] <= generation',
           object'[new.file_name] >= new.gen,
           added' = added \cup {new},
           delivery' \in Delivery, delivery'.versions = Append(vs, new),
           delivery'.current_version \in {delivery.current_version, new.version},
           overlapped' \in BOOLEAN,
           ~overlapped' => ~overlapped /\ delivery.versions = vs,
           admins' \in Nat, ticks' \in Nat, faults' \in 0..scope.faults,
           task' \in [Admin -> Task], TasksOK'
    PROVE  DInv'
<1> DEFINE ws == Append(vs, new)
<1>1. object \in [Names -> Nat] /\ added \subseteq Version
  BY DEF DInv, DeliveryTypeOK
<1>2. /\ ws \in Seq(Version) /\ ws # <<>> /\ Numbered(ws)
      /\ \A i \in DOMAIN ws : /\ ws[i] \in added' /\ ws[i].gen > 0
                              /\ object'[ws[i].file_name] >= ws[i].gen
  BY <1>1, AppendKeepsListOK
<1>3. DeliveryTypeOK'
  <2>1. added' \in SUBSET Version
    BY <1>1
  <2>2. scope \in Scopes /\ expired \in BOOLEAN
    BY DEF DInv, DeliveryTypeOK
  <2> QED
    BY <2>1, <2>2 DEF DeliveryTypeOK
<1>4. DocumentOK' /\ VersionsHaveFiles'
  BY <1>2 DEF DocumentOK, ListOK, Numbered, Filed, VersionsHaveFiles
<1>5. ASSUME ~overlapped' PROVE NothingLost'
  <2>1. NothingLost /\ delivery.versions = vs
    BY <1>5 DEF DInv, ListSound
  <2>2. /\ Len(vs) \in Nat /\ DOMAIN ws = 1..Len(vs) + 1 /\ DOMAIN vs = 1..Len(vs)
        /\ \A i \in 1..Len(vs) : ws[i] = vs[i]
        /\ ws[Len(vs) + 1] = new
    OBVIOUS
  <2> DEFINE m == Len(vs)
  <2>3. {ws[i] : i \in DOMAIN ws} = {vs[i] : i \in DOMAIN vs} \cup {new}
    <3> HIDE DEF ws, m
    <3>1. \A i \in 1..m + 1 : i \in 1..m \/ i = m + 1
      BY <2>2 DEF m
    <3>2. \A i \in 1..m : i \in 1..m + 1
      BY <2>2 DEF m
    <3>3. m + 1 \in 1..m + 1
      BY <2>2 DEF m
    <3> QED
      BY <2>2, <3>1, <3>2, <3>3 DEF m
  <2>4. {ws[i] : i \in DOMAIN ws} = added'
    BY <2>1, <2>3 DEF NothingLost
  <2>5. \E i \in DOMAIN ws : ws[i].version = delivery'.current_version
    <3>1. CASE delivery'.current_version = new.version
      BY <2>2, <3>1
    <3>2. CASE delivery'.current_version = delivery.current_version
      <4> PICK i \in DOMAIN vs : vs[i].version = delivery.current_version
        BY <2>1 DEF NothingLost, HasCurrent, Numbers
      <4>1. i \in DOMAIN ws /\ ws[i] = vs[i]
        BY <2>2
      <4> QED
        BY <3>2, <4>1
    <3> QED
      BY <3>1, <3>2
  <2>6. HasCurrent(delivery)'
    BY <2>5 DEF HasCurrent, Numbers
  <2> QED
    BY <1>2, <2>4, <2>6 DEF NothingLost, Numbered
<1> QED
  BY <1>3, <1>4, <1>5 DEF DInv, ListSound

LEMMA AppendVersionStep ==
    ASSUME DInv, UNCHANGED scope, NEW a \in Admin, AppendVersion(a)
    PROVE  /\ DInv'
           /\ scope.kind = "single" /\ added \subseteq added'
<1> DEFINE vs == task[a].versions
           new == [version |-> NextVersion(vs), file_name |-> task[a].file_name,
                   gen |-> task[a].gen]
<1>1. /\ vs \in Seq(Version) /\ task[a].file_name \in Names /\ task[a].gen \in Nat
      /\ task[a].make_current \in BOOLEAN /\ task \in [Admin -> Task]
      /\ delivery \in Delivery /\ generation \in Nat /\ object \in [Names -> Nat]
      /\ overlapped \in BOOLEAN
  BY DTypes
<1>2. /\ UNCHANGED <<expired, object, generation, admins, ticks, faults>>
      /\ task[a].at = "append"
      /\ delivery' = [delivery EXCEPT !.versions = Append(vs, new),
                        !.current_version = IF task[a].make_current THEN new.version ELSE @]
      /\ added' = added \cup {new}
      /\ overlapped' = (overlapped \/ delivery.versions # vs)
      /\ task' = [task EXCEPT ![a] = NoTask]
  BY DEF AppendVersion, bounds
<1>3. ListOK(vs) /\ task[a].gen > 0 /\ object[task[a].file_name] >= task[a].gen
      /\ scope.kind = "single"
  BY <1>2 DEF DInv, TasksOK, TaskOK, Adding
<1>4. NextVersion(vs) = Len(vs) + 1 /\ Len(vs) \in Nat
  BY <1>1, <1>3, NextVersionCounts DEF ListOK
<1>5. /\ new \in Version /\ new.version = Len(vs) + 1 /\ new.gen = task[a].gen
      /\ new.file_name = task[a].file_name
  BY <1>1, <1>4 DEF Version
<1> HIDE DEF new, vs
<1>6. Append(vs, new) \in Seq(Version) /\ new.version \in Nat
  BY <1>1, <1>4, <1>5
<1>7. /\ delivery' \in Delivery /\ delivery'.versions = Append(vs, new)
      /\ delivery'.current_version \in {delivery.current_version, new.version}
  <2> DEFINE ws == Append(vs, new)
             c == IF task[a].make_current THEN new.version ELSE delivery.current_version
  <2>1. ws \in Seq(Version) /\ c \in {delivery.current_version, new.version} /\ c \in Nat
    BY <1>1, <1>6 DEF Delivery
  <2>2. delivery' = [delivery EXCEPT !.versions = ws, !.current_version = c]
    BY <1>1, <1>2 DEF Delivery
  <2> HIDE DEF ws, c
  <2> QED
    BY <1>1, <2>1, <2>2 DEF Delivery, ws
<1>8. /\ object' \in [Names -> Nat] /\ generation' \in Nat
      /\ \A n \in Names : object'[n] >= object[n] /\ object'[n] <= generation'
      /\ object'[new.file_name] >= new.gen /\ new.gen > 0
  BY <1>1, <1>2, <1>3, <1>5 DEF DInv, DocumentOK
<1>9. task' \in [Admin -> Task] /\ task'[a] = NoTask /\ \A b \in Admin \ {a} : task'[b] = task[b]
  BY <1>1, <1>2, NoTaskType
<1>10. TasksOK'
  <2>1. TaskOK(a)'
    BY <1>9 DEF TaskOK, NoTask, Adding
  <2>2. added \subseteq added'
    BY <1>2
  <2> QED
    BY <1>2, <1>8, <1>9, <2>1, <2>2, OtherTasksOK
<1>11. /\ overlapped' \in BOOLEAN
       /\ ~overlapped' => ~overlapped /\ delivery.versions = vs
  BY <1>1, <1>2
<1>12. admins' \in Nat /\ ticks' \in Nat /\ faults' \in 0..scope.faults
  BY <1>2, DTypes
<1>13. DInv'
  BY <1>1, <1>2, <1>3, <1>5, <1>7, <1>8, <1>9, <1>10, <1>11, <1>12, AppendEffect
<1> QED
  BY <1>2, <1>3, <1>13

LEMMA RerunStep ==
    ASSUME DInv, UNCHANGED scope, Rerun
    PROVE  /\ DInv'
           /\ added \subseteq added'
           /\ Numbers(delivery.versions) \subseteq Numbers(delivery'.versions)
           /\ delivery'.active = delivery.active
<1> DEFINE vs == delivery.versions
           f == vs[1].file_name
           new == [version |-> NextVersion(vs), file_name |-> f, gen |-> generation + 1]
<1>1. /\ vs \in Seq(Version) /\ task \in [Admin -> Task] /\ delivery \in Delivery
      /\ generation \in Nat /\ object \in [Names -> Nat] /\ overlapped \in BOOLEAN
      /\ vs # <<>> /\ ListOK(vs)
  BY DTypes DEF DInv, DocumentOK
<1>2. f \in Names
  <2>1. vs[1] \in Version
    BY <1>1
  <2> QED
    BY <2>1 DEF Version
<1>3. /\ UNCHANGED <<expired, overlapped, ticks, faults, task>>
      /\ admins' = admins + 1 /\ generation' = generation + 1
      /\ object' = [object EXCEPT ![f] = generation + 1]
      /\ delivery' = [delivery EXCEPT !.versions = Append(@, new), !.current_version = new.version]
      /\ added' = added \cup {new}
  BY DEF Rerun, Begin
<1>4. NextVersion(vs) = Len(vs) + 1 /\ Len(vs) \in Nat
  BY <1>1, NextVersionCounts DEF ListOK
<1>5. /\ new \in Version /\ new.version = Len(vs) + 1 /\ new.gen = generation + 1
      /\ new.file_name = f
  <2>1. generation + 1 \in Nat
    BY <1>1
  <2> QED
    BY <1>2, <1>4, <2>1 DEF Version
<1> HIDE DEF new, f
<1>6. /\ object' \in [Names -> Nat] /\ object'[f] = generation'
      /\ generation' \in Nat /\ generation' > 0
      /\ \A n \in Names : object'[n] >= object[n] /\ object'[n] <= generation'
  BY <1>2, <1>3, GenerationEffect
<1>7. /\ object'[new.file_name] >= new.gen /\ new.gen > 0
  BY <1>1, <1>3, <1>5, <1>6
<1>8. /\ delivery' \in Delivery /\ delivery'.versions = Append(vs, new)
      /\ delivery'.current_version = new.version /\ delivery'.active = delivery.active
  <2> DEFINE ws == Append(vs, new)
             c == new.version
  <2>1. ws \in Seq(Version) /\ c \in Nat
    BY <1>1, <1>4, <1>5
  <2>2. delivery' = [delivery EXCEPT !.versions = ws, !.current_version = c]
    BY <1>1, <1>3 DEF Delivery
  <2> HIDE DEF ws, c
  <2> QED
    BY <1>1, <2>1, <2>2 DEF Delivery, ws, c
<1>9. TasksOK'
  <2>1. added \subseteq added'
    BY <1>3
  <2>2. ASSUME NEW a \in Admin PROVE TaskOK(a)'
    <3>1. TaskOK(a) /\ task'[a] = task[a] /\ task[a].versions \in Seq(Version)
          /\ task[a].file_name \in Names /\ task[a].gen \in Nat
          /\ object[task[a].file_name] \in Nat
      BY <1>3, DTypes DEF DInv, TasksOK
    <3>2. scope.kind # "single"
      BY DEF Rerun
    <3>3. task[a].at \notin Adding
      BY <3>1, <3>2 DEF TaskOK
    <3> QED
      BY <1>3, <3>1, <3>3 DEF TaskOK, Adding
  <2> QED
    BY <2>2 DEF TasksOK
<1>10. /\ overlapped' \in BOOLEAN /\ admins' \in Nat /\ ticks' \in Nat
       /\ faults' \in 0..scope.faults /\ task' \in [Admin -> Task]
       /\ ~overlapped' => ~overlapped
  BY <1>1, <1>3, DTypes
<1>11. DInv'
  <2>1. delivery.versions = vs
    OBVIOUS
  <2> HIDE DEF vs
  <2> QED
    BY <1>1, <1>3, <1>5, <1>6, <1>7, <1>8, <1>9, <1>10, <2>1, AppendEffect
<1>12. Numbers(vs) \subseteq Numbers(Append(vs, new))
  <2>1. \A i \in DOMAIN vs : i \in DOMAIN Append(vs, new) /\ Append(vs, new)[i] = vs[i]
    BY <1>1
  <2> QED
    BY <2>1 DEF Numbers
<1> QED
  BY <1>3, <1>8, <1>11, <1>12

(***************************************************************************)
(* Whoever steps, the invariant holds on, no version is forgotten, and a   *)
(* multi-file delivery keeps listing the numbers that it listed.           *)
(***************************************************************************)
LEMMA DNextInv ==
    ASSUME DInv, DNext
    PROVE  /\ DInv' /\ scope' = scope
           /\ added \subseteq added'
           /\ scope.kind = "multi" =>
                 Numbers(delivery.versions) \subseteq Numbers(delivery'.versions)
           /\ faults' \in Nat /\ faults' >= faults
<1>0. UNCHANGED scope
  BY DEF DNext
<1>1. CASE Rerun
  BY <1>0, <1>1, DTypes, RerunStep DEF Rerun
<1>2. CASE Expire
  BY <1>0, <1>2, DTypes, ExpireStep DEF Expire
<1>3. ASSUME NEW a \in Admin, AppendVersion(a)
      PROVE  /\ DInv' /\ added \subseteq added' /\ scope.kind # "multi" /\ faults' = faults
  BY <1>0, <1>3, AppendVersionStep DEF AppendVersion, bounds
<1>4. ASSUME NEW a \in Admin, StartAdd(a) \/ ReadVersions(a) \/ StartSwitch(a) \/ QueryExpired(a)
      PROVE  /\ DInv' /\ UNCHANGED <<added, delivery, faults>>
  BY <1>0, <1>4, StartAddStep, ReadVersionsStep, StartSwitchStep, QueryExpiredStep
     DEF StartAdd, ReadVersions, StartSwitch, QueryExpired, store, bounds
<1>5. ASSUME NEW a \in Admin, Generate(a)
      PROVE  /\ DInv' /\ UNCHANGED <<added, delivery, faults>>
  BY <1>0, <1>5, GenerateStep DEF Generate
<1>6. ASSUME NEW a \in Admin, Switch(a) \/ CommitCleanup(a)
      PROVE  /\ DInv' /\ UNCHANGED <<added, faults>> /\ delivery'.versions = delivery.versions
  <2>1. DInv' /\ UNCHANGED <<added, faults>>
    BY <1>0, <1>6, SwitchStep, CommitCleanupStep DEF Switch, CommitCleanup, bounds
  <2>2. delivery'.versions = delivery.versions
    BY <1>6, DTypes DEF Switch, CommitCleanup, Delivery
  <2> QED
    BY <2>1, <2>2
<1>7. ASSUME NEW a \in Admin, AdminFails(a)
      PROVE  /\ DInv' /\ UNCHANGED <<added, delivery>> /\ faults' = faults + 1
  BY <1>0, <1>7, AdminFailsStep DEF AdminFails, Fault, store
<1> QED
  BY <1>0, <1>1, <1>2, <1>3, <1>4, <1>5, <1>6, <1>7, DTypes DEF DNext

(***************************************************************************)
(* A step of the recipient's touches no more than the counts of ticks and  *)
(* faults.                                                                 *)
(***************************************************************************)
LEMMA RecipientKeepsDInv ==
    ASSUME DInv, UNCHANGED <<scope, store, generation, admins, task>>,
           ticks' \in Nat, faults' \in 0..scope.faults
    PROVE  DInv'
<1>1. UNCHANGED <<delivery, expired, object, added, overlapped>>
  BY DEF store
<1>2. TasksOK'
  BY <1>1 DEF DInv, TasksOK, TaskOK, ListOK, Numbered, Filed
<1> QED
  BY <1>1, <1>2, DTypes, ListUntouched

(***************************************************************************)
(* What takes a delivery that has not expired away is a disable.           *)
(***************************************************************************)
LEMMA SparesValidStep ==
    ASSUME DInv, DNext, ~expired, delivery.active, ~delivery'.active
    PROVE  \E a \in Admin : Disabling(a)
<1>1. ~Rerun
  BY RerunStep DEF DNext
<1>2. ~Expire
  BY DEF Expire
<1>3. PICK a \in Admin :
         \/ StartAdd(a) \/ Generate(a) \/ ReadVersions(a) \/ AppendVersion(a)
         \/ StartSwitch(a) \/ Switch(a) \/ QueryExpired(a) \/ CommitCleanup(a) \/ AdminFails(a)
  BY <1>1, <1>2 DEF DNext
<1>4. delivery \in Delivery /\ task[a].active \in BOOLEAN
  BY DTypes
<1>5. ~CommitCleanup(a)
  BY DEF DInv, TasksOK, TaskOK, CommitCleanup
<1>6. ~AppendVersion(a)
  <2> SUFFICES ASSUME AppendVersion(a) PROVE FALSE
    OBVIOUS
  <2> DEFINE t == task[a]
             new == [version |-> NextVersion(t.versions), file_name |-> t.file_name, gen |-> t.gen]
             vs == Append(t.versions, new)
             c == IF t.make_current THEN new.version ELSE delivery.current_version
  <2>1. delivery' = [delivery EXCEPT !.versions = vs, !.current_version = c]
    BY <1>4 DEF AppendVersion, Delivery
  <2> HIDE DEF vs, c
  <2> QED
    BY <1>4, <2>1 DEF Delivery
<1>7. ~(StartAdd(a) \/ Generate(a) \/ ReadVersions(a) \/ StartSwitch(a) \/ QueryExpired(a)
        \/ AdminFails(a))
  BY DEF StartAdd, Generate, ReadVersions, StartSwitch, QueryExpired, AdminFails, store
<1>8. Switch(a)
  BY <1>3, <1>5, <1>6, <1>7
<1>9. Disabling(a)
  <2>1. delivery'.active = task[a].active
    BY <1>4, <1>8 DEF Switch, Delivery
  <2> QED
    BY <1>8, <2>1 DEF Switch, Disabling
<1> QED
  BY <1>9
=============================================================================
