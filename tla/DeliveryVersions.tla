--------------------------- MODULE DeliveryVersions ---------------------------
(***************************************************************************)
(* One delivery document under the administrators (distribution.py and the *)
(* /deliveries routes of app.py): versions are added by reading the list   *)
(* and writing it back, the delivery is disabled, enabled and, once it has *)
(* expired, cleaned up.  A multi-file delivery shares all but the way      *)
(* versions are added: its report appends them in a transaction            *)
(* (MultiFileDelivery).                                                    *)
(*                                                                         *)
(* A request of an administrator is cut at its calls to Firestore and at   *)
(* the generation, which writes a file to Cloud Storage.                   *)
(*                                                                         *)
(* A definition named D_X is a faulty variant of D, a change that a        *)
(* property must notice; nothing uses it.                                  *)
(***************************************************************************)
EXTENDS Integers, Sequences, FiniteSetsExt

CONSTANTS
    Admin,      \* request slots of the admin screen and of /internal/cleanup
    Names,      \* file names an administrator may give a version
    Scopes      \* bounds: which delivery and how many events, one of them per behaviour

Kinds == {"single", "multi"}

(***************************************************************************)
(* admin: admin requests and reruns begun; pins: PINs drawn; ticks: times  *)
(* a deadline passes; faults: requests that die or whose calls fail, and   *)
(* typing errors.                                                          *)
(***************************************************************************)
Scope == [kind : Kinds, admin : Nat, pins : Nat, ticks : Nat, faults : Nat]

ASSUME ScopesAreBounds == Scopes \subseteq Scope
ASSUME SomeName == Names # {}

VARIABLES
    scope,      \* the bounds of this behaviour; no step changes it
    delivery,   \* the delivery document
    expired,    \* whether its expires_at has passed
    object,     \* per file name, the generation that wrote the object last
    added,      \* every version ever written to the document
    overlapped, \* whether a version list was written back over a newer one
    generation, \* generations so far
    admins,     \* admin requests and reruns begun so far
    ticks,      \* deadlines passed so far
    faults,     \* faults so far
    task        \* per slot of Admin, where its request is and its locals

store == <<delivery, expired, object, added, overlapped>>
bounds == <<generation, admins, ticks, faults>>
dvars == <<scope, store, bounds, task>>

(***************************************************************************)
(* A version: its number, its file, and the generation it was added for.   *)
(***************************************************************************)
Version == [version : Nat, file_name : Names, gen : Nat]

Delivery == [active : BOOLEAN, current_version : Nat, versions : Seq(Version)]

Numbers(versions) == {versions[i].version : i \in DOMAIN versions}

HasCurrent(d) == d.current_version \in Numbers(d.versions)

(***************************************************************************)
(* get_current_version raises ValueError when the list lacks the version.  *)
(***************************************************************************)
get_current_version(d) ==
    d.versions[CHOOSE i \in DOMAIN d.versions : d.versions[i].version = d.current_version]

Places == {"idle", "generate", "read", "append", "switch", "clean"}

(***************************************************************************)
(* The locals of an admin request: the file name, whether the version is   *)
(* to be current, the generation that wrote the file, the list it read,    *)
(* the active flag to set.                                                 *)
(***************************************************************************)
Task == [at : Places, file_name : Names, make_current : BOOLEAN, gen : Nat,
         versions : Seq(Version), active : BOOLEAN]

NoTask == [at |-> "idle", file_name |-> CHOOSE n \in Names : TRUE, make_current |-> FALSE,
           gen |-> 0, versions |-> <<>>, active |-> FALSE]

(***************************************************************************)
(* create_delivery: generated or given a file, then create_delivery_record.*)
(***************************************************************************)
FirstVersion(n) == [version |-> 1, file_name |-> n, gen |-> 1]

NewDelivery(n) == [active |-> TRUE, current_version |-> 1, versions |-> <<FirstVersion(n)>>]

DInit ==
    /\ scope \in Scopes
    /\ \E n \in Names :
          /\ delivery = NewDelivery(n)
          /\ object = [m \in Names |-> IF m = n THEN 1 ELSE 0]
          /\ added = {FirstVersion(n)}
    /\ expired = FALSE
    /\ overlapped = FALSE
    /\ generation = 1
    /\ admins = 0
    /\ ticks = 0
    /\ faults = 0
    /\ task = [a \in Admin |-> NoTask]

Begin == /\ admins < scope.admin
         /\ admins' = admins + 1

Tick == /\ ticks < scope.ticks
        /\ ticks' = ticks + 1

Fault == /\ faults < scope.faults
         /\ faults' = faults + 1

-----------------------------------------------------------------------------
(* add_version: choose the file, generate, read the list, write it back *)

(***************************************************************************)
(* The file name is the one asked for or, to overwrite, the current        *)
(* version's: either way a name of Names, possibly one in use.  A          *)
(* multi-file delivery is refused, which changes nothing.                  *)
(***************************************************************************)
StartAdd(a) ==
    /\ task[a].at = "idle"
    /\ scope.kind = "single"
    /\ \E n \in Names, current \in BOOLEAN :
          task' = [task EXCEPT ![a] = [NoTask EXCEPT !.at = "generate", !.file_name = n,
                                                     !.make_current = current]]
    /\ Begin
    /\ UNCHANGED <<store, generation, ticks, faults>>

Generate(a) ==
    /\ task[a].at = "generate"
    /\ generation' = generation + 1
    /\ object' = [object EXCEPT ![task[a].file_name] = generation + 1]
    /\ task' = [task EXCEPT ![a].at = "read", ![a].gen = generation + 1]
    /\ UNCHANGED <<delivery, expired, added, overlapped, admins, ticks, faults>>

ReadVersions(a) ==
    /\ task[a].at = "read"
    /\ task' = [task EXCEPT ![a].at = "append", ![a].versions = delivery.versions]
    /\ UNCHANGED <<store, bounds>>

NextVersion_Counts(versions) == Len(versions)

NextVersion(versions) ==
    IF versions = <<>> THEN 1 ELSE Max(Numbers(versions)) + 1

AppendVersion(a) ==
    LET t   == task[a]
        new == [version |-> NextVersion(t.versions), file_name |-> t.file_name, gen |-> t.gen]
    IN  /\ t.at = "append"
        /\ delivery' = [delivery EXCEPT !.versions = Append(t.versions, new),
                                        !.current_version = IF t.make_current THEN new.version ELSE @]
        /\ added' = added \cup {new}
        /\ overlapped' = (overlapped \/ delivery.versions # t.versions)
        /\ task' = [task EXCEPT ![a] = NoTask]
        /\ UNCHANGED <<expired, object, bounds>>

-----------------------------------------------------------------------------
(* disable_delivery, enable_delivery and the cleanup *)

(***************************************************************************)
(* set_delivery_active reads the document, refuses one whose current       *)
(* version is not listed, and then updates the flag.                       *)
(***************************************************************************)
StartSwitch(a) ==
    /\ task[a].at = "idle"
    /\ HasCurrent(delivery)
    /\ \E active \in BOOLEAN :
          task' = [task EXCEPT ![a] = [NoTask EXCEPT !.at = "switch", !.active = active]]
    /\ Begin
    /\ UNCHANGED <<store, generation, ticks, faults>>

Switch(a) ==
    /\ task[a].at = "switch"
    /\ delivery' = [delivery EXCEPT !.active = task[a].active]
    /\ task' = [task EXCEPT ![a] = NoTask]
    /\ UNCHANGED <<expired, object, added, overlapped, bounds>>

(***************************************************************************)
(* cleanup_expired_deliveries: a query selects, a batch written later      *)
(* deactivates without looking again.                                      *)
(***************************************************************************)
QueryExpired_AllActive(a) ==
    /\ task[a].at = "idle"
    /\ delivery.active
    /\ task' = [task EXCEPT ![a].at = "clean"]
    /\ Begin
    /\ UNCHANGED <<store, generation, ticks, faults>>

QueryExpired(a) ==
    /\ task[a].at = "idle"
    /\ delivery.active /\ expired
    /\ task' = [task EXCEPT ![a].at = "clean"]
    /\ Begin
    /\ UNCHANGED <<store, generation, ticks, faults>>

CommitCleanup(a) ==
    /\ task[a].at = "clean"
    /\ delivery' = [delivery EXCEPT !.active = FALSE]
    /\ task' = [task EXCEPT ![a] = NoTask]
    /\ UNCHANGED <<expired, object, added, overlapped, bounds>>

(***************************************************************************)
(* A call raises, the generation fails or the instance dies.               *)
(***************************************************************************)
AdminFails(a) ==
    /\ task[a].at # "idle"
    /\ Fault
    /\ task' = [task EXCEPT ![a] = NoTask]
    /\ UNCHANGED <<store, generation, admins, ticks>>

-----------------------------------------------------------------------------
(* The environment *)

(***************************************************************************)
(* upsert_multi_file_delivery, in one transaction, after its files exist.  *)
(***************************************************************************)
Rerun ==
    LET n   == delivery.versions[1].file_name
        new == [version |-> NextVersion(delivery.versions), file_name |-> n, gen |-> generation + 1]
    IN  /\ scope.kind = "multi"
        /\ Begin
        /\ generation' = generation + 1
        /\ object' = [object EXCEPT ![n] = generation + 1]
        /\ delivery' = [delivery EXCEPT !.versions = Append(@, new), !.current_version = new.version]
        /\ added' = added \cup {new}
        /\ UNCHANGED <<expired, overlapped, ticks, faults, task>>

Expire ==
    /\ ~expired
    /\ Tick
    /\ expired' = TRUE
    /\ UNCHANGED <<delivery, object, added, overlapped, generation, admins, faults, task>>

-----------------------------------------------------------------------------
DNext ==
    /\ \/ \E a \in Admin :
             \/ StartAdd(a) \/ Generate(a) \/ ReadVersions(a) \/ AppendVersion(a)
             \/ StartSwitch(a) \/ Switch(a)
             \/ QueryExpired(a) \/ CommitCleanup(a)
             \/ AdminFails(a)
       \/ Rerun
       \/ Expire
    /\ UNCHANGED scope

DeliverySpec == DInit /\ [][DNext]_dvars

-----------------------------------------------------------------------------
(* Properties *)

DeliveryTypeOK ==
    /\ scope \in Scopes
    /\ delivery \in Delivery
    /\ expired \in BOOLEAN
    /\ object \in [Names -> Nat]
    /\ added \in SUBSET Version
    /\ overlapped \in BOOLEAN
    /\ generation \in Nat /\ admins \in Nat /\ ticks \in Nat
    /\ faults \in 0..scope.faults
    /\ task \in [Admin -> Task]

(***************************************************************************)
(* All versions that were ever added are listed, in order and without      *)
(* gaps, and the current one is among them, so that it can be downloaded   *)
(* and the delivery disabled.                                              *)
(***************************************************************************)
NothingLost ==
    /\ {delivery.versions[i] : i \in DOMAIN delivery.versions} = added
    /\ \A i \in DOMAIN delivery.versions : delivery.versions[i].version = i
    /\ HasCurrent(delivery)

(***************************************************************************)
(* A listed version has its file, of its own generation or a later one     *)
(* that overwrote it.                                                      *)
(***************************************************************************)
VersionsHaveFiles ==
    \A i \in DOMAIN delivery.versions :
        LET v == delivery.versions[i] IN v.gen > 0 /\ object[v.file_name] >= v.gen

(***************************************************************************)
(* A failed, repeated or overlapping request never leaves a version without*)
(* a file; and as long as no version list was written back over a newer one*)
(* (two add_version requests that overlap), nothing that disables, enables,*)
(* cleans up or fails loses a version or the current one.                  *)
(***************************************************************************)
ListSound == VersionsHaveFiles /\ (~overlapped => NothingLost)

(***************************************************************************)
(* The cleanup, which selects first and writes later, never takes away a   *)
(* delivery that has not expired: that goes inactive by a disable only.    *)
(***************************************************************************)
Disabling(a) == task[a].at = "switch" /\ ~task[a].active

CleanupSparesValid ==
    [][~expired /\ delivery.active /\ ~delivery'.active => \E a \in Admin : Disabling(a)]_dvars
=============================================================================
