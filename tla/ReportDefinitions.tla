--------------------------- MODULE ReportDefinitions ---------------------------
(***************************************************************************)
(* The report definitions of distribution.py: a document per report, with  *)
(* a list of versions that template and query mapping publishes read,      *)
(* extend and write back, and the templates in Cloud Storage.              *)
(*                                                                         *)
(* An operator's request is cut where it has read the document and where   *)
(* it writes.  The updates of fields of their own (schedule, allowlist,    *)
(* archive, edit) look only whether the document exists, which nothing     *)
(* undoes, and are one step.                                               *)
(*                                                                         *)
(* A definition named D_X is a faulty variant of D, a change that a        *)
(* property must notice; nothing uses it.                                  *)
(***************************************************************************)
EXTENDS Integers, Sequences, FiniteSetsExt

CONSTANTS
    Documents,  \* the report ids, in the order a query streams them
    Operator,   \* request slots of the admin screen
    Templates,  \* contents of template files, all of one file name
    NoTemplate, \* in place of the content where there is none
    Prefixes,   \* gcs_prefix, normalised as _scheduled_generation_storage does
    Days,       \* day_of_month of a schedule
    Times,      \* time_of_day of a schedule
    Scopes      \* bounds: the first state and the number of events, one per behaviour

Report == {Documents[i] : i \in DOMAIN Documents}

(***************************************************************************)
(* ready: the definitions that are complete at the start; edits: requests  *)
(* of operators; calls: calls of the executor; faults: requests that die   *)
(* or whose calls fail.                                                    *)
(***************************************************************************)
Scope == [ready : SUBSET Report, edits : Nat, calls : Nat, faults : Nat]

ASSUME ScopesAreBounds == Scopes \subseteq Scope
ASSUME SomeReport == Documents \in Seq(STRING) /\ Documents # <<>>
ASSUME TimesAreNumbers == Days \subseteq Nat /\ Times \subseteq Nat
ASSUME SomeValues == Prefixes # {} /\ Days # {} /\ Times # {}
ASSUME NoTemplateIsNone == NoTemplate \notin Templates

VARIABLES
    scope,      \* the bounds of this behaviour; no step changes it
    definition, \* the definition documents
    object,     \* per report, the template objects by the number in their path
    published,  \* per report, every version ever written
    raced,      \* the reports with publishes, or creations, that overlapped
    edits,      \* operators' requests begun so far
    faults,     \* faults so far
    task        \* per slot of Operator, where its request is and its locals

docs == <<definition, object, published, raced>>
rvars == <<scope, docs, edits, faults, task>>

Content == Templates \cup {NoTemplate}

(***************************************************************************)
(* A version: its number, the content its template_sha256 tells (copied by *)
(* a query mapping), the number in the path of its template_gcs_uri, and   *)
(* whether it has query_config_id and mapping_version_id.                  *)
(***************************************************************************)
Version == [version : Nat, template : Content, path : Nat, mapped : BOOLEAN]

Draft == [version |-> 1, template |-> NoTemplate, path |-> 0, mapped |-> FALSE]

Schedule == [enabled : BOOLEAN, day : Days, time : Times]

Definition == [exists : BOOLEAN, archived : BOOLEAN, prefix : Prefixes, schedule : Schedule,
               allowlisted : BOOLEAN, current_version : Nat, versions : Seq(Version)]

Numbers(versions) == {versions[i].version : i \in DOMAIN versions}

HasCurrent(d) == d.current_version \in Numbers(d.versions)

(***************************************************************************)
(* _find_report_definition_current_version                                 *)
(***************************************************************************)
Current(d) ==
    d.versions[CHOOSE i \in DOMAIN d.versions : d.versions[i].version = d.current_version]

Places == {"idle", "create", "upload", "publish", "map", "rollback"}

(***************************************************************************)
(* The locals of a request: the report, the list it read, the version it   *)
(* builds or, for a query mapping, copies; the number to roll back to.     *)
(***************************************************************************)
Task == [at : Places, report : Report, versions : Seq(Version),
         template : Content, path : Nat, number : Nat]

NoTask == [at |-> "idle", report |-> Documents[1], versions |-> <<>>,
           template |-> NoTemplate, path |-> 0, number |-> 0]

NewDefinition(prefix) ==
    [exists |-> TRUE, archived |-> FALSE, prefix |-> prefix,
     schedule |-> [enabled |-> FALSE, day |-> Min(Days), time |-> Min(Times)],
     allowlisted |-> FALSE, current_version |-> 1, versions |-> <<Draft>>]

Absent == [NewDefinition(CHOOSE p \in Prefixes : TRUE) EXCEPT
              !.exists = FALSE, !.current_version = 0, !.versions = <<>>]

(***************************************************************************)
(* A definition that was created, given a template, a query mapping, a     *)
(* schedule and an allowlist.                                              *)
(***************************************************************************)
Ready(prefix, t) ==
    LET template == [version |-> 2, template |-> t, path |-> 2, mapped |-> FALSE]
    IN  [NewDefinition(prefix) EXCEPT
            !.schedule.enabled = TRUE, !.allowlisted = TRUE, !.current_version = 3,
            !.versions = <<Draft, template, [template EXCEPT !.version = 3, !.mapped = TRUE]>>]

RInit ==
    /\ scope \in Scopes
    /\ \E t \in Templates, prefix \in [Report -> Prefixes] :
          /\ definition = [r \in Report |-> IF r \in scope.ready THEN Ready(prefix[r], t)
                                                                 ELSE Absent]
          /\ object = [r \in Report |-> [n \in {k \in {2} : r \in scope.ready} |-> t]]
    /\ published = [r \in Report |->
                        {definition[r].versions[i] : i \in DOMAIN definition[r].versions}]
    /\ raced = {}
    /\ edits = 0
    /\ faults = 0
    /\ task = [o \in Operator |-> NoTask]

-----------------------------------------------------------------------------
(* Helpers *)

Begin == /\ edits < scope.edits
         /\ edits' = edits + 1

Fault == /\ faults < scope.faults
         /\ faults' = faults + 1

Answer(o) == task' = [task EXCEPT ![o] = NoTask]

Editable(r) == definition[r].exists /\ ~definition[r].archived

NextVersion_Counts(versions) == Len(versions)

NextVersion(versions) ==
    IF versions = <<>> THEN 1 ELSE Max(Numbers(versions)) + 1

Publishing(p, r) == task[p].at \in {"upload", "publish", "map"} /\ task[p].report = r

(***************************************************************************)
(* History: another publish of r has read the document and not yet ended.  *)
(***************************************************************************)
NoteRace(o, r) ==
    raced' = raced \cup {q \in {r} : \E p \in Operator \ {o} : Publishing(p, q)}

(***************************************************************************)
(* A new version at the end of the list that was read, and current.        *)
(***************************************************************************)
AddVersion(r, versions, v) ==
    /\ definition' = [definition EXCEPT ![r].versions = Append(versions, v),
                                        ![r].current_version = v.version]
    /\ published' = [published EXCEPT ![r] = @ \cup {v}]

-----------------------------------------------------------------------------
(* create_report_definition: looks, then sets *)

StartCreate(o, r) ==
    /\ task[o].at = "idle"
    /\ ~definition[r].exists
    /\ task' = [task EXCEPT ![o] = [NoTask EXCEPT !.at = "create", !.report = r]]
    /\ Begin
    /\ UNCHANGED <<docs, faults>>

Create(o) ==
    LET r == task[o].report
    IN  /\ task[o].at = "create"
        /\ \E p \in Prefixes : definition' = [definition EXCEPT ![r] = NewDefinition(p)]
        /\ published' = [published EXCEPT ![r] = @ \cup {Draft}]
        /\ raced' = raced \cup {q \in {r} : definition[q].exists}
        /\ Answer(o)
        /\ UNCHANGED <<object, edits, faults>>

-----------------------------------------------------------------------------
(* publish_report_definition_template *)

StartPublish(o, r) ==
    /\ task[o].at = "idle"
    /\ Editable(r)
    /\ \E t \in Templates :
          task' = [task EXCEPT ![o] = [NoTask EXCEPT !.at = "upload", !.report = r,
                                  !.versions = definition[r].versions, !.template = t]]
    /\ NoteRace(o, r)
    /\ Begin
    /\ UNCHANGED <<definition, object, published, faults>>

Upload(o) ==
    LET t == task[o]
        n == NextVersion(t.versions)
    IN  /\ t.at = "upload"
        /\ object' = [object EXCEPT ![t.report] =
                         [k \in DOMAIN @ \cup {n} |-> IF k = n THEN t.template ELSE @[k]]]
        /\ task' = [task EXCEPT ![o].at = "publish", ![o].path = n]
        /\ UNCHANGED <<definition, published, raced, edits, faults>>

Publish(o) ==
    LET t == task[o]
    IN  /\ t.at = "publish"
        /\ AddVersion(t.report, t.versions,
              [version |-> t.path, template |-> t.template, path |-> t.path, mapped |-> FALSE])
        /\ Answer(o)
        /\ UNCHANGED <<object, raced, edits, faults>>

-----------------------------------------------------------------------------
(* publish_report_definition_query_mapping: a copy of the current template *)

StartMapping(o, r) ==
    /\ task[o].at = "idle"
    /\ Editable(r)
    /\ HasCurrent(definition[r])
    /\ LET v == Current(definition[r])
       IN  task' = [task EXCEPT ![o] = [NoTask EXCEPT !.at = "map", !.report = r,
                       !.versions = definition[r].versions, !.template = v.template, !.path = v.path]]
    /\ NoteRace(o, r)
    /\ Begin
    /\ UNCHANGED <<definition, object, published, faults>>

PublishMapping(o) ==
    LET t == task[o]
    IN  /\ t.at = "map"
        /\ AddVersion(t.report, t.versions,
              [version |-> NextVersion(t.versions), template |-> t.template, path |-> t.path,
               mapped |-> TRUE])
        /\ Answer(o)
        /\ UNCHANGED <<object, raced, edits, faults>>

-----------------------------------------------------------------------------
(* rollback_report_definition_version *)

StartRollback(o, r) ==
    /\ task[o].at = "idle"
    /\ Editable(r)
    /\ \E n \in Numbers(definition[r].versions) :
          task' = [task EXCEPT ![o] = [NoTask EXCEPT !.at = "rollback", !.report = r, !.number = n]]
    /\ Begin
    /\ UNCHANGED <<docs, faults>>

Rollback(o) ==
    /\ task[o].at = "rollback"
    /\ definition' = [definition EXCEPT ![task[o].report].current_version = task[o].number]
    /\ Answer(o)
    /\ UNCHANGED <<object, published, raced, edits, faults>>

-----------------------------------------------------------------------------
(* Fields of their own, also of an archived definition *)

Change(r) ==
    \/ \E s \in Schedule : definition' = [definition EXCEPT ![r].schedule = s]
    \/ \E a \in BOOLEAN : definition' = [definition EXCEPT ![r].allowlisted = a]
    \/ \E p \in Prefixes : definition' = [definition EXCEPT ![r].prefix = p]
    \/ definition' = [definition EXCEPT ![r].archived = TRUE]

Update(r) ==
    /\ definition[r].exists
    /\ Change(r)
    /\ Begin
    /\ UNCHANGED <<object, published, raced, faults, task>>

(***************************************************************************)
(* A call raises or the instance dies.                                     *)
(***************************************************************************)
OperatorFails(o) ==
    /\ task[o].at # "idle"
    /\ Fault
    /\ Answer(o)
    /\ UNCHANGED <<docs, edits>>

-----------------------------------------------------------------------------
RNext ==
    /\ \/ \E o \in Operator :
             \/ \E r \in Report :
                   StartCreate(o, r) \/ StartPublish(o, r) \/ StartMapping(o, r) \/ StartRollback(o, r)
             \/ Create(o) \/ Upload(o) \/ Publish(o) \/ PublishMapping(o) \/ Rollback(o)
             \/ OperatorFails(o)
       \/ \E r \in Report : Update(r)
    /\ UNCHANGED scope

DefinitionSpec == RInit /\ [][RNext]_rvars

-----------------------------------------------------------------------------
(* Properties *)

DefinitionsTypeOK ==
    /\ scope \in Scopes
    /\ definition \in [Report -> Definition]
    /\ DOMAIN object = Report
    /\ \A r \in Report : DOMAIN object[r] \subseteq Nat /\ object[r] \in [DOMAIN object[r] -> Templates]
    /\ published \in [Report -> SUBSET Version]
    /\ raced \subseteq Report
    /\ edits \in Nat /\ faults \in Nat
    /\ task \in [Operator -> Task]

(***************************************************************************)
(* Unless publishes of one report overlapped, no order of publishes,       *)
(* rollbacks, archivings and failures loses a version: all that were       *)
(* published are listed, numbered without gaps; the current one is listed, *)
(* also after a rollback that began before a publish; and every template,  *)
(* through all the copies that query mappings made, is still the content   *)
(* that was published, although a failed publish leaves an object behind.  *)
(***************************************************************************)
ListsWhatWasPublished(r) ==
    LET versions == definition[r].versions
    IN  /\ {versions[i] : i \in DOMAIN versions} = published[r]
        /\ \A i \in DOMAIN versions : versions[i].version = i

TemplatesStand(r) ==
    \A v \in published[r] : v.template # NoTemplate =>
        v.path \in DOMAIN object[r] /\ object[r][v.path] = v.template

VersionsStand ==
    \A r \in Report \ raced : definition[r].exists =>
        ListsWhatWasPublished(r) /\ HasCurrent(definition[r]) /\ TemplatesStand(r)
=============================================================================
