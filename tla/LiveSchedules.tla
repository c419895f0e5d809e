---------------------------- MODULE LiveSchedules ----------------------------
(***************************************************************************)
(* The schedule page of the admin screen (report_schedules.py and          *)
(* GET /admin/report-schedules): the jobs of Cloud Scheduler, read page by *)
(* page and cached for Ttl, are compared with the registered expectations. *)
(* The server's threads share the cache; its lock is not held while the    *)
(* jobs are read, so lookups overlap, and the jobs change meanwhile.       *)
(*                                                                         *)
(* A definition named D_X is a faulty variant of D, a change that a        *)
(* property must notice; nothing uses it.                                  *)
(***************************************************************************)
EXTENDS Integers, FiniteSets

CONSTANTS
    Viewer,       \* request slots of the page
    Jobs,         \* names of jobs
    Expected,     \* per registered job, the parts that have a documented value
    Configs,      \* configurations a job may have
    Absent,       \* stands for the configuration of a job that does not exist
    Definitions,  \* report definitions
    Ttl,          \* ttl_seconds, in ticks of the clock
    MaxTime, MaxViews, MaxChanges    \* bounds of the check

Parts == {"cron", "timezone", "endpoint", "audience", "attempt_deadline", "retry"}

(***************************************************************************)
(* What matters of a job's configuration: the parts in which it is not as  *)
(* a registration expects, and whether it targets this service's origin.   *)
(***************************************************************************)
Config == [off : SUBSET Parts, ours : BOOLEAN]

Registered == DOMAIN Expected

ASSUME ExpectedIsDocumented == Registered \subseteq Jobs /\ Expected \in [Registered -> SUBSET Parts]
ASSUME SomeConfigs == Configs \subseteq Config /\ Absent \notin Config
ASSUME Times == Ttl \in Nat \ {0} /\ MaxTime \in Nat

VARIABLES
    clock,      \* time.monotonic()
    jobs,       \* the jobs of Cloud Scheduler
    held,       \* per job, every <<time, configuration>> that it had
    failed,     \* the times at which reading the jobs failed
    definition, \* the report definitions' schedules
    cache,      \* _cache
    views, changes, \* requests begun and changes made so far
    view        \* per slot of Viewer, where its request is and its locals

lvars == <<clock, jobs, held, failed, definition, cache, views, changes, view>>

(***************************************************************************)
(* LiveLookup: ok or unavailable; without an answer no job is known.       *)
(***************************************************************************)
Listing == [Jobs -> Configs \cup {Absent}]
Lookup == [ok : BOOLEAN, jobs : Listing]
NoJobs == [j \in Jobs |-> Absent]
Unavailable == [ok |-> FALSE, jobs |-> NoJobs]

Schedule == [archived : BOOLEAN, enabled : BOOLEAN]

-----------------------------------------------------------------------------
(* The rows of the page *)

(***************************************************************************)
(* evaluate_drift's diffs: only parts with a documented value are          *)
(* compared, and a job on another origin differs in its endpoint.          *)
(***************************************************************************)
Diffs(j, c) ==
    Expected[j] \cap (c.off \cup IF c.ours THEN {} ELSE {"endpoint"})

evaluate_drift(j, c) ==
    CASE c = Absent -> "NOT_CREATED"
      [] c # Absent /\ Expected[j] = {} -> "NO_EXPECTED"
      [] OTHER -> IF Diffs(j, c) = {} THEN "OK" ELSE "CONFIG_DRIFT"

Row(kind, name, drift, diffs) == [kind |-> kind, name |-> name, drift |-> drift, diffs |-> diffs]

(***************************************************************************)
(* _spec_row for a registered job, _unregistered_rows for another.         *)
(***************************************************************************)
JobRows(j, c) ==
    IF j \in Registered
    THEN LET drift == evaluate_drift(j, c)
         IN {Row("spec", j, drift, IF drift = "CONFIG_DRIFT" THEN Diffs(j, c) ELSE {})}
    ELSE IF c # Absent /\ c.ours THEN {Row("unregistered", j, "UNREGISTERED", {})} ELSE {}

UnknownRows == {Row("spec", j, "UNKNOWN", {}) : j \in Registered}

(***************************************************************************)
(* _definition_rows                                                        *)
(***************************************************************************)
DefinitionRows(known) ==
    {Row("definition", d, "N/A", {}) :
        d \in {e \in Definitions : known[e].enabled /\ ~known[e].archived}}

(***************************************************************************)
(* build_schedules_view, but for the definitions                           *)
(***************************************************************************)
LiveRows(lookup) ==
    IF lookup.ok THEN UNION {JobRows(j, lookup.jobs[j]) : j \in Jobs} ELSE UnknownRows

-----------------------------------------------------------------------------
ViewPlaces == {"idle", "cache", "list", "store", "definitions", "shown"}

(***************************************************************************)
(* The locals of a request: now, the jobs not listed yet, the lookup, and  *)
(* the rows shown in the end.                                              *)
(***************************************************************************)
NoView == [at |-> "idle", now |-> 0, left |-> {}, lookup |-> Unavailable, rows |-> {}]

LiveInit ==
    /\ clock = 0
    /\ jobs = NoJobs
    /\ held = [j \in Jobs |-> {<<0, Absent>>}]
    /\ failed = {}
    /\ definition = [d \in Definitions |-> [archived |-> FALSE, enabled |-> FALSE]]
    /\ cache = [at |-> 0, value |-> Unavailable, filled |-> FALSE]
    /\ views = 0
    /\ changes = 0
    /\ view = [v \in Viewer |-> NoView]

Step(v, from, to) ==
    /\ view[v].at = from
    /\ view' = [view EXCEPT ![v] = to]

(***************************************************************************)
(* live_lookup takes the time before anything else.                        *)
(***************************************************************************)
StartView(v, refresh) ==
    /\ views < MaxViews
    /\ views' = views + 1
    /\ Step(v, "idle", [NoView EXCEPT !.at = IF refresh THEN "list" ELSE "cache",
                                      !.now = clock, !.left = Jobs])
    /\ UNCHANGED <<clock, jobs, held, failed, definition, cache, changes>>

Hit(now) == cache.filled /\ now - cache.at < Ttl

(***************************************************************************)
(* Under the lock: a cached lookup that is young enough is the answer.     *)
(***************************************************************************)
ReadCache(v) ==
    /\ Step(v, "cache", IF Hit(view[v].now)
                        THEN [view[v] EXCEPT !.at = "definitions", !.lookup = cache.value]
                        ELSE [view[v] EXCEPT !.at = "list"])
    /\ UNCHANGED <<clock, jobs, held, failed, definition, cache, views, changes>>

(***************************************************************************)
(* _default_list_jobs reads one page of jobs.                              *)
(***************************************************************************)
ListPage(v, page) ==
    /\ LET left == view[v].left \ page
           seen == [j \in Jobs |-> IF j \in page THEN jobs[j] ELSE view[v].lookup.jobs[j]]
       IN Step(v, "list", [view[v] EXCEPT !.left = left,
                                          !.lookup = [ok |-> TRUE, jobs |-> seen],
                                          !.at = IF left = {} THEN "store" ELSE "list"])
    /\ UNCHANGED <<clock, jobs, held, failed, definition, cache, views, changes>>

(***************************************************************************)
(* Any exception becomes an unavailable lookup, which is cached as well.   *)
(***************************************************************************)
ListFails(v) ==
    /\ Step(v, "list", [view[v] EXCEPT !.at = "store", !.lookup = Unavailable, !.left = {}])
    /\ failed' = failed \cup {clock}
    /\ UNCHANGED <<clock, jobs, held, definition, cache, views, changes>>

Cached_WhenStored(v) == [at |-> clock, value |-> view[v].lookup, filled |-> TRUE]

Cached(v) == [at |-> view[v].now, value |-> view[v].lookup, filled |-> TRUE]

StoreLookup(v) ==
    /\ Step(v, "store", [view[v] EXCEPT !.at = "definitions"])
    /\ cache' = Cached(v)
    /\ UNCHANGED <<clock, jobs, held, failed, definition, views, changes>>

(***************************************************************************)
(* The definitions are read last; when that fails the page has none.       *)
(***************************************************************************)
Show(v, known) ==
    /\ Step(v, "definitions", [view[v] EXCEPT !.at = "shown",
                                   !.rows = LiveRows(view[v].lookup) \cup known])
    /\ UNCHANGED <<clock, jobs, held, failed, definition, cache, views, changes>>

ShowAll(v) == Show(v, DefinitionRows(definition))
ShowWithoutDefinitions(v) == Show(v, {})

Leave(v) ==
    /\ Step(v, "shown", NoView)
    /\ UNCHANGED <<clock, jobs, held, failed, definition, cache, views, changes>>

Changed == changes < MaxChanges /\ changes' = changes + 1

(***************************************************************************)
(* Somebody creates, edits or deletes a job.                               *)
(***************************************************************************)
ChangeJob(j, c) ==
    /\ Changed
    /\ jobs[j] # c
    /\ jobs' = [jobs EXCEPT ![j] = c]
    /\ held' = [held EXCEPT ![j] = @ \cup {<<clock, c>>}]
    /\ UNCHANGED <<clock, failed, definition, cache, views, view>>

ChangeDefinition(d, s) ==
    /\ Changed
    /\ definition[d] # s
    /\ definition' = [definition EXCEPT ![d] = s]
    /\ UNCHANGED <<clock, jobs, held, failed, cache, views, view>>

TimePasses ==
    /\ clock < MaxTime
    /\ clock' = clock + 1
    /\ held' = [j \in Jobs |-> held[j] \cup {<<clock + 1, jobs[j]>>}]
    /\ UNCHANGED <<jobs, failed, definition, cache, views, changes, view>>

LiveNext ==
    \/ \E v \in Viewer :
          \/ \E refresh \in BOOLEAN : StartView(v, refresh)
          \/ ReadCache(v)
          \/ \E page \in (SUBSET view[v].left) \ {{}} : ListPage(v, page)
          \/ ListFails(v)
          \/ StoreLookup(v)
          \/ ShowAll(v)
          \/ ShowWithoutDefinitions(v)
          \/ Leave(v)
    \/ \E j \in Jobs, c \in Configs \cup {Absent} : ChangeJob(j, c)
    \/ \E d \in Definitions, s \in Schedule : ChangeDefinition(d, s)
    \/ TimePasses

LiveSpec == LiveInit /\ [][LiveNext]_lvars

-----------------------------------------------------------------------------
RowKinds == {"spec", "unregistered", "definition"}
Drifts == {"OK", "CONFIG_DRIFT", "NOT_CREATED", "NO_EXPECTED", "UNKNOWN", "UNREGISTERED", "N/A"}
PageRow == [kind : RowKinds, name : Jobs \cup Definitions, drift : Drifts, diffs : SUBSET Parts]

Cache == [at : Nat, value : Lookup, filled : BOOLEAN]
View == [at : ViewPlaces, now : Nat, left : SUBSET Jobs, lookup : Lookup, rows : SUBSET PageRow]

LiveTypeOK ==
    /\ clock \in 0..MaxTime
    /\ jobs \in Listing
    /\ held \in [Jobs -> SUBSET ((0..clock) \X (Configs \cup {Absent}))]
    /\ failed \subseteq 0..clock
    /\ definition \in [Definitions -> Schedule]
    /\ cache \in Cache /\ cache.at <= clock
    /\ views \in Nat /\ changes \in Nat
    /\ view \in [Viewer -> View] /\ \A v \in Viewer : view[v].now <= clock

(***************************************************************************)
(* The moments a page asked for at time now may speak of: less than Ttl    *)
(* before, or since.                                                       *)
(***************************************************************************)
Window(v) == {t \in 0..clock : t > view[v].now - Ttl}

RowsOfJob(v, j) == {r \in view[v].rows : r.kind # "definition" /\ r.name = j}

(***************************************************************************)
(* A page never shows a job as it has not been for Ttl when the page was   *)
(* asked for: whatever lookups overlap, are slow, fail or overwrite each   *)
(* other's cached answer, what it says of each job, its drift or that      *)
(* there is no unregistered job of that name, was true at a moment of the  *)
(* window; and it says that the jobs are unknown only when reading them    *)
(* failed in the window.                                                   *)
(***************************************************************************)
PageIsRecent ==
    \A v \in Viewer :
        view[v].at = "shown" =>
            IF view[v].lookup.ok
            THEN \A j \in Jobs : \E t \in Window(v), c \in Configs \cup {Absent} :
                     <<t, c>> \in held[j] /\ RowsOfJob(v, j) = JobRows(j, c)
            ELSE Window(v) \cap failed # {}
=============================================================================
