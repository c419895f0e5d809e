------------------------- MODULE ServiceTools_proofs -------------------------
(***************************************************************************)
(* Proofs about the parts of ServiceTools, for any jobs, definitions,      *)
(* deliveries, records, objects and templates and any limits: what the     *)
(* page of the schedules shows was true a short while ago, the retention   *)
(* review deletes what was listed and still is what it was, and a saved    *)
(* workbook's package holds together, has lost nothing but its Power       *)
(* Query, and has the rows that were written, where its ranges say.        *)
(***************************************************************************)
EXTENDS ServiceTools, FiniteSetTheorems, WellFoundedInduction, TLAPS

-----------------------------------------------------------------------------
(* The page of the schedules *)

(***************************************************************************)
(* A lookup that speaks of moments from t on: every job was as it says at  *)
(* some moment since, or reading the jobs failed at one.                   *)
(***************************************************************************)
TrueSince(lookup, t) ==
    IF lookup.ok
    THEN \A j \in Jobs : \E u \in t..clock : <<u, lookup.jobs[j]>> \in held[j]
    ELSE \E u \in t..clock : u \in failed

(***************************************************************************)
(* What a request knows: the jobs it has listed so far were so since it    *)
(* began, its finished lookup speaks of the time since, and the answer it  *)
(* goes on with, cached or its own, is of the window of the request.       *)
(***************************************************************************)
ViewOK(v) ==
    LET w == view[v]
    IN /\ w.at = "cache" => w.left = Jobs
       /\ w.at = "list" =>
             \A j \in Jobs \ w.left : \E u \in w.now..clock : <<u, w.lookup.jobs[j]>> \in held[j]
       /\ w.at = "store" => TrueSince(w.lookup, w.now)
       /\ w.at \in {"definitions", "shown"} =>
             \E t \in 0..clock : t > w.now - Ttl /\ TrueSince(w.lookup, t)
       /\ w.at = "shown" /\ w.lookup.ok =>
             \A j \in Jobs : RowsOfJob(v, j) = JobRows(j, w.lookup.jobs[j])

CacheOK == cache.filled => TrueSince(cache.value, cache.at)

LInv ==
    /\ LiveTypeOK
    /\ \A j \in Jobs : <<clock, jobs[j]>> \in held[j]
    /\ CacheOK
    /\ \A v \in Viewer : ViewOK(v)

(***************************************************************************)
(* What was true of the past stays true of it.                             *)
(***************************************************************************)
Later ==
    /\ clock \in Nat /\ clock' \in Nat /\ clock <= clock'
    /\ \A j \in Jobs : held[j] \subseteq held'[j]
    /\ failed \subseteq failed'

LEMMA TrueLater ==
    ASSUME Later, NEW lookup, NEW t \in Nat, TrueSince(lookup, t)
    PROVE  TrueSince(lookup, t)'
<1>1. \A u \in t..clock : u \in t..clock'
  BY DEF Later
<1>2. CASE lookup.ok
  BY <1>1, <1>2 DEF TrueSince, Later
<1>3. CASE ~lookup.ok
  BY <1>1, <1>3 DEF TrueSince, Later
<1> QED
  BY <1>2, <1>3

LEMMA ViewLater ==
    ASSUME Later, NEW v \in Viewer, ViewOK(v), view'[v] = view[v], view[v] \in View
    PROVE  ViewOK(v)'
<1>1. PICK w \in View : w = view[v] /\ w = view'[v]
  OBVIOUS
<1>2. w.now \in Nat /\ \A u \in w.now..clock : u \in w.now..clock'
  BY <1>1 DEF Later, View
<1>3. w.at = "list" =>
        \A j \in Jobs \ w.left : \E u \in w.now..clock' : <<u, w.lookup.jobs[j]>> \in held'[j]
  BY <1>1, <1>2 DEF ViewOK, Later
<1>4. w.at = "store" => TrueSince(w.lookup, w.now)'
  BY <1>1, <1>2, TrueLater DEF ViewOK
<1>5. w.at \in {"definitions", "shown"} =>
        \E t \in 0..clock' : t > w.now - Ttl /\ TrueSince(w.lookup, t)'
  <2> SUFFICES ASSUME NEW t \in 0..clock, t > w.now - Ttl, TrueSince(w.lookup, t)
               PROVE  t \in 0..clock' /\ TrueSince(w.lookup, t)'
    BY <1>1 DEF ViewOK
  <2>1. t \in Nat /\ t \in 0..clock'
    BY DEF Later
  <2> QED
    BY <2>1, TrueLater
<1>6. w.at = "cache" => w.left = Jobs
  BY <1>1 DEF ViewOK
<1>7. w.at = "shown" /\ w.lookup.ok =>
        \A j \in Jobs : RowsOfJob(v, j)' = JobRows(j, w.lookup.jobs[j])
  BY <1>1 DEF ViewOK, RowsOfJob
<1> QED
  BY <1>1, <1>3, <1>4, <1>5, <1>6, <1>7 DEF ViewOK

(***************************************************************************)
(* A step of the world around the page: the requests and the cache rest.   *)
(***************************************************************************)
LEMMA WorldStep ==
    ASSUME LInv, Later, LiveTypeOK', UNCHANGED <<view, cache>>,
           \A j \in Jobs : <<clock', jobs'[j]>> \in held'[j]
    PROVE  LInv'
<1>1. \A v \in Viewer : ViewOK(v)'
  BY ViewLater DEF LInv, LiveTypeOK
<1>2. CacheOK'
  <2>1. cache.at \in Nat
    BY DEF LInv, LiveTypeOK, Cache
  <2> QED
    BY <2>1, TrueLater DEF LInv, CacheOK
<1> QED
  BY <1>1, <1>2 DEF LInv

(***************************************************************************)
(* A step of one request.                                                  *)
(***************************************************************************)
LEMMA ViewStep ==
    ASSUME LInv, NEW v \in Viewer, NEW from, NEW to \in View, Step(v, from, to),
           to.now <= clock, UNCHANGED <<clock, jobs, held, definition, changes>>,
           failed \subseteq failed', failed' \subseteq 0..clock, views' \in Nat,
           cache' \in Cache, cache'.at <= clock,
           CacheOK',
           ViewOK(v)'
    PROVE  LInv'
<1>1. /\ view' \in [Viewer -> View] /\ view'[v] = to
      /\ \A u \in Viewer \ {v} : view'[u] = view[u]
  BY DEF Step, LInv, LiveTypeOK
<1>2. LiveTypeOK'
  BY <1>1 DEF LInv, LiveTypeOK
<1>3. Later
  BY Times DEF Later, LInv, LiveTypeOK
<1>4. \A u \in Viewer \ {v} : ViewOK(u)'
  BY <1>1, <1>3, ViewLater DEF LInv, LiveTypeOK
<1>5. \A j \in Jobs : <<clock', jobs'[j]>> \in held'[j]
  BY DEF LInv
<1> QED
  BY <1>2, <1>4, <1>5 DEF LInv

LEMMA NoViewTyped == NoView \in View
<1>1. NoJobs \in Listing /\ Unavailable \in Lookup
  BY DEF NoJobs, Listing, Unavailable, Lookup
<1> QED
  BY <1>1 DEF NoView, View, ViewPlaces

(***************************************************************************)
(* The cache as it is stays true while a request takes a step.             *)
(***************************************************************************)
LEMMA CacheStays ==
    ASSUME LInv, UNCHANGED <<clock, held, cache>>, failed \subseteq failed'
    PROVE  cache' \in Cache /\ cache'.at <= clock /\ CacheOK'
<1>1. cache.at \in Nat /\ Later
  BY Times DEF LInv, LiveTypeOK, Cache, Later
<1> QED
  BY <1>1, TrueLater DEF LInv, LiveTypeOK, CacheOK

LEMMA StartViewStep ==
    ASSUME LInv, NEW v \in Viewer, NEW refresh \in BOOLEAN, StartView(v, refresh)
    PROVE  LInv'
<1> DEFINE new == [NoView EXCEPT !.at = IF refresh THEN "list" ELSE "cache",
                                !.now = clock, !.left = Jobs]
<1>1a. /\ new \in View /\ new.at \in {"list", "cache"} /\ new.left = Jobs /\ new.now = clock
  <2>1. clock \in Nat
    BY Times DEF LInv, LiveTypeOK
  <2> QED
    BY <2>1, NoViewTyped DEF View, ViewPlaces
<1> PICK to : to = new
  OBVIOUS
<1>1. /\ to \in View /\ to.at \in {"list", "cache"} /\ to.left = Jobs /\ to.now = clock
  BY <1>1a
<1>2. Step(v, "idle", to) /\ view' = [view EXCEPT ![v] = to]
      /\ UNCHANGED <<clock, jobs, held, failed, definition, cache, changes>>
  BY DEF StartView, Step
<1> HIDE DEF new
<1>3. view'[v] = to
  BY <1>2 DEF LInv, LiveTypeOK
<1>4. ViewOK(v)'
  BY <1>1, <1>3 DEF ViewOK
<1>5. clock \in Nat /\ views' \in Nat /\ failed \subseteq 0..clock
  BY Times DEF LInv, LiveTypeOK, StartView
<1> QED
  BY <1>1, <1>2, <1>4, <1>5, CacheStays, ViewStep

LEMMA ReadCacheStep ==
    ASSUME LInv, NEW v \in Viewer, ReadCache(v)
    PROVE  LInv'
<1> DEFINE new == IF Hit(view[v].now)
                 THEN [view[v] EXCEPT !.at = "definitions", !.lookup = cache.value]
                 ELSE [view[v] EXCEPT !.at = "list"]
<1>0. /\ view[v] \in View /\ view[v].now \in Nat /\ view[v].now <= clock /\ view[v].at = "cache"
      /\ view[v].left = Jobs
      /\ cache.value \in Lookup /\ cache.at \in Nat /\ cache.at <= clock /\ clock \in Nat
      /\ views \in Nat /\ failed \subseteq 0..clock /\ Ttl \in Nat
  BY Times DEF LInv, LiveTypeOK, ReadCache, Step, ViewOK, View, Cache
<1> PICK to : to = new
  OBVIOUS
<1>1. /\ to \in View /\ to.now = view[v].now
      /\ Hit(view[v].now) => to.at = "definitions" /\ to.lookup = cache.value
      /\ ~Hit(view[v].now) => to.at = "list" /\ to.left = Jobs
  <2>1. CASE Hit(view[v].now)
    <3>1. to = [view[v] EXCEPT !.at = "definitions", !.lookup = cache.value]
      BY <2>1
    <3> QED
      BY <1>0, <2>1, <3>1 DEF View, ViewPlaces
  <2>2. CASE ~Hit(view[v].now)
    <3>1. to = [view[v] EXCEPT !.at = "list"]
      BY <2>2
    <3> QED
      BY <1>0, <2>2, <3>1 DEF View, ViewPlaces
  <2> QED
    BY <2>1, <2>2
<1>2. Step(v, "cache", to) /\ view' = [view EXCEPT ![v] = to]
      /\ UNCHANGED <<clock, jobs, held, failed, definition, cache, changes, views>>
  <2>1. Step(v, "cache", new)
    BY DEF ReadCache
  <2>2. Step(v, "cache", to)
    <3> HIDE DEF new
    <3> QED BY <2>1
  <2>3. UNCHANGED <<clock, jobs, held, failed, definition, cache, changes, views>>
    BY DEF ReadCache
  <2> QED
    BY <2>2, <2>3 DEF Step
<1> HIDE DEF new
<1>3. view'[v] = to
  BY <1>2 DEF LInv, LiveTypeOK
<1>4. ViewOK(v)'
  <2>1. CASE Hit(view[v].now)
    <3>1. /\ cache.at \in 0..clock /\ cache.at > view[v].now - Ttl
          /\ TrueSince(cache.value, cache.at)
      BY <1>0, <2>1 DEF Hit, LInv, CacheOK
    <3>2. TrueSince(cache.value, cache.at)'
      BY <1>2, <3>1 DEF TrueSince
    <3>3. \E t \in 0..clock' : t > to.now - Ttl /\ TrueSince(to.lookup, t)'
      BY <1>1, <1>2, <2>1, <3>1, <3>2
    <3> QED
      BY <1>1, <1>3, <2>1, <3>3 DEF ViewOK
  <2>2. CASE ~Hit(view[v].now)
    BY <1>1, <1>3, <2>2 DEF ViewOK
  <2> QED
    BY <2>1, <2>2
<1> QED
  BY <1>0, <1>1, <1>2, <1>4, CacheStays, ViewStep

LEMMA ListPageStep ==
    ASSUME LInv, NEW v \in Viewer, NEW page \in SUBSET view[v].left, ListPage(v, page)
    PROVE  LInv'
<1> DEFINE left == view[v].left \ page
           seen == [j \in Jobs |-> IF j \in page THEN jobs[j] ELSE view[v].lookup.jobs[j]]
           new == [view[v] EXCEPT !.left = left, !.lookup = [ok |-> TRUE, jobs |-> seen],
                                 !.at = IF left = {} THEN "store" ELSE "list"]
<1>0. /\ view[v] \in View /\ view[v].now \in Nat /\ view[v].now <= clock /\ view[v].at = "list"
      /\ view[v].left \subseteq Jobs /\ view[v].lookup.jobs \in Listing
      /\ jobs \in Listing /\ clock \in Nat /\ views \in Nat /\ failed \subseteq 0..clock
  BY Times DEF LInv, LiveTypeOK, ListPage, Step, View, Lookup
<1>1. seen \in Listing /\ \A j \in Jobs : seen[j] = IF j \in page THEN jobs[j]
                                                    ELSE view[v].lookup.jobs[j]
  BY <1>0 DEF Listing
<1>3. left \subseteq Jobs /\ \A j \in Jobs \ left : j \in page \/ j \in Jobs \ view[v].left
  BY <1>0
<1> HIDE DEF seen, left
<1>4a. /\ new \in View /\ new.now = view[v].now /\ new.lookup = [ok |-> TRUE, jobs |-> seen]
      /\ new.left = left /\ new.at = IF left = {} THEN "store" ELSE "list"
  BY <1>0, <1>1, <1>3 DEF View, ViewPlaces, Lookup
<1> PICK to : to = new
  OBVIOUS
<1>4. /\ to \in View /\ to.now = view[v].now /\ to.lookup = [ok |-> TRUE, jobs |-> seen]
      /\ to.left = left /\ to.at = IF left = {} THEN "store" ELSE "list"
  BY <1>4a
<1>2. /\ Step(v, "list", to) /\ view' = [view EXCEPT ![v] = to]
      /\ UNCHANGED <<clock, jobs, held, failed, definition, cache, changes, views>>
  <2>1. Step(v, "list", new)
    BY DEF ListPage, left, seen
  <2>2. Step(v, "list", to)
    <3> HIDE DEF new
    <3> QED BY <2>1
  <2>3. UNCHANGED <<clock, jobs, held, failed, definition, cache, changes, views>>
    BY DEF ListPage
  <2> QED
    BY <2>2, <2>3 DEF Step
<1> HIDE DEF new
<1>5. view'[v] = to
  BY <1>2 DEF LInv, LiveTypeOK
<1>6. \A j \in Jobs \ left : \E u \in view[v].now..clock : <<u, seen[j]>> \in held[j]
  <2> SUFFICES ASSUME NEW j \in Jobs \ left
               PROVE  \E u \in view[v].now..clock : <<u, seen[j]>> \in held[j]
    OBVIOUS
  <2>1. CASE j \in page
    <3>1. <<clock, seen[j]>> \in held[j] /\ clock \in view[v].now..clock
      BY <1>0, <1>1, <2>1 DEF LInv
    <3> QED
      BY <3>1
  <2>2. CASE j \notin page
    BY <1>0, <1>1, <1>3, <2>2 DEF LInv, ViewOK
  <2> QED
    BY <2>1, <2>2
<1>7. ViewOK(v)'
  <2>1. CASE left = {}
    <3>1. TrueSince(to.lookup, to.now)'
      BY <1>2, <1>4, <1>6, <2>1 DEF TrueSince
    <3> QED
      BY <1>4, <1>5, <2>1, <3>1 DEF ViewOK
  <2>2. CASE left # {}
    <3>1. to.at = "list" /\ to.lookup.jobs = seen
      BY <1>4, <2>2
    <3>2. \A j \in Jobs \ to.left : \E u \in to.now..clock' : <<u, to.lookup.jobs[j]>> \in held'[j]
      BY <1>2, <1>4, <1>6, <3>1
    <3> QED
      BY <1>5, <3>1, <3>2 DEF ViewOK
  <2> QED
    BY <2>1, <2>2
<1> QED
  BY <1>0, <1>2, <1>4, <1>7, CacheStays, ViewStep

LEMMA ListFailsStep ==
    ASSUME LInv, NEW v \in Viewer, ListFails(v)
    PROVE  LInv'
<1> DEFINE new == [view[v] EXCEPT !.at = "store", !.lookup = Unavailable, !.left = {}]
<1>0. /\ view[v] \in View /\ view[v].now \in Nat /\ view[v].now <= clock
      /\ clock \in Nat /\ views \in Nat /\ failed \subseteq 0..clock
  BY Times DEF LInv, LiveTypeOK, View
<1>1a. new \in View /\ new.now = view[v].now /\ new.at = "store" /\ new.lookup = Unavailable
  <2>1. NoJobs \in Listing /\ Unavailable \in Lookup
    BY DEF NoJobs, Listing, Unavailable, Lookup
  <2> QED
    BY <1>0, <2>1 DEF View, ViewPlaces
<1> PICK to : to = new
  OBVIOUS
<1>1. to \in View /\ to.now = view[v].now /\ to.at = "store" /\ to.lookup = Unavailable
  BY <1>1a
<1>2. Step(v, "list", to) /\ view' = [view EXCEPT ![v] = to]
      /\ failed' = failed \cup {clock}
      /\ UNCHANGED <<clock, jobs, held, definition, cache, changes, views>>
  BY DEF ListFails, Step
<1> HIDE DEF new
<1>3. view'[v] = to
  BY <1>2 DEF LInv, LiveTypeOK
<1>4. TrueSince(to.lookup, to.now)'
  BY <1>0, <1>1, <1>2 DEF TrueSince, Unavailable
<1>5. ViewOK(v)'
  BY <1>1, <1>3, <1>4 DEF ViewOK
<1>6. failed \subseteq failed' /\ failed' \subseteq 0..clock
  BY <1>0, <1>2
<1> QED
  BY <1>0, <1>1, <1>2, <1>5, <1>6, CacheStays, ViewStep

LEMMA StoreLookupStep ==
    ASSUME LInv, NEW v \in Viewer, StoreLookup(v)
    PROVE  LInv'
<1> DEFINE new == [view[v] EXCEPT !.at = "definitions"]
<1>0. /\ view[v] \in View /\ view[v].now \in Nat /\ view[v].now <= clock
      /\ view[v].at = "store" /\ view[v].lookup \in Lookup
      /\ clock \in Nat /\ views \in Nat /\ failed \subseteq 0..clock /\ Ttl \in Nat \ {0}
  BY Times DEF LInv, LiveTypeOK, View, StoreLookup, Step
<1>1a. new \in View /\ new.now = view[v].now /\ new.at = "definitions" /\ new.lookup = view[v].lookup
  BY <1>0 DEF View, ViewPlaces
<1> PICK to : to = new
  OBVIOUS
<1>1. to \in View /\ to.now = view[v].now /\ to.at = "definitions" /\ to.lookup = view[v].lookup
  BY <1>1a
<1>2. Step(v, "store", to) /\ view' = [view EXCEPT ![v] = to] /\ cache' = Cached(v)
      /\ UNCHANGED <<clock, jobs, held, failed, definition, changes, views>>
  BY DEF StoreLookup, Step
<1> HIDE DEF new
<1>3. view'[v] = to
  BY <1>2 DEF LInv, LiveTypeOK
<1>4. TrueSince(to.lookup, to.now)'
  <2>1. TrueSince(view[v].lookup, view[v].now)
    BY <1>0 DEF LInv, ViewOK
  <2> QED
    BY <1>1, <1>2, <2>1 DEF TrueSince
<1>5. to.now \in 0..clock' /\ to.now > to.now - Ttl
  BY <1>0, <1>1, <1>2
<1>6. ViewOK(v)'
  BY <1>1, <1>3, <1>4, <1>5 DEF ViewOK
<1>7. /\ cache' = [at |-> to.now, value |-> to.lookup, filled |-> TRUE]
      /\ cache' \in Cache /\ cache'.at <= clock
  BY <1>0, <1>1, <1>2 DEF Cached, Cache
<1>8. CacheOK'
  BY <1>4, <1>7 DEF CacheOK
<1> QED
  BY <1>0, <1>1, <1>2, <1>6, <1>7, <1>8, ViewStep

(***************************************************************************)
(* The rows of a page: those of a job are the ones computed from what the  *)
(* lookup says of that job.                                                *)
(***************************************************************************)
LEMMA JobRowsTyped ==
    ASSUME NEW j \in Jobs, NEW c \in Configs \cup {Absent}
    PROVE  /\ JobRows(j, c) \subseteq PageRow
           /\ \A r \in JobRows(j, c) : r.kind # "definition" /\ r.name = j
<1>1. CASE j \in Registered
  <2>1. Expected[j] \subseteq Parts
    BY <1>1, ExpectedIsDocumented
  <2>2. evaluate_drift(j, c) \in {"OK", "CONFIG_DRIFT", "NOT_CREATED", "NO_EXPECTED"}
    BY DEF evaluate_drift
  <2>3. Diffs(j, c) \subseteq Parts
    BY <2>1 DEF Diffs
  <2> DEFINE drift == evaluate_drift(j, c)
             diffs == IF drift = "CONFIG_DRIFT" THEN Diffs(j, c) ELSE {}
  <2>4. JobRows(j, c) = {Row("spec", j, drift, diffs)}
    BY <1>1 DEF JobRows
  <2>5. diffs \subseteq Parts /\ drift \in Drifts
    BY <2>2, <2>3 DEF Drifts
  <2> HIDE DEF drift, diffs
  <2> QED
    BY <2>4, <2>5 DEF Row, PageRow, RowKinds
<1>2. CASE j \notin Registered
  BY <1>2 DEF JobRows, Row, PageRow, RowKinds, Drifts
<1> QED
  BY <1>1, <1>2

LEMMA PageRows ==
    ASSUME NEW lookup \in Lookup
    PROVE  /\ LiveRows(lookup) \subseteq PageRow
           /\ lookup.ok => \A j \in Jobs :
                 {r \in LiveRows(lookup) : r.kind # "definition" /\ r.name = j}
                     = JobRows(j, lookup.jobs[j])
<1>1. CASE lookup.ok
  <2>1. \A j \in Jobs : lookup.jobs[j] \in Configs \cup {Absent}
    BY DEF Lookup, Listing
  <2>2. \A j \in Jobs : /\ JobRows(j, lookup.jobs[j]) \subseteq PageRow
                        /\ \A r \in JobRows(j, lookup.jobs[j]) :
                              r.kind # "definition" /\ r.name = j
    BY <2>1, JobRowsTyped
  <2>3. LiveRows(lookup) = UNION {JobRows(j, lookup.jobs[j]) : j \in Jobs}
    BY <1>1 DEF LiveRows
  <2>4. \A r : r \in LiveRows(lookup) <=> \E j \in Jobs : r \in JobRows(j, lookup.jobs[j])
    BY <2>3
  <2>5. LiveRows(lookup) \subseteq PageRow
    BY <2>2, <2>4
  <2>6. ASSUME NEW j \in Jobs
        PROVE  {r \in LiveRows(lookup) : r.kind # "definition" /\ r.name = j}
                   = JobRows(j, lookup.jobs[j])
    BY <2>2, <2>4
  <2> QED
    BY <2>5, <2>6
<1>2. CASE ~lookup.ok
  <2>1. LiveRows(lookup) = UnknownRows
    BY <1>2 DEF LiveRows
  <2>2. \A j \in Registered : j \in Jobs
    BY ExpectedIsDocumented
  <2>3. UnknownRows \subseteq PageRow
    BY <2>2 DEF UnknownRows, Row, PageRow, RowKinds, Drifts
  <2> QED
    BY <1>2, <2>1, <2>3
<1> QED
  BY <1>1, <1>2

LEMMA ShowStep ==
    ASSUME LInv, NEW v \in Viewer, NEW known \in SUBSET PageRow,
           \A r \in known : r.kind = "definition", Show(v, known)
    PROVE  LInv'
<1> DEFINE rows == LiveRows(view[v].lookup) \cup known
           new == [view[v] EXCEPT !.at = "shown", !.rows = rows]
<1>0. /\ view[v] \in View /\ view[v].now \in Nat /\ view[v].now <= clock
      /\ view[v].at = "definitions" /\ view[v].lookup \in Lookup
      /\ clock \in Nat /\ views \in Nat /\ failed \subseteq 0..clock
  BY Times DEF LInv, LiveTypeOK, View, Show, Step
<1>1. /\ rows \subseteq PageRow
      /\ view[v].lookup.ok => \A j \in Jobs :
            {r \in rows : r.kind # "definition" /\ r.name = j} = JobRows(j, view[v].lookup.jobs[j])
  BY <1>0, PageRows
<1>2. Step(v, "definitions", new)
      /\ UNCHANGED <<clock, jobs, held, failed, definition, cache, changes, views>>
  BY DEF Show
<1> PICK page : page = rows
  OBVIOUS
<1> HIDE DEF rows
<1> PICK to : to = new
  OBVIOUS
<1>3. /\ to \in View /\ to.now = view[v].now /\ to.at = "shown"
      /\ to.lookup = view[v].lookup /\ to.rows = page
  BY <1>0, <1>1 DEF View, ViewPlaces
<1> HIDE DEF new
<1>4. Step(v, "definitions", to) /\ view' = [view EXCEPT ![v] = to]
  BY <1>2 DEF Step
<1>5. view'[v] = to
  BY <1>4 DEF LInv, LiveTypeOK
<1>6. \E t \in 0..clock' : t > to.now - Ttl /\ TrueSince(to.lookup, t)'
  <2>1. PICK t \in 0..clock : t > view[v].now - Ttl /\ TrueSince(view[v].lookup, t)
    BY <1>0 DEF LInv, ViewOK
  <2>2. TrueSince(to.lookup, t)'
    BY <1>2, <1>3, <2>1 DEF TrueSince
  <2> QED
    BY <1>2, <1>3, <2>1, <2>2
<1>7. to.lookup.ok => \A j \in Jobs : RowsOfJob(v, j)' = JobRows(j, to.lookup.jobs[j])
  BY <1>1, <1>3, <1>5 DEF RowsOfJob
<1>8. ViewOK(v)'
  BY <1>3, <1>5, <1>6, <1>7 DEF ViewOK
<1> QED
  BY <1>0, <1>2, <1>3, <1>4, <1>8, CacheStays, ViewStep

LEMMA LeaveStep ==
    ASSUME LInv, NEW v \in Viewer, Leave(v)
    PROVE  LInv'
<1>1. /\ Step(v, "shown", NoView) /\ view' = [view EXCEPT ![v] = NoView]
      /\ UNCHANGED <<clock, jobs, held, failed, definition, cache, changes, views>>
  BY DEF Leave, Step
<1>2. view'[v] = NoView
  BY <1>1 DEF LInv, LiveTypeOK
<1>3. ViewOK(v)'
  BY <1>2 DEF ViewOK, NoView
<1>4. /\ clock \in Nat /\ views \in Nat /\ failed \subseteq 0..clock /\ NoView.now <= clock
  BY Times DEF LInv, LiveTypeOK, NoView
<1> QED
  BY <1>1, <1>3, <1>4, NoViewTyped, CacheStays, ViewStep

(***************************************************************************)
(* The world around the page.                                              *)
(***************************************************************************)
LEMMA ChangeJobStep ==
    ASSUME LInv, NEW j \in Jobs, NEW c \in Configs \cup {Absent}, ChangeJob(j, c)
    PROVE  LInv'
<1>1. /\ jobs' = [jobs EXCEPT ![j] = c]
      /\ held' = [held EXCEPT ![j] = @ \cup {<<clock, c>>}]
      /\ changes' = changes + 1
      /\ UNCHANGED <<clock, failed, definition, cache, views, view>>
  BY DEF ChangeJob, Changed
<1>2. /\ clock \in Nat /\ jobs \in [Jobs -> Configs \cup {Absent}]
      /\ held \in [Jobs -> SUBSET ((0..clock) \X (Configs \cup {Absent}))]
      /\ <<clock, c>> \in (0..clock) \X (Configs \cup {Absent})
  BY Times DEF LInv, LiveTypeOK, Listing
<1>3. /\ held' \in [Jobs -> SUBSET ((0..clock) \X (Configs \cup {Absent}))]
      /\ \A k \in Jobs : held[k] \subseteq held'[k]
      /\ jobs' \in Listing
  BY <1>1, <1>2 DEF Listing
<1>4. \A k \in Jobs : <<clock', jobs'[k]>> \in held'[k]
  BY <1>1, <1>2 DEF LInv
<1>5. LiveTypeOK' /\ Later
  BY <1>1, <1>2, <1>3 DEF LInv, LiveTypeOK, Later
<1> QED
  BY <1>1, <1>4, <1>5, WorldStep

LEMMA ChangeDefinitionStep ==
    ASSUME LInv, NEW d \in Definitions, NEW s \in Schedule, ChangeDefinition(d, s)
    PROVE  LInv'
<1>1. /\ definition' = [definition EXCEPT ![d] = s] /\ changes' = changes + 1
      /\ UNCHANGED <<clock, jobs, held, failed, cache, views, view>>
  BY DEF ChangeDefinition, Changed
<1>2. LiveTypeOK' /\ Later
  BY <1>1, Times DEF LInv, LiveTypeOK, Later
<1>3. \A k \in Jobs : <<clock', jobs'[k]>> \in held'[k]
  BY <1>1 DEF LInv
<1> QED
  BY <1>1, <1>2, <1>3, WorldStep

LEMMA TimePassesStep ==
    ASSUME LInv, TimePasses
    PROVE  LInv'
<1>1. /\ clock' = clock + 1 /\ clock < MaxTime
      /\ held' = [j \in Jobs |-> held[j] \cup {<<clock + 1, jobs[j]>>}]
      /\ UNCHANGED <<jobs, failed, definition, cache, views, changes, view>>
  BY DEF TimePasses
<1>2. /\ clock \in Nat /\ clock' \in 0..MaxTime /\ clock <= clock' /\ clock' \in Nat
      /\ 0..clock \subseteq 0..clock'
      /\ \A j \in Jobs : jobs[j] \in Configs \cup {Absent}
      /\ \A j \in Jobs : held[j] \subseteq (0..clock) \X (Configs \cup {Absent})
  BY <1>1, Times DEF LInv, LiveTypeOK, Listing
<1>3. \A j \in Jobs : held'[j] = held[j] \cup {<<clock + 1, jobs[j]>>}
  BY <1>1
<1>4. \A j \in Jobs : held'[j] \in SUBSET ((0..clock') \X (Configs \cup {Absent}))
  BY <1>1, <1>2, <1>3
<1>5. held' \in [Jobs -> SUBSET ((0..clock') \X (Configs \cup {Absent}))]
  <2>1. DOMAIN held' = Jobs /\ held' = [j \in Jobs |-> held'[j]]
    BY <1>1
  <2> QED
    BY <1>4, <2>1
<1>6. Later
  BY <1>1, <1>2, <1>3 DEF Later, LInv, LiveTypeOK
<1>7. LiveTypeOK'
  <2>1. cache.at \in Nat /\ \A v \in Viewer : view[v].now \in Nat
    BY DEF LInv, LiveTypeOK, Cache, View
  <2> QED
    BY <1>1, <1>2, <1>5, <2>1 DEF LInv, LiveTypeOK
<1>8. \A j \in Jobs : <<clock', jobs'[j]>> \in held'[j]
  BY <1>1, <1>3
<1> QED
  BY <1>1, <1>6, <1>7, <1>8, WorldStep

LEMMA LiveInitLInv == LiveInit => LInv
<1> SUFFICES ASSUME LiveInit PROVE LInv
  OBVIOUS
<1>1. NoJobs \in Listing /\ Unavailable \in Lookup
  BY DEF NoJobs, Listing, Unavailable, Lookup
<1>2. /\ clock = 0 /\ 0 \in 0..MaxTime /\ jobs = NoJobs
      /\ held = [j \in Jobs |-> {<<0, Absent>>}]
      /\ \A j \in Jobs : held[j] = {<<0, Absent>>} /\ jobs[j] = Absent
  BY Times DEF LiveInit, NoJobs
<1>3. held \in [Jobs -> SUBSET ((0..clock) \X (Configs \cup {Absent}))]
  BY <1>2
<1>4. view \in [Viewer -> View] /\ \A v \in Viewer : view[v] = NoView
  BY NoViewTyped DEF LiveInit
<1>5. cache \in Cache /\ cache.at = 0 /\ ~cache.filled
  BY <1>1 DEF LiveInit, Cache
<1>6. definition \in [Definitions -> Schedule]
  BY DEF LiveInit, Schedule
<1>7. LiveTypeOK
  <2>1. \A v \in Viewer : view[v].now <= clock
    BY <1>2, <1>4 DEF NoView
  <2>2. jobs \in Listing /\ cache.at <= clock
    BY <1>1, <1>2, <1>5
  <2>3. failed = {} /\ views = 0 /\ changes = 0
    BY DEF LiveInit
  <2> QED
    BY <1>2, <1>3, <1>4, <1>5, <1>6, <2>1, <2>2, <2>3 DEF LiveTypeOK
<1>8. \A v \in Viewer : ViewOK(v)
  BY <1>4 DEF ViewOK, NoView
<1> QED
  BY <1>2, <1>5, <1>7, <1>8 DEF LInv, CacheOK

LEMMA LiveNextLInv ==
    ASSUME LInv, [LiveNext]_lvars
    PROVE  LInv'
<1>1. CASE UNCHANGED lvars
  <2>1. UNCHANGED <<clock, jobs, held, failed, definition, cache, views, changes, view>>
    BY <1>1 DEF lvars
  <2>2. LiveTypeOK' /\ Later
    BY <2>1, Times DEF LInv, LiveTypeOK, Later
  <2>3. \A j \in Jobs : <<clock', jobs'[j]>> \in held'[j]
    BY <2>1 DEF LInv
  <2> QED
    BY <2>1, <2>2, <2>3, WorldStep
<1>2. ASSUME NEW v \in Viewer,
             \/ \E refresh \in BOOLEAN : StartView(v, refresh)
             \/ ReadCache(v)
             \/ \E page \in (SUBSET view[v].left) \ {{}} : ListPage(v, page)
             \/ ListFails(v) \/ StoreLookup(v)
             \/ ShowAll(v) \/ ShowWithoutDefinitions(v) \/ Leave(v)
      PROVE  LInv'
  <2>1. CASE ShowAll(v)
    <3>1. \A d \in Definitions :
             Row("definition", d, "N/A", {}) \in PageRow
               /\ Row("definition", d, "N/A", {}).kind = "definition"
      BY DEF Row, PageRow, RowKinds, Drifts
    <3>2. /\ DefinitionRows(definition) \in SUBSET PageRow
          /\ \A r \in DefinitionRows(definition) : r.kind = "definition"
      BY <3>1 DEF DefinitionRows
    <3> QED
      BY <2>1, <3>2, ShowStep DEF ShowAll
  <2>2. CASE ShowWithoutDefinitions(v)
    BY <2>2, ShowStep DEF ShowWithoutDefinitions
  <2> QED
    BY <1>2, <2>1, <2>2, StartViewStep, ReadCacheStep, ListPageStep, ListFailsStep,
       StoreLookupStep, LeaveStep
<1>3. CASE \E j \in Jobs, c \in Configs \cup {Absent} : ChangeJob(j, c)
  BY <1>3, ChangeJobStep
<1>4. CASE \E d \in Definitions, s \in Schedule : ChangeDefinition(d, s)
  BY <1>4, ChangeDefinitionStep
<1>5. CASE TimePasses
  BY <1>5, TimePassesStep
<1> QED
  BY <1>1, <1>2, <1>3, <1>4, <1>5 DEF LiveNext

LEMMA LInvRecent == LInv => PageIsRecent
<1> SUFFICES ASSUME LInv, NEW v \in Viewer, view[v].at = "shown"
             PROVE  IF view[v].lookup.ok
                    THEN \A j \in Jobs : \E t \in Window(v), c \in Configs \cup {Absent} :
                            <<t, c>> \in held[j] /\ RowsOfJob(v, j) = JobRows(j, c)
                    ELSE Window(v) \cap failed # {}
  BY DEF PageIsRecent
<1>1. /\ clock \in Nat /\ view[v].now \in Nat /\ Ttl \in Nat
      /\ \A j \in Jobs : view[v].lookup.jobs[j] \in Configs \cup {Absent}
  BY Times DEF LInv, LiveTypeOK, View, Lookup, Listing
<1>2. PICK t \in 0..clock : t > view[v].now - Ttl /\ TrueSince(view[v].lookup, t)
  BY DEF LInv, ViewOK
<1>3. \A u \in t..clock : u \in Window(v)
  BY <1>1, <1>2 DEF Window
<1>4. CASE view[v].lookup.ok
  <2> SUFFICES ASSUME NEW j \in Jobs
               PROVE  \E u \in Window(v), c \in Configs \cup {Absent} :
                         <<u, c>> \in held[j] /\ RowsOfJob(v, j) = JobRows(j, c)
    BY <1>4
  <2>1. PICK u \in t..clock : <<u, view[v].lookup.jobs[j]>> \in held[j]
    BY <1>2, <1>4 DEF TrueSince
  <2>2. RowsOfJob(v, j) = JobRows(j, view[v].lookup.jobs[j])
    BY <1>4 DEF LInv, ViewOK
  <2> QED
    BY <1>1, <1>3, <2>1, <2>2
<1>5. CASE ~view[v].lookup.ok
  BY <1>2, <1>3, <1>5 DEF TrueSince
<1> QED
  BY <1>4, <1>5

-----------------------------------------------------------------------------
(* The retention review *)

(***************************************************************************)
(* What holds between the listing and the last batch: a listed delivery    *)
(* that nobody used since is still retired, a listed object is of no       *)
(* active delivery that was scanned and not used since, what is approved   *)
(* was listed, and a run overlooks no approved record that is there.       *)
(***************************************************************************)
ListedStayRetired ==
    \A d \in listed.deliveries \cap Alive : d \in touched \/ RetiredDelivery(delivery[d])

ListedStayUnreferenced ==
    \A o \in listed.objects, d \in Alive :
        delivery[d].active /\ o \in References(d) => d \notin listed.scanned \/ d \in touched

ApprovedWereListed ==
    /\ Range(manifest) \subseteq listed.deliveries \cup listed.records
    /\ Range(script.todo) \cup Range(script.found) \subseteq Range(manifest)
    /\ script.at = "idle" => script.todo = <<>> /\ script.found = <<>>

NoneOverlooked ==
    \A t \in Range(manifest) \ script.remade : Exists(t) =>
        /\ script.at = "inspect" => t \in Range(script.todo) \cup Range(script.found)
        /\ script.at = "delete" => t \in Range(script.found)

RetInv ==
    /\ RetentionTypeOK
    /\ ListedStayRetired
    /\ ListedStayUnreferenced
    /\ ApprovedWereListed
    /\ NoneOverlooked

(***************************************************************************)
(* The members of a sequence that grows or is cut.                         *)
(***************************************************************************)
LEMMA RangeOfAppend ==
    ASSUME NEW S, NEW s \in Seq(S), NEW x \in S
    PROVE  Append(s, x) \in Seq(S) /\ Range(Append(s, x)) = Range(s) \cup {x}
<1>1. /\ Append(s, x) \in Seq(S) /\ Len(s) \in Nat
      /\ DOMAIN s = 1..Len(s) /\ DOMAIN Append(s, x) = 1..(Len(s) + 1)
      /\ \A i \in 1..Len(s) : Append(s, x)[i] = s[i]
      /\ Append(s, x)[Len(s) + 1] = x
  OBVIOUS
<1>2. \A i \in 1..(Len(s) + 1) : i \in 1..Len(s) \/ i = Len(s) + 1
  BY <1>1
<1>3. Len(s) + 1 \in 1..(Len(s) + 1) /\ \A i \in 1..Len(s) : i \in 1..(Len(s) + 1)
  BY <1>1
<1>4. \A y : y \in Range(Append(s, x)) <=> \E i \in 1..(Len(s) + 1) : Append(s, x)[i] = y
  BY <1>1 DEF Range
<1>5. \A y : y \in Range(s) <=> \E i \in 1..Len(s) : s[i] = y
  BY <1>1 DEF Range
<1>6. \A y : y \in Range(Append(s, x)) <=> y \in Range(s) \cup {x}
  BY <1>1, <1>2, <1>3, <1>4, <1>5
<1> QED
  BY <1>1, <1>6

LEMMA RangeOfTail ==
    ASSUME NEW S, NEW s \in Seq(S), s # <<>>
    PROVE  /\ Head(s) \in S /\ Tail(s) \in Seq(S)
           /\ Range(s) = {Head(s)} \cup Range(Tail(s))
<1>1. /\ Head(s) \in S /\ Tail(s) \in Seq(S) /\ Len(s) \in Nat /\ Len(s) >= 1
      /\ DOMAIN s = 1..Len(s) /\ DOMAIN Tail(s) = 1..(Len(s) - 1) /\ Head(s) = s[1]
      /\ \A i \in 1..(Len(s) - 1) : Tail(s)[i] = s[i + 1]
  OBVIOUS
<1>2. \A i \in 1..Len(s) : i = 1 \/ (i - 1 \in 1..(Len(s) - 1) /\ (i - 1) + 1 = i)
  BY <1>1
<1>3. 1 \in 1..Len(s) /\ \A i \in 1..(Len(s) - 1) : i + 1 \in 1..Len(s)
  BY <1>1
<1>4. \A y : y \in Range(s) <=> \E i \in 1..Len(s) : s[i] = y
  BY <1>1 DEF Range
<1>5. \A y : y \in Range(Tail(s)) <=> \E i \in 1..(Len(s) - 1) : Tail(s)[i] = y
  BY <1>1 DEF Range
<1>6. ASSUME NEW y \in Range(s) PROVE y \in {Head(s)} \cup Range(Tail(s))
  <2>1. PICK i \in 1..Len(s) : s[i] = y
    BY <1>4
  <2>2. CASE i = 1
    BY <1>1, <2>1, <2>2
  <2>3. CASE i - 1 \in 1..(Len(s) - 1) /\ (i - 1) + 1 = i
    <3>1. Tail(s)[i - 1] = y
      BY <1>1, <2>1, <2>3
    <3> QED
      BY <1>5, <2>3, <3>1
  <2> QED
    BY <1>2, <2>2, <2>3
<1>7. ASSUME NEW y \in {Head(s)} \cup Range(Tail(s)) PROVE y \in Range(s)
  <2>1. CASE y = Head(s)
    BY <1>1, <1>3, <1>4, <2>1
  <2>2. CASE y \in Range(Tail(s))
    <3>1. PICK i \in 1..(Len(s) - 1) : Tail(s)[i] = y
      BY <1>5, <2>2
    <3>2. i + 1 \in 1..Len(s) /\ s[i + 1] = y
      BY <1>1, <1>3, <3>1
    <3> QED
      BY <1>4, <3>2
  <2> QED
    BY <2>1, <2>2
<1> QED
  BY <1>1, <1>6, <1>7

(***************************************************************************)
(* The first n members of a sequence and the others.                       *)
(***************************************************************************)
LEMMA RangeOfCut ==
    ASSUME NEW S, NEW s \in Seq(S), NEW n \in Nat, n <= Len(s)
    PROVE  /\ SubSeq(s, n + 1, Len(s)) \in Seq(S)
           /\ Range(s) = Range(SubSeq(s, 1, n)) \cup Range(SubSeq(s, n + 1, Len(s)))
<1> DEFINE a == SubSeq(s, 1, n)
           b == SubSeq(s, n + 1, Len(s))
<1>1. /\ Len(s) \in Nat /\ DOMAIN s = 1..Len(s) /\ \A i \in 1..Len(s) : s[i] \in S
      /\ DOMAIN a = 1..n /\ \A i \in 1..n : a[i] = s[i]
      /\ DOMAIN b = 1..(Len(s) - n) /\ \A i \in 1..(Len(s) - n) : b[i] = s[n + i]
  OBVIOUS
<1>2. b \in Seq(S)
  OBVIOUS
<1> HIDE DEF a, b
<1>3. \A y : /\ y \in Range(s) <=> \E i \in 1..Len(s) : s[i] = y
             /\ y \in Range(a) <=> \E i \in 1..n : a[i] = y
             /\ y \in Range(b) <=> \E i \in 1..(Len(s) - n) : b[i] = y
  BY <1>1 DEF Range
<1>4. ASSUME NEW y \in Range(s) PROVE y \in Range(a) \cup Range(b)
  <2>1. PICK i \in 1..Len(s) : s[i] = y
    BY <1>3
  <2>2. CASE i <= n
    <3>1. i \in 1..n /\ a[i] = y
      BY <1>1, <2>1, <2>2
    <3> QED
      BY <1>3, <3>1
  <2>3. CASE i > n
    <3>1. i - n \in 1..(Len(s) - n) /\ n + (i - n) = i
      BY <1>1, <2>3
    <3>2. b[i - n] = y
      BY <1>1, <2>1, <3>1
    <3> QED
      BY <1>3, <3>1, <3>2
  <2> QED
    BY <1>1, <2>2, <2>3
<1>5. ASSUME NEW y \in Range(a) \cup Range(b) PROVE y \in Range(s)
  <2>1. CASE y \in Range(a)
    <3>1. PICK i \in 1..n : a[i] = y
      BY <1>3, <2>1
    <3>2. i \in 1..Len(s) /\ s[i] = y
      BY <1>1, <3>1
    <3> QED
      BY <1>3, <3>2
  <2>2. CASE y \in Range(b)
    <3>1. PICK i \in 1..(Len(s) - n) : b[i] = y
      BY <1>3, <2>2
    <3>2. n + i \in 1..Len(s) /\ s[n + i] = y
      BY <1>1, <3>1
    <3> QED
      BY <1>3, <3>2
  <2> QED
    BY <2>1, <2>2
<1> QED
  BY <1>2, <1>4, <1>5 DEF a, b

LEMMA SmallerOfTwo ==
    ASSUME NEW m \in Nat, NEW n \in Nat
    PROVE  Min({m, n}) = IF m <= n THEN m ELSE n
<1> DEFINE least == IF m <= n THEN m ELSE n
<1>1. least \in {m, n} /\ \A y \in {m, n} : least <= y
  OBVIOUS
<1>2. \A x \in {m, n} : (\A y \in {m, n} : x <= y) => x = least
  OBVIOUS
<1> QED
  BY <1>1, <1>2 DEF Min

(***************************************************************************)
(* A step of the deletion script alone.                                    *)
(***************************************************************************)
LEMMA ScriptStep ==
    ASSUME RetInv, UNCHANGED <<today, delivery, record, object, listed, touched, manifest, events>>,
           runs' \in Nat, script' \in Script, ApprovedWereListed', NoneOverlooked'
    PROVE  RetInv'
<1>1. RetentionTypeOK'
  BY DEF RetInv, RetentionTypeOK
<1>2. Alive' = Alive
  BY DEF Alive
<1>3. ListedStayRetired' /\ ListedStayUnreferenced'
  BY <1>2 DEF RetInv, ListedStayRetired, ListedStayUnreferenced, RetiredDelivery, References
<1> QED
  BY <1>1, <1>3 DEF RetInv

LEMMA NoScriptTyped ==
    NoScript \in Script /\ NoScript.todo = <<>> /\ NoScript.found = <<>> /\ NoScript.remade = {}
BY DEF NoScript, Script, Targets

LEMMA RangeOfNothing == Range(<<>>) = {}
BY DEF Range

(***************************************************************************)
(* The steps after which no script runs.                                   *)
(***************************************************************************)
LEMMA ScriptEnds ==
    ASSUME RetInv, UNCHANGED <<today, delivery, record, object, listed, touched, manifest, events>>,
           runs' \in Nat, script' = NoScript
    PROVE  RetInv'
<1>1. ApprovedWereListed'
  BY NoScriptTyped, RangeOfNothing DEF RetInv, ApprovedWereListed
<1>2. NoneOverlooked'
  BY DEF NoneOverlooked, NoScript
<1> QED
  BY <1>1, <1>2, NoScriptTyped, ScriptStep

LEMMA ListCandidatesStep ==
    ASSUME RetInv, NEW limit, ListCandidates(limit)
    PROVE  RetInv'
<1>1. PICK scanned \in AtMost(limit, Alive), seen \in AtMost(limit, record) :
         \E ds \in AtMost(CandidateLimit, DeliveryCandidates(scanned)),
            rs \in AtMost(CandidateLimit, {r \in seen : RetiredRecord(r)}),
            os \in AtMost(CandidateLimit, ObjectCandidates(scanned)) :
                listed' = [deliveries |-> ds, records |-> rs, objects |-> os, scanned |-> scanned]
  BY DEF ListCandidates
<1>2. PICK ds \in AtMost(CandidateLimit, DeliveryCandidates(scanned)),
           rs \in AtMost(CandidateLimit, {r \in seen : RetiredRecord(r)}),
           os \in AtMost(CandidateLimit, ObjectCandidates(scanned)) :
                listed' = [deliveries |-> ds, records |-> rs, objects |-> os, scanned |-> scanned]
  BY <1>1
<1>3. /\ scanned \subseteq Alive /\ seen \subseteq record
      /\ ds \subseteq DeliveryCandidates(scanned) /\ rs \subseteq seen
      /\ os \subseteq ObjectCandidates(scanned)
  BY DEF AtMost
<1>4. /\ script.at = "idle" /\ touched' = {} /\ manifest' = <<>> /\ runs' = runs + 1
      /\ UNCHANGED <<today, delivery, record, object, events, script>>
  BY DEF ListCandidates, Ran
<1>5. /\ scanned \subseteq Ids /\ ds \subseteq scanned /\ rs \subseteq Records
      /\ os \subseteq Reviewed
  BY <1>3 DEF Alive, DeliveryCandidates, ObjectCandidates, RetInv, RetentionTypeOK
<1>6. /\ listed'.deliveries = ds /\ listed'.records = rs /\ listed'.objects = os
      /\ listed'.scanned = scanned
  BY <1>2
<1>7. RetentionTypeOK'
  <2>1. listed' \in Review
    BY <1>2, <1>5 DEF Review
  <2>2. manifest' \in Targets
    BY <1>4 DEF Targets
  <2> QED
    BY <1>4, <1>5, <1>6, <2>1, <2>2 DEF RetInv, RetentionTypeOK
<1>8. ListedStayRetired'
  BY <1>3, <1>4, <1>6 DEF ListedStayRetired, DeliveryCandidates, RetiredDelivery
<1>9. ListedStayUnreferenced'
  <2> SUFFICES ASSUME NEW o \in os, NEW d \in Ids, d \in scanned, delivery[d].active,
                      o \in References(d)
               PROVE  FALSE
    BY <1>4, <1>6 DEF ListedStayUnreferenced, References, Alive
  <2>1. o \in ActiveReferenced(scanned)
    BY DEF ActiveReferenced
  <2> QED
    BY <1>3, <2>1 DEF ObjectCandidates
<1>10. ApprovedWereListed'
  BY <1>4, RangeOfNothing DEF RetInv, ApprovedWereListed
<1>11. NoneOverlooked'
  BY <1>4, RangeOfNothing DEF NoneOverlooked
<1> QED
  BY <1>7, <1>8, <1>9, <1>10, <1>11 DEF RetInv

LEMMA ApproveStep ==
    ASSUME RetInv, NEW S \in SUBSET (listed.deliveries \cup listed.records),
           NEW targets \in SetToSeqs(S), Approve(targets)
    PROVE  RetInv'
<1>1. /\ script.at = "idle" /\ manifest' = targets
      /\ UNCHANGED <<today, delivery, record, object, listed, touched, events, runs, script>>
  BY DEF Approve
<1>2. S \subseteq Ids \cup Records
  BY DEF RetInv, RetentionTypeOK, Review
<1>3. Cardinality(S) \in Nat
  <2>1. IsFiniteSet(Ids \cup Records)
    BY FinitelyManyDocuments, FS_Union
  <2>2. IsFiniteSet(S)
    BY <1>2, <2>1, FS_Subset
  <2> QED
    BY <2>2, FS_CardinalityType
<1>4. targets \in [1..Cardinality(S) -> S]
  BY DEF SetToSeqs
<1>5. targets \in Targets /\ Range(targets) \subseteq S
  BY <1>2, <1>3, <1>4 DEF Targets, Range
<1>6. RetentionTypeOK'
  BY <1>1, <1>5 DEF RetInv, RetentionTypeOK
<1>7. Alive' = Alive
  BY <1>1 DEF Alive
<1>8. ListedStayRetired' /\ ListedStayUnreferenced'
  BY <1>1, <1>7 DEF RetInv, ListedStayRetired, ListedStayUnreferenced, RetiredDelivery, References
<1>9. ApprovedWereListed'
  BY <1>1, <1>5, RangeOfNothing DEF RetInv, ApprovedWereListed
<1>10. NoneOverlooked'
  BY <1>1 DEF NoneOverlooked
<1> QED
  BY <1>6, <1>8, <1>9, <1>10 DEF RetInv

LEMMA RemoveObjectStep ==
    ASSUME RetInv, NEW o \in Objects, RemoveObject(o)
    PROVE  RetInv'
<1>1. /\ object' = object \ {o}
      /\ UNCHANGED <<today, delivery, record, listed, touched, manifest, events, runs, script>>
  BY DEF RemoveObject
<1>2. Alive' = Alive
  BY <1>1 DEF Alive
<1> QED
  BY <1>1, <1>2 DEF RetInv, RetentionTypeOK, ListedStayRetired, ListedStayUnreferenced,
                    ApprovedWereListed, NoneOverlooked, RetiredDelivery, References, Exists

LEMMA StartDeletionStep ==
    ASSUME RetInv, NEW allow_deliveries, NEW allow_missing \in BOOLEAN,
           StartDeletion(allow_deliveries, allow_missing)
    PROVE  RetInv'
<1>1. /\ script' = [NoScript EXCEPT !.at = "inspect", !.todo = manifest,
                                    !.allow_missing = allow_missing]
      /\ runs' = runs + 1
      /\ UNCHANGED <<today, delivery, record, object, listed, touched, manifest, events>>
  BY DEF StartDeletion, Ran
<1>2. /\ script' \in Script /\ script'.at = "inspect" /\ script'.todo = manifest
      /\ script'.found = <<>>
  BY <1>1, NoScriptTyped DEF RetInv, RetentionTypeOK, Script
<1>3. ApprovedWereListed'
  BY <1>1, <1>2, RangeOfNothing DEF RetInv, ApprovedWereListed
<1>4. NoneOverlooked'
  BY <1>1, <1>2 DEF NoneOverlooked
<1> QED
  BY <1>1, <1>2, <1>3, <1>4, ScriptStep DEF RetInv, RetentionTypeOK

LEMMA InspectTargetStep ==
    ASSUME RetInv, InspectTarget
    PROVE  RetInv'
<1> DEFINE first == Head(script.todo)
           seen == IF Exists(first) THEN Append(script.found, first) ELSE script.found
<1>1. /\ script.at = "inspect" /\ script.todo # <<>>
      /\ script' = [script EXCEPT !.todo = Tail(@), !.found = seen]
      /\ UNCHANGED <<today, delivery, record, object, listed, touched, manifest, events, runs>>
  BY DEF InspectTarget
<1>2. script \in Script /\ script.todo \in Targets /\ script.found \in Targets
  BY DEF RetInv, RetentionTypeOK, Script
<1>3. /\ first \in Ids \cup Records /\ Tail(script.todo) \in Targets
      /\ Range(script.todo) = {first} \cup Range(Tail(script.todo))
  BY <1>1, <1>2, RangeOfTail DEF Targets
<1>4. /\ seen \in Targets
      /\ Range(seen) = Range(script.found) \cup (IF Exists(first) THEN {first} ELSE {})
  BY <1>2, <1>3, RangeOfAppend DEF Targets
<1> HIDE DEF seen, first
<1>5. /\ script' \in Script /\ script'.at = "inspect" /\ script'.todo = Tail(script.todo)
      /\ script'.found = seen /\ script'.remade = script.remade
  BY <1>1, <1>2, <1>3, <1>4 DEF Script
<1>6. ApprovedWereListed'
  BY <1>1, <1>3, <1>4, <1>5 DEF RetInv, ApprovedWereListed
<1>7. \A t : Exists(t)' <=> Exists(t)
  BY <1>1 DEF Exists, Alive
<1>8. NoneOverlooked'
  BY <1>1, <1>3, <1>4, <1>5, <1>7 DEF RetInv, NoneOverlooked
<1> QED
  BY <1>1, <1>5, <1>6, <1>8, ScriptStep DEF RetInv, RetentionTypeOK

LEMMA EndInspectionStep ==
    ASSUME RetInv, EndInspection
    PROVE  RetInv'
<1>1. /\ script.at = "inspect" /\ script.todo = <<>>
      /\ script' = NoScript \/ script' = [script EXCEPT !.at = "delete"]
      /\ UNCHANGED <<today, delivery, record, object, listed, touched, manifest, events, runs>>
  BY DEF EndInspection
<1>2. runs' \in Nat
  BY <1>1 DEF RetInv, RetentionTypeOK
<1>3. CASE script' = NoScript
  BY <1>1, <1>2, <1>3, ScriptEnds
<1>4. CASE script' = [script EXCEPT !.at = "delete"]
  <2>1. /\ script' \in Script /\ script'.at = "delete" /\ script'.todo = script.todo
        /\ script'.found = script.found /\ script'.remade = script.remade
    BY <1>4 DEF RetInv, RetentionTypeOK, Script
  <2>2. ApprovedWereListed'
    BY <1>1, <2>1 DEF RetInv, ApprovedWereListed
  <2>3. \A t : Exists(t)' <=> Exists(t)
    BY <1>1 DEF Exists, Alive
  <2>4. NoneOverlooked'
    BY <1>1, <2>1, <2>3, RangeOfNothing DEF RetInv, NoneOverlooked
  <2> QED
    BY <1>1, <1>2, <2>1, <2>2, <2>4, ScriptStep
<1> QED
  BY <1>1, <1>3, <1>4

(***************************************************************************)
(* A batch takes the first of the records found, and no other.             *)
(***************************************************************************)
LEMMA CommitBatchEffect ==
    ASSUME RetInv, CommitBatch
    PROVE  \E batch \in SUBSET Range(script.found) :
              /\ Range(script.found) = batch \cup Range(script'.found)
              /\ delivery' = [d \in Ids |-> IF d \in batch THEN Gone ELSE delivery[d]]
              /\ record' = record \ batch
              /\ script' \in Script /\ script'.at = "delete" /\ script'.todo = script.todo
              /\ script'.remade = script.remade
<1> DEFINE found == script.found
           n == Min({BatchSize, Len(found)})
           rest == IF Len(found) <= BatchSize THEN <<>>
                   ELSE SubSeq(found, BatchSize + 1, Len(found))
           batch == Range(Batch(found))
<1>1. script \in Script /\ found \in Seq(Ids \cup Records) /\ Len(found) \in Nat
  BY DEF RetInv, RetentionTypeOK, Script, Targets
<1>2. BatchSize \in Nat /\ BatchSize \in Nat \ {0}
  BY OptionsArePositive
<1>3. n = IF BatchSize <= Len(found) THEN BatchSize ELSE Len(found)
  BY <1>1, <1>2, SmallerOfTwo
<1>4. n \in Nat /\ n <= Len(found)
  BY <1>1, <1>2, <1>3
<1>5. rest = SubSeq(found, n + 1, Len(found))
  <2>1. CASE Len(found) <= BatchSize
    <3>1. n = Len(found)
      BY <1>1, <1>2, <1>3, <2>1
    <3>2. SubSeq(found, Len(found) + 1, Len(found)) = <<>>
      BY <1>1
    <3> QED
      BY <2>1, <3>1, <3>2
  <2>2. CASE ~(Len(found) <= BatchSize)
    <3>1. n = BatchSize
      BY <1>1, <1>2, <1>3, <2>2
    <3> QED
      BY <2>2, <3>1
  <2> QED
    BY <2>1, <2>2
<1>6. /\ rest \in Targets
      /\ Range(found) = batch \cup Range(rest)
  <2> HIDE DEF n, rest, found
  <2>1. /\ SubSeq(found, n + 1, Len(found)) \in Seq(Ids \cup Records)
        /\ Range(found) = Range(SubSeq(found, 1, n)) \cup Range(SubSeq(found, n + 1, Len(found)))
    BY <1>1, <1>4, RangeOfCut
  <2> QED
    BY <1>5, <2>1 DEF Targets, Batch, n
<1>7. /\ script.at = "delete"
      /\ script' = [script EXCEPT !.found = rest]
      /\ delivery' = [d \in Ids |-> IF d \in batch THEN Gone ELSE delivery[d]]
      /\ record' = record \ batch
  BY DEF CommitBatch
<1> HIDE DEF n, rest, found, batch
<1>8. /\ script' \in Script /\ script'.at = "delete" /\ script'.todo = script.todo
      /\ script'.found = rest /\ script'.remade = script.remade
  BY <1>1, <1>6, <1>7 DEF Script
<1>9. batch \in SUBSET Range(script.found) /\ Range(script.found) = batch \cup Range(script'.found)
  BY <1>6, <1>8 DEF found
<1> QED
  BY <1>7, <1>8, <1>9

LEMMA CommitBatchStep ==
    ASSUME RetInv, CommitBatch
    PROVE  RetInv'
<1>1. PICK batch \in SUBSET Range(script.found) :
         /\ Range(script.found) = batch \cup Range(script'.found)
         /\ delivery' = [d \in Ids |-> IF d \in batch THEN Gone ELSE delivery[d]]
         /\ record' = record \ batch
         /\ script' \in Script /\ script'.at = "delete" /\ script'.todo = script.todo
         /\ script'.remade = script.remade
  BY CommitBatchEffect
<1>2. script.at = "delete" /\ UNCHANGED <<today, object, listed, touched, manifest, events, runs>>
  BY DEF CommitBatch
<1>3. \A d \in Ids : delivery'[d] = IF d \in batch THEN Gone ELSE delivery[d]
  BY <1>1
<1>4. Alive' = Alive \ batch
  BY <1>3 DEF Alive
<1>5. RetentionTypeOK'
  BY <1>1, <1>2 DEF RetInv, RetentionTypeOK
<1>6. ListedStayRetired' /\ ListedStayUnreferenced'
  <2>1. \A d \in Alive' : d \in Alive /\ delivery'[d] = delivery[d]
    BY <1>3, <1>4 DEF Alive
  <2> QED
    BY <1>2, <2>1
       DEF RetInv, ListedStayRetired, ListedStayUnreferenced, RetiredDelivery, References
<1>7. ApprovedWereListed'
  BY <1>1, <1>2 DEF RetInv, ApprovedWereListed
<1>8. \A t : Exists(t)' => Exists(t) /\ t \notin batch
  BY <1>1, <1>4 DEF Exists
<1>9. NoneOverlooked'
  BY <1>1, <1>2, <1>8 DEF RetInv, NoneOverlooked
<1> QED
  BY <1>5, <1>6, <1>7, <1>9 DEF RetInv

(***************************************************************************)
(* A delivery comes into being, gains a version or is enabled, and so is   *)
(* touched, or it is disabled.                                             *)
(***************************************************************************)
LEMMA UseStep ==
    ASSUME RetInv, NEW d \in Ids, NEW new \in Delivery,
           delivery' = [delivery EXCEPT ![d] = new],
           UNCHANGED <<today, record, listed, manifest, runs>>,
           object' \subseteq Objects, events' \in Nat,
           touched \subseteq touched', touched' \subseteq Ids,
           \/ d \in touched'
           \/ /\ delivery[d] \in Delivery /\ ~new.active
              /\ new.expires = delivery[d].expires /\ new.versions = delivery[d].versions,
           script' \in Script, script.remade \subseteq script'.remade,
           delivery[d] = Gone => d \in script'.remade,
           script'.at = script.at /\ script'.todo = script.todo /\ script'.found = script.found
    PROVE  RetInv'
<1>1. /\ delivery' \in [Ids -> Delivery \cup {Gone}] /\ delivery'[d] = new
      /\ \A e \in Ids \ {d} : delivery'[e] = delivery[e]
  BY DEF RetInv, RetentionTypeOK
<1>2. RetentionTypeOK'
  BY <1>1 DEF RetInv, RetentionTypeOK
<1>3. new # Gone /\ Alive' = Alive \cup {d}
  BY <1>1, GoneIsNoDelivery DEF Alive
<1>4. ASSUME NEW e \in Alive'
      PROVE  \/ e \in Alive /\ delivery'[e] = delivery[e]
             \/ e = d
  BY <1>1, <1>3, <1>4
<1>5. d \notin touched' => d \in Alive /\ ~new.active
  BY GoneIsNoDelivery DEF Alive
<1>6. ListedStayRetired'
  <2> SUFFICES ASSUME NEW e \in listed.deliveries, e \in Alive', e \notin touched'
               PROVE  RetiredDelivery(delivery'[e])
    BY DEF ListedStayRetired, RetiredDelivery
  <2>1. CASE e # d
    BY <1>4, <2>1 DEF RetInv, ListedStayRetired
  <2>2. CASE e = d
    <3>1. RetiredDelivery(delivery[d])
      BY <1>5, <2>2 DEF RetInv, ListedStayRetired
    <3> QED
      BY <1>1, <2>2, <3>1 DEF RetiredDelivery
  <2> QED
    BY <2>1, <2>2
<1>7. ListedStayUnreferenced'
  <2> SUFFICES ASSUME NEW o \in listed.objects, NEW e \in Alive', delivery'[e].active,
                      o \in Range(delivery'[e].versions), e \notin touched'
               PROVE  e \notin listed.scanned
    BY DEF ListedStayUnreferenced, References
  <2>1. e # d
    BY <1>1, <1>5
  <2>2. e \in Alive /\ delivery'[e] = delivery[e]
    BY <1>4, <2>1
  <2> QED
    BY <2>2 DEF RetInv, ListedStayUnreferenced, References
<1>8. ApprovedWereListed'
  BY DEF RetInv, ApprovedWereListed
<1>9. NoneOverlooked'
  <2> SUFFICES ASSUME NEW t \in Range(manifest), t \notin script'.remade, Exists(t)'
               PROVE  /\ script.at = "inspect" => t \in Range(script.todo) \cup Range(script.found)
                      /\ script.at = "delete" => t \in Range(script.found)
    BY DEF NoneOverlooked
  <2>1. Exists(t)
    <3>1. CASE t = d
      BY <3>1 DEF Exists, Alive
    <3>2. CASE t # d
      BY <1>3, <3>2 DEF Exists
    <3> QED
      BY <3>1, <3>2
  <2> QED
    BY <2>1 DEF RetInv, NoneOverlooked
<1> QED
  BY <1>2, <1>6, <1>7, <1>8, <1>9 DEF RetInv

(***************************************************************************)
(* The steps of the deliveries in use, each as such a change.              *)
(***************************************************************************)
LEMMA UsedDelivery ==
    ASSUME NEW d \in Delivery, NEW o \in Objects
    PROVE  [d EXCEPT !.versions = Append(@, o)] \in Delivery
<1> DEFINE vs == Append(d.versions, o)
<1>1. d.versions \in Seq(Objects)
  BY DEF Delivery
<1>2. vs \in Seq(Objects)
  BY <1>1
<1> HIDE DEF vs
<1>3. [d EXCEPT !.versions = vs] \in Delivery
  BY <1>2 DEF Delivery
<1> QED
  BY <1>3 DEF vs

LEMMA CreateDeliveryStep ==
    ASSUME RetInv, NEW d \in Ids, NEW o \in Objects, CreateDelivery(d, o)
    PROVE  RetInv'
<1>1. today \in Nat /\ script \in Script
  BY PeriodsAreDays DEF RetInv, RetentionTypeOK
<1>2. <<o>> \in Seq(Objects)
  OBVIOUS
<1>3. PICK new : new = [active |-> TRUE, expires |-> today + 1, month |-> today + 1,
                        versions |-> <<o>>]
  OBVIOUS
<1>4. new \in Delivery
  BY <1>1, <1>2, <1>3 DEF Delivery
<1>5. /\ delivery' = [delivery EXCEPT ![d] = new]
      /\ UNCHANGED <<today, record, listed, manifest, runs>>
      /\ object' \subseteq Objects /\ events' \in Nat
      /\ touched' = touched \cup {d} /\ touched' \subseteq Ids
  BY <1>3 DEF CreateDelivery, Touch, Event, RetInv, RetentionTypeOK
<1>6. /\ script' \in Script /\ script'.remade = script.remade \cup {d}
      /\ script'.at = script.at /\ script'.todo = script.todo /\ script'.found = script.found
  BY <1>1 DEF CreateDelivery, Script
<1> QED
  BY <1>4, <1>5, <1>6, UseStep

LEMMA AddVersionStep ==
    ASSUME RetInv, NEW d \in Ids, NEW o \in Objects, AddVersion(d, o)
    PROVE  RetInv'
<1>1. delivery[d] \in Delivery /\ delivery[d] # Gone
  BY DEF AddVersion, Alive, RetInv, RetentionTypeOK
<1>2. PICK new : new = [delivery[d] EXCEPT !.versions = Append(@, o)]
  OBVIOUS
<1>3. new \in Delivery
  BY <1>1, <1>2, UsedDelivery
<1>4. /\ delivery' = [delivery EXCEPT ![d] = new]
      /\ UNCHANGED <<today, record, listed, manifest, runs, script>>
      /\ object' \subseteq Objects /\ events' \in Nat
      /\ touched' = touched \cup {d} /\ touched' \subseteq Ids
      /\ script \in Script
  BY <1>2 DEF AddVersion, Touch, Event, RetInv, RetentionTypeOK
<1> QED
  BY <1>1, <1>3, <1>4, UseStep

LEMMA EnableStep ==
    ASSUME RetInv, NEW d \in Ids, Enable(d)
    PROVE  RetInv'
<1>1. delivery[d] \in Delivery /\ delivery[d] # Gone
  BY DEF Enable, Alive, RetInv, RetentionTypeOK
<1>2. PICK new : new = [delivery[d] EXCEPT !.active = TRUE]
  OBVIOUS
<1>3. new \in Delivery
  BY <1>1, <1>2 DEF Delivery
<1>4. /\ delivery' = [delivery EXCEPT ![d] = new]
      /\ UNCHANGED <<today, record, listed, manifest, runs, script>>
      /\ object' \subseteq Objects /\ events' \in Nat
      /\ touched' = touched \cup {d} /\ touched' \subseteq Ids
      /\ script \in Script
  BY <1>2 DEF Enable, Touch, Event, RetInv, RetentionTypeOK
<1> QED
  BY <1>1, <1>3, <1>4, UseStep

LEMMA DisableStep ==
    ASSUME RetInv, NEW d \in Ids, Disable(d)
    PROVE  RetInv'
<1>1. delivery[d] \in Delivery /\ delivery[d] # Gone
  BY DEF Disable, Alive, RetInv, RetentionTypeOK
<1>2. PICK new : new = [delivery[d] EXCEPT !.active = FALSE]
  OBVIOUS
<1>3. /\ new \in Delivery /\ ~new.active
      /\ new.expires = delivery[d].expires /\ new.versions = delivery[d].versions
  BY <1>1, <1>2 DEF Delivery
<1>4. /\ delivery' = [delivery EXCEPT ![d] = new]
      /\ UNCHANGED <<today, record, object, listed, touched, manifest, events, runs, script>>
      /\ object \subseteq Objects /\ events \in Nat /\ touched \subseteq Ids
      /\ script \in Script
  BY <1>2 DEF Disable, RetInv, RetentionTypeOK
<1> QED
  BY <1>1, <1>3, <1>4, UseStep

LEMMA DayPassesStep ==
    ASSUME RetInv, DayPasses
    PROVE  RetInv'
<1>1. /\ today \in Nat /\ today' = today + 1 /\ today' \in 0..MaxDay
      /\ UNCHANGED <<delivery, record, object, listed, touched, manifest, events, runs, script>>
  BY PeriodsAreDays DEF DayPasses, RetInv, RetentionTypeOK
<1>2. RetentionTypeOK'
  BY <1>1 DEF RetInv, RetentionTypeOK
<1>3. ListedStayRetired'
  <2> SUFFICES ASSUME NEW d \in listed.deliveries \cap Alive, d \notin touched
               PROVE  RetiredDelivery(delivery[d])'
    BY <1>1 DEF ListedStayRetired, Alive
  <2>1. RetiredDelivery(delivery[d]) /\ delivery[d] \in Delivery
    BY DEF RetInv, RetentionTypeOK, ListedStayRetired, Alive
  <2>2. delivery[d].expires + DeliveryDays \in Nat
    BY <2>1, PeriodsAreDays DEF Delivery
  <2> QED
    BY <1>1, <2>1, <2>2 DEF RetiredDelivery
<1>4. ListedStayUnreferenced' /\ ApprovedWereListed' /\ NoneOverlooked'
  BY <1>1 DEF RetInv, ListedStayUnreferenced, ApprovedWereListed, NoneOverlooked,
              Alive, References, Exists
<1> QED
  BY <1>2, <1>3, <1>4 DEF RetInv

LEMMA RunEndsStep ==
    ASSUME RetInv, ReportDeletion \/ RunDies
    PROVE  RetInv'
<1>1. script' = NoScript
      /\ UNCHANGED <<today, delivery, record, object, listed, touched, manifest, events, runs>>
  BY DEF ReportDeletion, RunDies
<1>2. runs' \in Nat
  BY <1>1 DEF RetInv, RetentionTypeOK
<1> QED
  BY <1>1, <1>2, ScriptEnds

LEMMA RetentionInitRetInv == RetentionInit => RetInv
<1> SUFFICES ASSUME RetentionInit PROVE RetInv
  OBVIOUS
<1>1. <<>> \in Targets /\ NoScript \in Script /\ NoListing \in Review
  BY DEF Targets, NoScript, Script, NoListing, Review
<1>2. Alive = {}
  BY DEF RetentionInit, Alive
<1>3. RetentionTypeOK
  BY <1>1, PeriodsAreDays DEF RetentionInit, RetentionTypeOK, NoListing
<1>4. ListedStayRetired /\ ListedStayUnreferenced
  BY <1>2 DEF ListedStayRetired, ListedStayUnreferenced
<1>5. Range(manifest) = {} /\ Range(script.todo) = {} /\ Range(script.found) = {}
  BY RangeOfNothing DEF RetentionInit, NoScript
<1> QED
  BY <1>3, <1>4, <1>5 DEF RetInv, ApprovedWereListed, NoneOverlooked, RetentionInit, NoScript

LEMMA RetentionNextRetInv == RetInv /\ [RetentionNext]_retvars => RetInv'
<1> SUFFICES ASSUME RetInv, [RetentionNext]_retvars PROVE RetInv'
  OBVIOUS
<1>1. CASE UNCHANGED retvars
  BY <1>1 DEF retvars, RetInv, RetentionTypeOK, ListedStayRetired, ListedStayUnreferenced,
              ApprovedWereListed, NoneOverlooked, RetiredDelivery, Alive, References, Exists
<1>2. ASSUME NEW limit \in ScanLimits, ListCandidates(limit) PROVE RetInv'
  BY <1>2, ListCandidatesStep
<1>3. ASSUME NEW S \in SUBSET (listed.deliveries \cup listed.records),
             NEW targets \in SetToSeqs(S), Approve(targets)
      PROVE  RetInv'
  BY <1>3, ApproveStep
<1>4. ASSUME NEW o \in Objects, RemoveObject(o) PROVE RetInv'
  BY <1>4, RemoveObjectStep
<1>5. ASSUME NEW allow_deliveries \in BOOLEAN, NEW allow_missing \in BOOLEAN,
             StartDeletion(allow_deliveries, allow_missing)
      PROVE  RetInv'
  BY <1>5, StartDeletionStep
<1>6. CASE InspectTarget
  BY <1>6, InspectTargetStep
<1>7. CASE EndInspection
  BY <1>7, EndInspectionStep
<1>8. CASE CommitBatch
  BY <1>8, CommitBatchStep
<1>9. CASE ReportDeletion \/ RunDies
  BY <1>9, RunEndsStep
<1>10. ASSUME NEW d \in Ids, NEW o \in Objects, CreateDelivery(d, o) PROVE RetInv'
  BY <1>10, CreateDeliveryStep
<1>11. ASSUME NEW d \in Ids, NEW o \in Objects, AddVersion(d, o) PROVE RetInv'
  BY <1>11, AddVersionStep
<1>12. ASSUME NEW d \in Ids, Enable(d) PROVE RetInv'
  BY <1>12, EnableStep
<1>13. ASSUME NEW d \in Ids, Disable(d) PROVE RetInv'
  BY <1>13, DisableStep
<1>14. CASE DayPasses
  BY <1>14, DayPassesStep
<1> QED
  BY <1>1, <1>2, <1>3, <1>4, <1>5, <1>6, <1>7, <1>8, <1>9, <1>10, <1>11, <1>12, <1>13, <1>14
     DEF RetentionNext

(***************************************************************************)
(* Only a batch takes a delivery away, only a removal an object.           *)
(***************************************************************************)
LEMMA UsedIsThere ==
    ASSUME RetInv, NEW d \in Alive, NEW e \in Ids,
           \/ \E o \in Objects : CreateDelivery(e, o) \/ AddVersion(e, o)
           \/ Enable(e) \/ Disable(e)
    PROVE  delivery'[d] # Gone
<1>1. /\ d \in Ids /\ delivery[d] # Gone /\ delivery[d] \in Delivery
      /\ delivery \in [Ids -> Delivery \cup {Gone}]
  BY DEF Alive, RetInv, RetentionTypeOK
<1>2. CASE e # d
  BY <1>1, <1>2 DEF CreateDelivery, AddVersion, Enable, Disable
<1>3. ASSUME NEW o \in Objects, AddVersion(d, o)
      PROVE  delivery'[d] # Gone
  <2>1. PICK new : new = [delivery[d] EXCEPT !.versions = Append(@, o)]
    OBVIOUS
  <2>2. new \in Delivery
    BY <1>1, <2>1, UsedDelivery
  <2>3. delivery' = [delivery EXCEPT ![d] = new]
    BY <1>3, <2>1 DEF AddVersion
  <2> QED
    BY <1>1, <2>2, <2>3, GoneIsNoDelivery
<1>4. ASSUME NEW active \in BOOLEAN,
             delivery' = [delivery EXCEPT ![d].active = active]
      PROVE  delivery'[d] # Gone
  <2>1. PICK new : new = [delivery[d] EXCEPT !.active = active]
    OBVIOUS
  <2>2. new \in Delivery
    BY <1>1, <2>1 DEF Delivery
  <2>3. delivery' = [delivery EXCEPT ![d] = new]
    BY <1>4, <2>1
  <2> QED
    BY <1>1, <2>2, <2>3, GoneIsNoDelivery
<1>5. \A o \in Objects : ~CreateDelivery(d, o)
  BY <1>1 DEF CreateDelivery
<1>6. CASE Enable(d) \/ Disable(d)
  BY <1>4, <1>6 DEF Enable, Disable
<1> QED
  BY <1>2, <1>3, <1>5, <1>6

LEMMA OnlyBatchesDelete ==
    ASSUME RetInv, [RetentionNext]_retvars, NEW d \in Alive, delivery'[d] = Gone
    PROVE  CommitBatch
<1>1. delivery' # delivery
  BY DEF Alive
<1>2. ~\E e \in Ids : \/ \E o \in Objects : CreateDelivery(e, o) \/ AddVersion(e, o)
                      \/ Enable(e) \/ Disable(e)
  BY UsedIsThere
<1> QED
  BY <1>1, <1>2 DEF RetentionNext, retvars, ListCandidates, Approve, RemoveObject,
     StartDeletion, InspectTarget, EndInspection, ReportDeletion, RunDies, DayPasses

LEMMA OnlyRemovalsRemove ==
    ASSUME RetInv, [RetentionNext]_retvars, NEW o \in object, o \notin object'
    PROVE  RemoveObject(o)
<1>1. ASSUME NEW d \in Ids, NEW p \in Objects, CreateDelivery(d, p) \/ AddVersion(d, p)
      PROVE  FALSE
  BY <1>1 DEF CreateDelivery, AddVersion
<1>2. ASSUME NEW p \in Objects, RemoveObject(p)
      PROVE  RemoveObject(o)
  BY <1>2 DEF RemoveObject
<1> QED
  BY <1>1, <1>2 DEF RetentionNext, retvars, ListCandidates, Approve, Enable, Disable,
     StartDeletion, InspectTarget, EndInspection, CommitBatch, ReportDeletion, RunDies, DayPasses

LEMMA RetentionDeletesTheListed ==
    ASSUME RetInv, [RetentionNext]_retvars
    PROVE  RetiredGo /\ UnreferencedGo /\ ReportedIsGone
<1>1. RetiredGo
  <2> SUFFICES ASSUME NEW d \in Alive, delivery'[d] = Gone
               PROVE  \/ ~delivery[d].active /\ delivery[d].expires + DeliveryDays <= today
                      \/ d \in touched
    BY DEF RetiredGo
  <2>1. CommitBatch
    BY OnlyBatchesDelete
  <2>2. PICK batch \in SUBSET Range(script.found) :
           /\ Range(script.found) = batch \cup Range(script'.found)
           /\ delivery' = [e \in Ids |-> IF e \in batch THEN Gone ELSE delivery[e]]
           /\ record' = record \ batch
           /\ script' \in Script /\ script'.at = "delete" /\ script'.todo = script.todo
           /\ script'.remade = script.remade
    BY <2>1, CommitBatchEffect
  <2>3. d \in Ids /\ delivery[d] # Gone /\ d \in batch
    BY <2>2 DEF Alive
  <2>4. d \in listed.deliveries \cup listed.records
    BY <2>3 DEF RetInv, ApprovedWereListed
  <2>5. d \in listed.deliveries
    BY <2>3, <2>4, IdsAreApart DEF RetInv, RetentionTypeOK, Review
  <2> QED
    BY <2>5 DEF RetInv, ListedStayRetired, RetiredDelivery
<1>2. UnreferencedGo
  <2> SUFFICES ASSUME NEW o \in object \ object', NEW d \in Alive,
                      delivery[d].active, o \in References(d)
               PROVE  d \notin listed.scanned \/ d \in touched
    BY DEF UnreferencedGo
  <2>1. o \in listed.objects
    BY OnlyRemovalsRemove DEF RemoveObject
  <2> QED
    BY <2>1 DEF RetInv, ListedStayUnreferenced
<1>3. ReportedIsGone
  <2> SUFFICES ASSUME ReportDeletion, NEW t \in Range(manifest) \ script.remade, Exists(t)
               PROVE  FALSE
    BY DEF ReportedIsGone
  <2>1. t \in Range(script.found) /\ script.found = <<>>
    BY DEF ReportDeletion, RetInv, NoneOverlooked
  <2> QED
    BY <2>1, RangeOfNothing
<1> QED
  BY <1>1, <1>2, <1>3

-----------------------------------------------------------------------------
(* The workbook *)

(***************************************************************************)
(* What a package keeps while it is edited: but for a calculation chain,   *)
(* nothing dangles, and nothing but Power Query is lost.  The chain goes   *)
(* before the package is saved, because every builder recalculates and     *)
(* ends by saving.                                                         *)
(***************************************************************************)
Fields == {"parts", "types", "rels", "bound", "connections", "sheets", "labelled",
           "headed", "formulas", "recalculates"}

(***************************************************************************)
(* The parts whose relationships are only looked for in the workbook's.    *)
(***************************************************************************)
WorkbookNames(rels) ==
    \A r \in rels : r[2].kind \in {"item", "connections", "calcChain"} => r[1] = Workbook

HoldsTogether(p) ==
    /\ DOMAIN p = Fields
    /\ WorkbookNames(p.rels)
    /\ p.types \subseteq p.parts
    /\ p.rels \subseteq p.parts \X p.parts
    /\ \A q \in OfKind(p.parts, "queryTable") : ConnectionOf[q] \in p.connections
    /\ p.connections # {} => Connections \in p.parts

Keeps(t, p) ==
    LET kept == OfKind(t.parts, "item") \ MashupItems
    IN /\ kept \cup {q \in t.parts : \E i \in kept : <<i, q>> \in t.rels} \subseteq p.parts
       /\ \A c \in t.connections \ MashupConnections :
             c \in p.connections
             \/ \E q \in t.parts \ p.parts : q.kind = "queryTable" /\ ConnectionOf[q] = c

Calls == {"block", "recalculate", "summary", "rows", "names", "save"}

Recalculating(calls) == \E i \in DOMAIN calls : calls[i] = "recalculate"

WInv ==
    /\ plan \in Seq(Calls)
    /\ template = <<>> => ~saved /\ plan = <<>>
    /\ template # <<>> =>
          /\ template \in Templates
          /\ HoldsTogether(package)
          /\ Keeps(template, package)
    /\ plan # <<>> /\ CalcChain \in package.parts => Recalculating(plan)
    /\ saved => plan = <<>> /\ CalcChain \notin package.parts
    /\ \A i \in DOMAIN plan : plan[i] = "save" => i = Len(plan)

LEMMA TemplateFacts ==
    ASSUME NEW t \in Templates
    PROVE  t # <<>> /\ HoldsTogether(t) /\ Keeps(t, t)
<1>1. IsPackage(t) /\ DOMAIN t = Fields
  BY TemplatesAreExcels DEF IsPackage, Fields
<1>2. "parts" \in DOMAIN t /\ "parts" \notin DOMAIN <<>>
  BY <1>1 DEF Fields
<1>3. \A q \in OfKind(t.parts, "queryTable") : ConnectionOf[q] \in t.connections
  BY TemplatesAreExcels
<1>4. t.connections # {} => Connections \in t.parts
  BY TemplatesAreExcels
<1>7. WorkbookNames(t.rels)
  BY TemplatesAreExcels DEF WorkbookNames
<1>5. HoldsTogether(t)
  BY <1>1, <1>3, <1>4, <1>7 DEF HoldsTogether, IsPackage
<1>6. Keeps(t, t)
  BY DEF Keeps, OfKind
<1> QED
  BY <1>2, <1>5, <1>6

(***************************************************************************)
(* Power Query goes without a trace, and nothing else.                     *)
(***************************************************************************)
OnlyNamed(p, removed) ==
    \A r \in p.rels : r[2] \in removed => r[1] = Workbook \/ r[1] \in removed

LEMMA WithoutParts ==
    ASSUME NEW p, NEW removed, DOMAIN p = Fields, OnlyNamed(p, removed)
    PROVE  LET w == Without(p, removed)
           IN /\ DOMAIN w = Fields
              /\ w.parts = p.parts \ removed /\ w.types = p.types \ removed
              /\ w.rels = {r \in p.rels : r[1] \notin removed /\ r[2] \notin removed}
              /\ w.connections = p.connections
<1> DEFINE w == Without(p, removed)
           left == {r \in p.rels : /\ r[1] \notin removed
                                   /\ r[1] = Workbook => r[2] \notin removed}
<1>1. w = [p EXCEPT !.parts = p.parts \ removed, !.types = p.types \ removed, !.rels = left]
  BY DEF Without
<1>2. \A r \in p.rels : r \in left <=> r[1] \notin removed /\ r[2] \notin removed
  BY DEF OnlyNamed
<1>3. left = {r \in p.rels : r[1] \notin removed /\ r[2] \notin removed}
  <2>1. left \subseteq p.rels
    OBVIOUS
  <2> HIDE DEF left
  <2> QED
    BY <1>2, <2>1
<1> HIDE DEF w, left
<1>4. /\ DOMAIN w = Fields
      /\ w.parts = p.parts \ removed /\ w.types = p.types \ removed
      /\ w.rels = left /\ w.connections = p.connections
  BY <1>1 DEF Fields
<1> QED
  BY <1>3, <1>4 DEF w

LEMMA WithoutHolds ==
    ASSUME NEW p, NEW removed, HoldsTogether(p), Connections \notin removed,
           OnlyNamed(p, removed)
    PROVE  HoldsTogether(Without(p, removed))
<1> DEFINE w == Without(p, removed)
<1>1. /\ DOMAIN w = Fields
      /\ w.parts = p.parts \ removed /\ w.types = p.types \ removed
      /\ w.rels = {r \in p.rels : r[1] \notin removed /\ r[2] \notin removed}
      /\ w.connections = p.connections
  BY WithoutParts DEF HoldsTogether
<1> HIDE DEF w
<1>2. w.rels \subseteq w.parts \X w.parts
  BY <1>1 DEF HoldsTogether
<1>4. WorkbookNames(w.rels)
  BY <1>1 DEF HoldsTogether, WorkbookNames
<1>3. HoldsTogether(w)
  BY <1>1, <1>2, <1>4 DEF HoldsTogether, OfKind
<1> QED
  BY <1>3 DEF w

LEMMA PowerQueryGoes ==
    ASSUME NEW t \in Templates
    PROVE  LET p == remove_power_query_dependency(t)
           IN HoldsTogether(p) /\ Keeps(t, p)
<1> DEFINE queries == QueryTargets(t)
           a == RemoveQueryTables(t)
           left == a.connections \ (MashupConnections \cup {ConnectionOf[q] : q \in queries})
           kept == [a EXCEPT !.connections = left]
           b == RemoveConnections(a, queries)
           items == b.parts \cap MashupItems
           gone == items \cup {q \in b.parts : \E i \in items : <<i, q>> \in b.rels}
           c == RemoveMashups(b)
<1>1. /\ DOMAIN t = Fields /\ t.types \subseteq t.parts /\ t.rels \subseteq t.parts \X t.parts
      /\ t.connections # {} => Connections \in t.parts
  BY TemplateFacts DEF HoldsTogether
<1>2. /\ \A q \in OfKind(t.parts, "queryTable") : \E s \in t.bound : <<s, q>> \in t.rels
      /\ \A r \in t.rels :
            /\ r[2].kind = "queryTable" => r[1] \in t.bound
            /\ r[1].kind # "queryTable"
            /\ r[1].kind = "item" <=> r[2].kind = "itemProps"
            /\ r[2].kind \in {"item", "connections", "calcChain"} => r[1] = Workbook
            /\ \A s \in t.rels : r[2].kind = "itemProps" /\ r[2] = s[2] => r[1] = s[1]
  BY TemplatesAreExcels
<1>3. queries = OfKind(t.parts, "queryTable")
  BY <1>2 DEF QueryTargets, OfKind
<1>4. /\ DOMAIN a = Fields
      /\ a.parts = t.parts \ queries /\ a.types = t.types \ queries
      /\ a.rels = {r \in t.rels : ~(r[1] \in t.bound /\ r[2].kind = "queryTable")}
      /\ a.connections = t.connections
  BY <1>1 DEF RemoveQueryTables, Fields
<1> HIDE DEF queries, a
<1>5. \A r \in a.rels : r \in t.rels /\ r[1] \in a.parts /\ r[2] \in a.parts
  BY <1>1, <1>2, <1>3, <1>4 DEF OfKind
<1>6. a.rels \subseteq a.parts \X a.parts
  BY <1>1, <1>4, <1>5
<1>7. /\ DOMAIN kept = Fields /\ kept.parts = a.parts /\ kept.types = a.types
      /\ kept.rels = a.rels /\ kept.connections = left
  BY <1>4 DEF Fields
<1>8. b = IF left = {} THEN Without(kept, {Connections}) ELSE kept
  BY DEF RemoveConnections
<1> HIDE DEF left, kept, b
<1>9. \A q \in a.parts : q.kind # "queryTable"
  BY <1>3, <1>4 DEF OfKind
<1>17. OnlyNamed(kept, {Connections})
  BY <1>2, <1>5, <1>7 DEF OnlyNamed, Connections
<1>20. LET w == Without(kept, {Connections})
       IN /\ DOMAIN w = Fields
          /\ w.parts = kept.parts \ {Connections} /\ w.types = kept.types \ {Connections}
          /\ w.rels = {r \in kept.rels : r[1] \notin {Connections} /\ r[2] \notin {Connections}}
          /\ w.connections = kept.connections
  BY <1>7, <1>17, WithoutParts
<1>18. WorkbookNames(b.rels)
  <2>1. b.rels \subseteq t.rels
    BY <1>5, <1>7, <1>8, <1>20
  <2> QED
    BY <1>2, <2>1 DEF WorkbookNames
<1>10. HoldsTogether(b)
  <2>1. CASE left = {}
    <3>1. /\ DOMAIN b = Fields
          /\ b.parts = a.parts \ {Connections} /\ b.types = a.types \ {Connections}
          /\ b.rels = {r \in a.rels : r[1] \notin {Connections} /\ r[2] \notin {Connections}}
          /\ b.connections = {}
      BY <1>7, <1>8, <2>1, <1>20
    <3>2. b.rels \subseteq b.parts \X b.parts
      BY <1>6, <3>1
    <3> QED
      BY <1>1, <1>4, <1>9, <1>18, <3>1, <3>2 DEF HoldsTogether, OfKind
  <2>2. CASE left # {}
    <3>1. b = kept /\ left \subseteq t.connections /\ Connections \in t.parts
      BY <1>1, <1>4, <1>8, <2>2 DEF left
    <3>2. Connections \in a.parts
      BY <1>3, <1>4, <3>1 DEF OfKind, Connections
    <3> QED
      BY <1>1, <1>4, <1>6, <1>7, <1>9, <1>18, <3>1, <3>2 DEF HoldsTogether, OfKind
  <2> QED
    BY <2>1, <2>2
<1>11. /\ b.parts \subseteq a.parts /\ a.parts \ {Connections} \subseteq b.parts
       /\ b.rels \subseteq t.rels /\ b.connections = left /\ DOMAIN b = Fields
  BY <1>5, <1>7, <1>8, <1>20
<1>12. \A q \in gone : q.kind \in {"item", "itemProps"}
  BY <1>2, <1>11, MashupsAreItems
<1>13. c = Without(b, gone)
  BY DEF RemoveMashups
<1>19. OnlyNamed(b, gone)
  <2> SUFFICES ASSUME NEW e \in b.rels, e[2] \in gone
               PROVE  e[1] = Workbook \/ e[1] \in gone
    BY DEF OnlyNamed
  <2>1. e \in t.rels
    BY <1>11
  <2>2. CASE e[2] \in items
    <3>1. e[2].kind = "item"
      BY <2>2, MashupsAreItems
    <3> QED
      BY <1>2, <2>1, <3>1
  <2>3. CASE e[2] \notin items
    <3>1. PICK i \in items : <<i, e[2]>> \in b.rels
      BY <2>3
    <3>2. <<i, e[2]>> \in t.rels /\ i.kind = "item"
      BY <1>11, <3>1, MashupsAreItems
    <3>3. e[2].kind = "itemProps"
      BY <1>2, <3>2
    <3>4. i = e[1]
      BY <1>2, <2>1, <3>2, <3>3
    <3> QED
      BY <3>1, <3>4
  <2> QED
    BY <2>2, <2>3
<1> HIDE DEF gone, c
<1>14. HoldsTogether(c)
  BY <1>10, <1>12, <1>13, <1>19, WithoutHolds DEF Connections
<1>15. c.parts = b.parts \ gone /\ c.connections = left
  BY <1>11, <1>13, <1>19, WithoutParts
<1>16. Keeps(t, c)
  <2> DEFINE own == OfKind(t.parts, "item") \ MashupItems
  <2>1. ASSUME NEW i \in own
        PROVE  i \in c.parts
    <3>1. i \in t.parts /\ i.kind = "item" /\ i \notin MashupItems
      BY DEF OfKind
    <3>2. i \in b.parts
      BY <1>3, <1>4, <1>11, <3>1 DEF OfKind, Connections
    <3>3. i \notin gone
      BY <1>2, <1>11, <3>1, MashupsAreItems DEF gone
    <3> QED
      BY <1>15, <3>2, <3>3
  <2>2. ASSUME NEW q \in t.parts, NEW i \in own, <<i, q>> \in t.rels
        PROVE  q \in c.parts
    <3>1. i.kind = "item" /\ i \notin MashupItems
      BY DEF OfKind
    <3>2. q.kind = "itemProps"
      BY <1>2, <2>2, <3>1
    <3>3. q \in b.parts
      BY <1>3, <1>4, <1>11, <3>2 DEF OfKind, Connections
    <3>4. \A k : <<k, q>> \in t.rels => k = i
      BY <1>2, <2>2, <3>2
    <3>5. q \notin gone
      BY <1>11, <3>1, <3>2, <3>4, MashupsAreItems DEF gone
    <3> QED
      BY <1>15, <3>3, <3>5
  <2>3. ASSUME NEW d \in t.connections \ MashupConnections
        PROVE  d \in c.connections
               \/ \E q \in t.parts \ c.parts : q.kind = "queryTable" /\ ConnectionOf[q] = d
    <3>1. CASE \E q \in queries : ConnectionOf[q] = d
      <4>1. PICK q \in queries : ConnectionOf[q] = d
        BY <3>1
      <4>2. q \in t.parts /\ q.kind = "queryTable" /\ q \notin c.parts
        BY <1>3, <1>4, <1>11, <1>15 DEF OfKind
      <4> QED
        BY <4>1, <4>2
    <3>2. CASE ~\E q \in queries : ConnectionOf[q] = d
      BY <1>4, <1>15, <3>2 DEF left
    <3> QED
      BY <3>1, <3>2
  <2> QED
    BY <2>1, <2>2, <2>3 DEF Keeps
<1>21. remove_power_query_dependency(t) = c
  BY DEF remove_power_query_dependency, c, b, a, queries
<1> QED
  BY <1>14, <1>16, <1>21

(***************************************************************************)
(* A call of the builder that leaves the package together.                 *)
(***************************************************************************)
LEMMA CallStep ==
    ASSUME WInv, NEW call, call # "save", Due(call),
           plan' \in {Tail(plan), plan}, UNCHANGED <<template, saved>>,
           HoldsTogether(package'), Keeps(template, package'),
           package'.parts \subseteq package.parts,
           call = "recalculate" => CalcChain \notin package'.parts
    PROVE  WInv'
<1>1. plan \in Seq(Calls) /\ plan # <<>> /\ plan[1] = call
  BY DEF WInv, Due
<1>2. template # <<>> /\ template \in Templates /\ ~saved
  BY <1>1 DEF WInv
<1>3. CASE plan' = plan
  BY <1>1, <1>2, <1>3 DEF WInv, Recalculating
<1>4. CASE plan' = Tail(plan)
  <2>1. /\ plan' \in Seq(Calls) /\ Len(plan) \in Nat /\ Len(plan) >= 1
        /\ Len(plan') = Len(plan) - 1
        /\ DOMAIN plan = 1..Len(plan) /\ DOMAIN plan' = 1..(Len(plan) - 1)
        /\ \A i \in 1..(Len(plan) - 1) : plan'[i] = plan[i + 1]
    BY <1>1, <1>4
  <2>2. \A i \in DOMAIN plan' : plan'[i] = "save" => i = Len(plan')
    <3> SUFFICES ASSUME NEW i \in 1..(Len(plan) - 1), plan'[i] = "save"
                 PROVE  i = Len(plan')
      BY <2>1
    <3>1. i + 1 \in 1..Len(plan) /\ plan[i + 1] = "save"
      BY <2>1
    <3>2. i + 1 = Len(plan)
      BY <2>1, <3>1 DEF WInv
    <3> QED
      BY <2>1, <3>2
  <2>3. CalcChain \in package'.parts => Recalculating(plan')
    <3> SUFFICES ASSUME CalcChain \in package'.parts
                 PROVE  Recalculating(plan')
      OBVIOUS
    <3>1. PICK i \in 1..Len(plan) : plan[i] = "recalculate"
      BY <1>1, <2>1 DEF WInv, Recalculating
    <3>2. i # 1
      BY <1>1, <3>1
    <3>3. i - 1 \in 1..(Len(plan) - 1) /\ plan'[i - 1] = "recalculate"
      BY <2>1, <3>1, <3>2
    <3> QED
      BY <2>1, <3>3 DEF Recalculating
  <2> QED
    BY <1>2, <2>1, <2>2, <2>3 DEF WInv
<1> QED
  BY <1>3, <1>4

(***************************************************************************)
(* The calls that edit sheets only.                                        *)
(***************************************************************************)
LEMMA SheetsStep ==
    ASSUME WInv, NEW call, call \notin {"save", "recalculate"}, Due(call),
           plan' \in {Tail(plan), plan}, UNCHANGED <<template, saved>>,
           NEW sheets, package' = [package EXCEPT !.sheets = sheets]
    PROVE  WInv'
<1>1. template # <<>> /\ HoldsTogether(package) /\ Keeps(template, package)
  BY DEF WInv, Due
<1>2. /\ DOMAIN package' = Fields
      /\ package'.parts = package.parts /\ package'.types = package.types
      /\ package'.rels = package.rels /\ package'.connections = package.connections
  BY <1>1 DEF HoldsTogether, Fields
<1>3. HoldsTogether(package') /\ Keeps(template, package')
  BY <1>1, <1>2 DEF HoldsTogether, Keeps
<1> QED
  BY <1>2, <1>3, CallStep

LEMMA Joined ==
    ASSUME NEW S, NEW a \in Seq(S), NEW b \in Seq(S)
    PROVE  /\ a \o b \in Seq(S) /\ Len(a \o b) = Len(a) + Len(b)
           /\ DOMAIN (a \o b) = 1..(Len(a) + Len(b))
           /\ \A i \in 1..(Len(a) + Len(b)) :
                 (a \o b)[i] = IF i <= Len(a) THEN a[i] ELSE b[i - Len(a)]
<1>1. a \o b \in Seq(S)
  OBVIOUS
<1>2. Len(a \o b) = Len(a) + Len(b)
  OBVIOUS
<1>3. DOMAIN (a \o b) = 1..(Len(a) + Len(b))
  BY <1>1, <1>2
<1>4. \A i \in 1..(Len(a) + Len(b)) : (a \o b)[i] = IF i <= Len(a) THEN a[i] ELSE b[i - Len(a)]
  OBVIOUS
<1> QED
  BY <1>1, <1>2, <1>3, <1>4

LEMMA LoadStep ==
    ASSUME WInv, template = <<>>, NEW t \in Templates, NEW stripped \in BOOLEAN,
           NEW kind \in Reports, Load(t, stripped, kind)
    PROVE  WInv'
<1>1. /\ template' = t /\ plan' = Builder(kind) /\ ~saved'
      /\ package' = IF stripped THEN remove_power_query_dependency(t) ELSE t
  BY DEF Load, WInv
<1>2. t # <<>> /\ HoldsTogether(package') /\ Keeps(t, package')
  BY <1>1, TemplateFacts, PowerQueryGoes
<1> DEFINE calls == Builder(kind)
<1>3. /\ calls \in Seq(Calls) /\ Recalculating(calls)
      /\ \A i \in DOMAIN calls : calls[i] = "save" => i = Len(calls)
  <2>1. CASE kind = "ad revenue"
    <3>1. calls = <<"recalculate", "summary", "rows", "save">>
      BY <2>1 DEF Builder
    <3>2. calls[1] = "recalculate" /\ 1 \in DOMAIN calls /\ calls \in Seq(Calls)
      BY <3>1 DEF Calls
    <3> HIDE DEF calls
    <3>3. \A i \in DOMAIN calls : calls[i] = "save" => i = Len(calls)
      BY <3>1
    <3> QED
      BY <3>2, <3>3 DEF Recalculating
  <2>2. CASE kind = "products"
    <3>1. calls = <<"rows", "names", "recalculate", "save">>
      BY <2>2 DEF Builder
    <3>2. calls[3] = "recalculate" /\ 3 \in DOMAIN calls /\ calls \in Seq(Calls)
      BY <3>1 DEF Calls
    <3> HIDE DEF calls
    <3>3. \A i \in DOMAIN calls : calls[i] = "save" => i = Len(calls)
      BY <3>1
    <3> QED
      BY <3>2, <3>3 DEF Recalculating
  <2>3. CASE kind = "coin ledger"
    <3> DEFINE blocks == [b \in DOMAIN Blocks |-> "block"]
               rest == <<"rows", "names", "recalculate", "save">>
    <3>1. calls = blocks \o rest
      BY <2>3 DEF Builder
    <3>2. Len(Blocks) \in Nat /\ DOMAIN Blocks = 1..Len(Blocks)
      BY BlocksAreRows
    <3>3. /\ blocks \in Seq(Calls) /\ Len(blocks) = Len(Blocks)
          /\ \A i \in 1..Len(Blocks) : blocks[i] = "block"
      BY <3>2 DEF Calls
    <3>4. /\ rest \in Seq(Calls) /\ Len(rest) = 4 /\ rest[1] = "rows" /\ rest[2] = "names"
          /\ rest[3] = "recalculate" /\ rest[4] = "save"
      BY DEF Calls
    <3> HIDE DEF blocks, rest, calls
    <3>5. /\ calls \in Seq(Calls) /\ Len(calls) = Len(Blocks) + 4
          /\ DOMAIN calls = 1..(Len(Blocks) + 4)
          /\ \A i \in 1..(Len(Blocks) + 4) :
                calls[i] = IF i <= Len(Blocks) THEN blocks[i] ELSE rest[i - Len(Blocks)]
      <4>1. /\ blocks \o rest \in Seq(Calls) /\ Len(blocks \o rest) = Len(blocks) + Len(rest)
            /\ DOMAIN (blocks \o rest) = 1..(Len(blocks) + Len(rest))
            /\ \A i \in 1..(Len(blocks) + Len(rest)) :
                  (blocks \o rest)[i] = IF i <= Len(blocks) THEN blocks[i]
                                       ELSE rest[i - Len(blocks)]
        BY <3>3, <3>4, Joined
      <4> QED
        BY <3>1, <3>3, <3>4, <4>1
    <3>6. calls[Len(Blocks) + 3] = "recalculate" /\ Len(Blocks) + 3 \in DOMAIN calls
      BY <3>2, <3>4, <3>5
    <3>7. \A i \in DOMAIN calls : calls[i] = "save" => i = Len(calls)
      <4> SUFFICES ASSUME NEW i \in 1..(Len(Blocks) + 4), calls[i] = "save"
                   PROVE  i = Len(Blocks) + 4
        BY <3>5
      <4>1. ~(i <= Len(Blocks))
        BY <3>3, <3>5
      <4>2. i - Len(Blocks) \in 1..4 /\ rest[i - Len(Blocks)] = "save"
        BY <3>2, <3>5, <4>1
      <4>3. i - Len(Blocks) = 1 \/ i - Len(Blocks) = 2 \/ i - Len(Blocks) = 3
            \/ i - Len(Blocks) = 4
        BY <3>2, <4>2
      <4>4. i - Len(Blocks) = 4
        BY <3>4, <4>2, <4>3
      <4> QED
        BY <3>2, <4>4
    <3> QED
      BY <3>5, <3>6, <3>7 DEF Recalculating
  <2> QED
    BY <2>1, <2>2, <2>3 DEF Reports
<1> HIDE DEF calls
<1>4. plan' = calls
  BY <1>1 DEF calls
<1>5. plan' \in Seq(Calls) /\ Recalculating(plan')
      /\ \A i \in DOMAIN plan' : plan'[i] = "save" => i = Len(plan')
  BY <1>3, <1>4
<1> QED
  BY <1>1, <1>2, <1>5 DEF WInv

LEMMA WorkbookInitWInv == WorkbookInit => WInv
BY DEF WorkbookInit, WInv

LEMMA WorkbookNextWInv ==
    ASSUME WInv, [WorkbookNext]_wvars
    PROVE  WInv'
<1>1. CASE UNCHANGED wvars
  BY <1>1 DEF wvars, WInv
<1>2. ASSUME template = <<>>, NEW t \in Templates, NEW stripped \in BOOLEAN, NEW kind \in Reports,
             Load(t, stripped, kind)
      PROVE  WInv'
  BY <1>2, LoadStep
<1>3. CASE Abort \/ RefuseSource
  <2>1. plan # <<>> /\ plan' = <<>> /\ UNCHANGED <<template, package, saved>>
    BY <1>3 DEF Abort, RefuseSource, Refused, Due
  <2> QED
    BY <2>1 DEF WInv
<1>4. CASE Recalculate
  <2>1. /\ Due("recalculate") /\ package' = Recalculated(package)
        /\ plan' = Tail(plan) /\ UNCHANGED <<template, saved>>
    BY <1>4 DEF Recalculate, Edit
  <2>2. template # <<>> /\ HoldsTogether(package) /\ Keeps(template, package)
        /\ template \in Templates
    BY <2>1 DEF WInv, Due
  <2> DEFINE w == Without(package, {CalcChain})
  <2>9. OnlyNamed(package, {CalcChain})
    BY <2>2 DEF OnlyNamed, HoldsTogether, WorkbookNames, CalcChain
  <2>3. HoldsTogether(w)
    BY <2>2, <2>9, WithoutHolds DEF CalcChain, Connections
  <2>4. w.parts = package.parts \ {CalcChain} /\ w.connections = package.connections
    BY <2>2, <2>9, WithoutParts DEF HoldsTogether
  <2>5. package' = [w EXCEPT !.recalculates = TRUE]
    BY <2>1 DEF Recalculated
  <2> HIDE DEF w
  <2>6. /\ DOMAIN package' = Fields
        /\ package'.parts = w.parts /\ package'.types = w.types
        /\ package'.rels = w.rels /\ package'.connections = w.connections
    BY <2>3, <2>5 DEF HoldsTogether, Fields
  <2>7. HoldsTogether(package')
    BY <2>3, <2>6 DEF HoldsTogether
  <2>8. Keeps(template, package')
    <3>1. \A i, q : <<i, q>> \in template.rels /\ i.kind = "item" => q.kind = "itemProps"
      BY <2>2, TemplatesAreExcels
    <3> DEFINE own == OfKind(template.parts, "item") \ MashupItems
    <3>2. /\ own \cup {q \in template.parts : \E i \in own : <<i, q>> \in template.rels}
                \subseteq package.parts
          /\ \A c \in template.connections \ MashupConnections :
                c \in package.connections
                \/ \E q \in template.parts \ package.parts :
                      q.kind = "queryTable" /\ ConnectionOf[q] = c
      BY <2>2 DEF Keeps
    <3>3. \A i \in own : i.kind = "item"
      BY DEF OfKind
    <3>4. \A q \in package.parts : q.kind # "calcChain" => q \in package'.parts
      BY <2>4, <2>6 DEF CalcChain
    <3> HIDE DEF own
    <3>5. own \cup {q \in template.parts : \E i \in own : <<i, q>> \in template.rels}
             \subseteq package'.parts
      BY <3>1, <3>2, <3>3, <3>4
    <3>6. \A c \in template.connections \ MashupConnections :
             c \in package'.connections
             \/ \E q \in template.parts \ package'.parts :
                   q.kind = "queryTable" /\ ConnectionOf[q] = c
      BY <2>4, <2>6, <3>2
    <3> QED
      BY <3>5, <3>6 DEF Keeps, own
  <2> QED
    BY <2>1, <2>4, <2>6, <2>7, <2>8, CallStep
<1>5. CASE UpdateSummary
  <2>1. /\ Due("summary") /\ package' = package
        /\ plan' = Tail(plan) /\ UNCHANGED <<template, saved>>
    BY <1>5 DEF UpdateSummary, Edit
  <2>2. template # <<>> /\ HoldsTogether(package') /\ Keeps(template, package')
    BY <2>1 DEF WInv, Due
  <2> QED
    BY <2>1, <2>2, CallStep
<1>6. CASE WriteLedgerBlock
  <2>1. PICK sheets : sheets = [package.sheets EXCEPT ![Ledger] = WriteBlock(@, Block)]
    OBVIOUS
  <2>2. /\ Due("block") /\ package' = [package EXCEPT !.sheets = sheets]
        /\ plan' = Tail(plan) /\ UNCHANGED <<template, saved>>
    BY <1>6, <2>1 DEF WriteLedgerBlock, Edit
  <2> QED
    BY <2>2, SheetsStep
<1>7. CASE SyncNames
  <2>1. PICK sheets : package' = [package EXCEPT !.sheets = sheets]
    BY <1>7 DEF SyncNames, Edit, SyncedNames
  <2>2. Due("names") /\ plan' = Tail(plan) /\ UNCHANGED <<template, saved>>
    BY <1>7 DEF SyncNames, Edit
  <2> QED
    BY <2>1, <2>2, SheetsStep
<1>8. ASSUME NEW name \in todo, NEW n \in 0..MaxRows, ReplaceRows(name, n)
      PROVE  WInv'
  <2>1. PICK sheets : sheets = [package.sheets EXCEPT ![name] = replace_detail_rows(@, DataRows(report, n))]
    OBVIOUS
  <2>2. /\ Due("rows") /\ package' = [package EXCEPT !.sheets = sheets]
        /\ plan' \in {Tail(plan), plan} /\ UNCHANGED <<template, saved>>
    BY <1>8, <2>1 DEF ReplaceRows
  <2> QED
    BY <2>2, SheetsStep
<1>9. CASE Save
  <2>1. /\ plan # <<>> /\ plan[1] = "save" /\ plan' = <<>>
        /\ UNCHANGED <<template, package>> /\ saved'
    BY <1>9 DEF Save, Due
  <2>2. /\ plan \in Seq(Calls) /\ 1 \in DOMAIN plan /\ DOMAIN plan = 1..Len(plan)
        /\ template # <<>>
    BY <2>1 DEF WInv
  <2>3. Len(plan) = 1
    BY <2>1, <2>2 DEF WInv
  <2>4. ~Recalculating(plan)
    BY <2>1, <2>2, <2>3 DEF Recalculating
  <2>5. CalcChain \notin package.parts
    BY <2>1, <2>4 DEF WInv
  <2>6. <<>> \in Seq(Calls) /\ DOMAIN <<>> = {}
    OBVIOUS
  <2> QED
    BY <2>1, <2>2, <2>5, <2>6 DEF WInv
<1> QED
  BY <1>1, <1>2, <1>3, <1>4, <1>5, <1>6, <1>7, <1>8, <1>9 DEF WorkbookNext

LEMMA WInvSound == WInv => PackageIsSound
BY DEF WInv, PackageIsSound, HoldsTogether, Keeps, NothingDangles, NothingElseIsLost

-----------------------------------------------------------------------------
(* The rows *)

(***************************************************************************)
(* Induction over the natural numbers, by the set of those for which the   *)
(* claim holds.                                                            *)
(***************************************************************************)
LEMMA Induction ==
    ASSUME NEW T, 0 \in T, \A n \in Nat : n \in T => n + 1 \in T
    PROVE  Nat \subseteq T
<1> DEFINE Less == OpToRel(<, Nat)
           Bad == Nat \ T
<1>1. IsWellFoundedOn(Less, Nat)
  BY NatLessThanWellFounded, Zenon
<1>2. \A m, n \in Nat : <<m, n>> \in Less <=> m < n
  BY DEF OpToRel
<1> HIDE DEF Less
<1>3. CASE Bad # {}
  <2>1. Bad \subseteq Nat
    OBVIOUS
  <2> HIDE DEF Bad
  <2>2. PICK x \in Bad : \A y \in Bad : ~(<<y, x>> \in Less)
    BY <1>1, <1>3, <2>1, WFMin
  <2> USE DEF Bad
  <2>3. x \in Nat /\ x # 0
    BY <2>2
  <2>4. x - 1 \in Nat /\ x - 1 < x
    BY <2>3
  <2>5. x - 1 \in T
    BY <1>2, <2>2, <2>3, <2>4
  <2> QED
    BY <2>2, <2>3, <2>4, <2>5
<1> QED
  BY <1>3

(***************************************************************************)
(* A function that starts from a and takes a step for each number up to n: *)
(* there is one, whatever the step.                                        *)
(***************************************************************************)
IsStep(step, n, A) == step \in [(1..n) \X A -> A]

Unfolds(f, n, A, a, step) ==
    f \in [0..n -> A] /\ f[0] = a /\ \A i \in 1..n : f[i] = step[<<i, f[i - 1]>>]

LEMMA Recursion ==
    ASSUME NEW n \in Nat, NEW A, NEW a \in A, NEW step, IsStep(step, n, A)
    PROVE  \E f : Unfolds(f, n, A, a, step)
<1> DEFINE T == {m \in Nat : m <= n => \E f : Unfolds(f, m, A, a, step)}
<1>1. 0 \in T
  <2>1. Unfolds([i \in 0..0 |-> a], 0, A, a, step)
    BY DEF Unfolds
  <2> QED
    BY <2>1
<1>2. ASSUME NEW m \in Nat, m \in T, m + 1 <= n PROVE m + 1 \in T
  <2>1. PICK g : Unfolds(g, m, A, a, step)
    BY <1>2
  <2> DEFINE f == [i \in 0..(m + 1) |-> IF i = m + 1 THEN step[<<m + 1, g[m]>>] ELSE g[i]]
  <2>2. g[m] \in A /\ step[<<m + 1, g[m]>>] \in A
    BY <1>2, <2>1 DEF Unfolds, IsStep
  <2>3. f \in [0..(m + 1) -> A]
    BY <2>1, <2>2 DEF Unfolds
  <2>4. f[0] = a
    BY <2>1 DEF Unfolds
  <2>5. ASSUME NEW i \in 1..(m + 1) PROVE f[i] = step[<<i, f[i - 1]>>]
    <3>1. CASE i = m + 1
      <4>1. f[i] = step[<<m + 1, g[m]>>] /\ f[m] = g[m] /\ i - 1 = m
        BY <3>1
      <4> HIDE DEF f
      <4> QED
        BY <3>1, <4>1
    <3>2. CASE i # m + 1
      <4>1. i \in 1..m /\ i - 1 \in 0..m /\ i - 1 # m + 1
        BY <3>2
      <4>2. f[i] = g[i] /\ f[i - 1] = g[i - 1]
        BY <4>1
      <4>3. g[i] = step[<<i, g[i - 1]>>]
        BY <2>1, <4>1 DEF Unfolds
      <4> HIDE DEF f
      <4> QED
        BY <4>2, <4>3
    <3> HIDE DEF f
    <3> QED
      BY <3>1, <3>2
  <2> HIDE DEF f
  <2>6. Unfolds(f, m + 1, A, a, step)
    BY <2>3, <2>4, <2>5 DEF Unfolds
  <2> QED
    BY <2>6
<1>3. \A m \in Nat : m \in T => m + 1 \in T
  <2> SUFFICES ASSUME NEW m \in Nat, m \in T PROVE m + 1 \in T
    OBVIOUS
  <2>1. CASE m + 1 <= n
    BY <1>2, <2>1
  <2>2. CASE ~(m + 1 <= n)
    BY <2>2
  <2> QED
    BY <2>1, <2>2
<1> HIDE DEF T
<1>4. n \in T
  BY <1>1, <1>3, Induction
<1> QED
  BY <1>4 DEF T
IsKept(f, rows, K) ==
    f = [n \in 0..Len(rows) |->
            IF n = 0 THEN <<>>
            ELSE IF rows[n] \in K THEN Append(f[n - 1], rows[n]) ELSE f[n - 1]]

LEMMA KeptRows ==
    ASSUME NEW S, NEW rows \in Seq(S), NEW K
    PROVE  \E kept : IsKept(kept, rows, K) /\ Only(rows, K) = kept[Len(rows)]
<1> PICK len \in Nat : len = Len(rows)
  OBVIOUS
<1> DEFINE step == [x \in (1..len) \X Seq(S) |->
                      IF rows[x[1]] \in K THEN Append(x[2], rows[x[1]]) ELSE x[2]]
<1>1. \A n \in 1..len : rows[n] \in S
  OBVIOUS
<1>2. step \in [(1..len) \X Seq(S) -> Seq(S)]
  BY <1>1
<1>3. \A n \in 1..len, s \in Seq(S) :
         step[<<n, s>>] = IF rows[n] \in K THEN Append(s, rows[n]) ELSE s
  OBVIOUS
<1> PICK A : A = Seq(S)
  OBVIOUS
<1> PICK a : a = <<>>
  OBVIOUS
<1>4. a \in A /\ IsStep(step, len, A)
  BY <1>2 DEF IsStep
<1> HIDE DEF step
<1>5. PICK f : Unfolds(f, len, A, a, step)
  BY <1>4, Recursion
<1>6. ASSUME NEW n \in 0..len, n # 0
      PROVE  f[n] = IF rows[n] \in K THEN Append(f[n - 1], rows[n]) ELSE f[n - 1]
  <2>1. n \in 1..len /\ n - 1 \in 0..len
    BY <1>6
  <2>2. f[n] = step[<<n, f[n - 1]>>] /\ f[n - 1] \in Seq(S)
    BY <1>5, <2>1 DEF Unfolds
  <2> QED
    BY <1>3, <2>1, <2>2
<1>7. IsKept(f, rows, K)
  BY <1>5, <1>6, Zenon DEF IsKept, Unfolds
<1> DEFINE kept == CHOOSE g : IsKept(g, rows, K)
<1>8. IsKept(kept, rows, K)
  BY <1>7
<1>9. Only(rows, K) = kept[Len(rows)]
  BY DEF Only, IsKept
<1> HIDE DEF kept
<1> QED
  BY <1>8, <1>9
AreOf(s, rows, K, n) ==
    /\ \A i \in DOMAIN s : \E k \in 1..n : s[i] = rows[k] /\ rows[k] \in K
    /\ \A k \in 1..n : rows[k] \in K => \E i \in DOMAIN s : s[i] = rows[k]
    /\ Ascending(rows) => Ascending(s)

LEMMA KeptGrows ==
    ASSUME NEW S, NEW rows \in Seq(S), NEW K, NEW s \in Seq(S), NEW n \in Nat,
           n + 1 <= Len(rows), AreOf(s, rows, K, n), rows[n + 1] \in K
    PROVE  Append(s, rows[n + 1]) \in Seq(S) /\ AreOf(Append(s, rows[n + 1]), rows, K, n + 1)
<1>1. n + 1 \in DOMAIN rows /\ DOMAIN rows = 1..Len(rows) /\ rows[n + 1] \in S /\ Len(rows) \in Nat
  OBVIOUS
<1> PICK r \in S : r = rows[n + 1]
  BY <1>1
<1> PICK t : t = Append(s, r)
  OBVIOUS
<1>2. /\ t \in Seq(S) /\ Len(s) \in Nat /\ DOMAIN s = 1..Len(s)
      /\ DOMAIN t = 1..(Len(s) + 1) /\ t[Len(s) + 1] = r
      /\ \A i \in 1..Len(s) : t[i] = s[i]
  OBVIOUS
<1>3. ASSUME NEW i \in DOMAIN t
      PROVE  \E k \in 1..(n + 1) : t[i] = rows[k] /\ rows[k] \in K
  <2>1. CASE i = Len(s) + 1
    BY <1>2, <2>1
  <2>2. CASE i # Len(s) + 1
    BY <1>2, <2>2 DEF AreOf
  <2> QED
    BY <2>1, <2>2
<1>4. ASSUME NEW k \in 1..(n + 1), rows[k] \in K
      PROVE  \E i \in DOMAIN t : t[i] = rows[k]
  <2>1. CASE k = n + 1
    BY <1>2, <2>1
  <2>2. CASE k # n + 1
    <3>1. PICK i \in DOMAIN s : s[i] = rows[k]
      BY <1>4, <2>2 DEF AreOf
    <3> QED
      BY <1>2, <3>1
  <2> QED
    BY <2>1, <2>2
<1>5. ASSUME Ascending(rows)
      PROVE  Ascending(t)
  <2>1. Ascending(s)
    BY <1>5 DEF AreOf
  <2>2. ASSUME NEW i \in DOMAIN s
        PROVE  s[i].num < r.num
    <3>1. PICK k \in 1..n : s[i] = rows[k]
      BY DEF AreOf
    <3>2. k \in DOMAIN rows /\ k < n + 1
      BY <1>1
    <3> QED
      BY <1>1, <1>5, <3>1, <3>2 DEF Ascending
  <2>3. ASSUME NEW i \in DOMAIN t, NEW j \in DOMAIN t, i < j
        PROVE  t[i].num < t[j].num
    <3>1. i \in 1..Len(s) /\ t[i] = s[i]
      BY <1>2, <2>3
    <3>2. CASE j = Len(s) + 1
      BY <1>2, <2>2, <3>1, <3>2
    <3>3. CASE j # Len(s) + 1
      <4>1. j \in 1..Len(s) /\ t[j] = s[j]
        BY <1>2, <3>3
      <4> QED
        BY <1>2, <2>1, <2>3, <3>1, <4>1 DEF Ascending
    <3> QED
      BY <3>2, <3>3
  <2> QED
    BY <2>3 DEF Ascending
<1> QED
  BY <1>2, <1>3, <1>4, <1>5 DEF AreOf

(***************************************************************************)
(* What Only leaves: the rows that are in K, in their order.               *)
(***************************************************************************)
LEMMA OnlyRows ==
    ASSUME NEW S, NEW rows \in Seq(S), NEW K
    PROVE  /\ Only(rows, K) \in Seq(S)
           /\ Range(Only(rows, K)) = Range(rows) \cap K
           /\ Ascending(rows) => Ascending(Only(rows, K))
<1>1. PICK kept : IsKept(kept, rows, K) /\ Only(rows, K) = kept[Len(rows)]
  BY KeptRows
<1> PICK len \in Nat : len = Len(rows) /\ DOMAIN rows = 1..len
  OBVIOUS
<1>2. kept[0] = <<>>
  BY <1>1 DEF IsKept
<1>3. ASSUME NEW n \in 1..len
      PROVE  kept[n] = IF rows[n] \in K THEN Append(kept[n - 1], rows[n]) ELSE kept[n - 1]
  <2>1. n \in 0..Len(rows) /\ n # 0
    OBVIOUS
  <2> QED
    BY <1>1, <2>1 DEF IsKept
<1> DEFINE T == {n \in Nat : n <= len => kept[n] \in Seq(S) /\ AreOf(kept[n], rows, K, n)}
<1>4. 0 \in T
  <2>1. <<>> \in Seq(S) /\ AreOf(<<>>, rows, K, 0)
    BY DEF AreOf, Ascending
  <2> QED
    BY <1>2, <2>1
<1>5. ASSUME NEW n \in Nat, n \in T, n + 1 <= len
      PROVE  kept[n + 1] \in Seq(S) /\ AreOf(kept[n + 1], rows, K, n + 1)
  <2>1. kept[n] \in Seq(S) /\ AreOf(kept[n], rows, K, n) /\ n + 1 \in 1..len
    BY <1>5
  <2>2. (n + 1) - 1 = n
    OBVIOUS
  <2>3. CASE rows[n + 1] \in K
    <3>1. kept[n + 1] = Append(kept[n], rows[n + 1])
      BY <1>3, <2>1, <2>2, <2>3
    <3> QED
      BY <2>1, <2>3, <3>1, KeptGrows
  <2>4. CASE rows[n + 1] \notin K
    <3>1. kept[n + 1] = kept[n]
      BY <1>3, <2>1, <2>2, <2>4
    <3>2. AreOf(kept[n], rows, K, n + 1)
      <4>1. \A k \in 1..n : k \in 1..(n + 1)
        OBVIOUS
      <4>2. \A k \in 1..(n + 1) : k = n + 1 \/ k \in 1..n
        OBVIOUS
      <4> QED
        BY <2>1, <2>4, <4>1, <4>2 DEF AreOf
    <3> QED
      BY <2>1, <3>1, <3>2
  <2> QED
    BY <2>3, <2>4
<1>6. \A n \in Nat : n \in T => n + 1 \in T
  BY <1>5
<1>7. kept[len] \in Seq(S) /\ AreOf(kept[len], rows, K, len)
  <2> HIDE DEF T
  <2>1. len \in T
    BY <1>4, <1>6, Induction
  <2> QED
    BY <2>1 DEF T
<1> PICK s : s = kept[len]
  OBVIOUS
<1>8. ASSUME NEW x \in Range(s)
      PROVE  x \in Range(rows) \cap K
  <2>1. PICK i \in DOMAIN s : x = s[i]
    BY DEF Range
  <2>2. PICK k \in 1..len : s[i] = rows[k] /\ rows[k] \in K
    BY <1>7 DEF AreOf
  <2> QED
    BY <2>1, <2>2 DEF Range
<1>9. ASSUME NEW x \in Range(rows) \cap K
      PROVE  x \in Range(s)
  <2>1. PICK k \in 1..len : x = rows[k]
    BY DEF Range
  <2> QED
    BY <1>7, <2>1 DEF Range, AreOf
<1>10. Range(s) = Range(rows) \cap K
  BY <1>8, <1>9
<1> QED
  BY <1>1, <1>7, <1>10 DEF AreOf
(***************************************************************************)
(* Rows after rows.                                                        *)
(***************************************************************************)
Before(a, b) == \A x \in Range(a), y \in Range(b) : x.num < y.num

(***************************************************************************)
(* Rows in order; two pieces of them joined, the second all after the      *)
(* first, are in order again.                                              *)
(***************************************************************************)
Ordered(rows) == rows \in Seq(RowElement) /\ Ascending(rows)

LEMMA RowsJoined ==
    ASSUME NEW a, NEW b, Ordered(a), Ordered(b), Before(a, b)
    PROVE  Ordered(a \o b) /\ Range(a \o b) = Range(a) \cup Range(b)
<1>0. a \in Seq(RowElement) /\ b \in Seq(RowElement)
  BY DEF Ordered
<1> PICK c : c = a \o b
  OBVIOUS
<1>1. /\ c \in Seq(RowElement) /\ DOMAIN c = 1..(Len(a) + Len(b))
      /\ \A i \in 1..(Len(a) + Len(b)) : c[i] = IF i <= Len(a) THEN a[i] ELSE b[i - Len(a)]
  BY <1>0, Joined
<1>2. /\ Len(a) \in Nat /\ DOMAIN a = 1..Len(a)
      /\ Len(b) \in Nat /\ DOMAIN b = 1..Len(b)
      /\ Ascending(a) /\ Ascending(b)
  BY <1>0 DEF Ordered
<1>3. ASSUME NEW i \in 1..(Len(a) + Len(b))
      PROVE  \/ i \in DOMAIN a /\ c[i] = a[i]
             \/ i - Len(a) \in DOMAIN b /\ i > Len(a) /\ c[i] = b[i - Len(a)]
  BY <1>1, <1>2
<1>4. \A i \in DOMAIN a : i \in DOMAIN c /\ c[i] = a[i]
  BY <1>1, <1>2
<1>5. ASSUME NEW i \in DOMAIN b
      PROVE  Len(a) + i \in DOMAIN c /\ c[Len(a) + i] = b[i]
  <2>1. Len(a) + i \in 1..(Len(a) + Len(b)) /\ ~(Len(a) + i <= Len(a)) /\ (Len(a) + i) - Len(a) = i
    BY <1>2
  <2> QED
    BY <1>1, <2>1
<1>6. \A x \in Range(c) : x \in Range(a) \cup Range(b)
  BY <1>1, <1>3 DEF Range
<1>7. \A x \in Range(a) \cup Range(b) : x \in Range(c)
  BY <1>4, <1>5 DEF Range
<1>8. Ascending(c)
  <2> SUFFICES ASSUME NEW i \in 1..(Len(a) + Len(b)), NEW j \in 1..(Len(a) + Len(b)), i < j
               PROVE  c[i].num < c[j].num
    BY <1>1 DEF Ascending
  <2>1. CASE i \in DOMAIN a /\ c[i] = a[i]
    <3>1. CASE j \in DOMAIN a /\ c[j] = a[j]
      BY <1>2, <2>1, <3>1 DEF Ascending
    <3>2. CASE j - Len(a) \in DOMAIN b /\ c[j] = b[j - Len(a)]
      BY <1>2, <2>1, <3>2 DEF Before, Range
    <3> QED
      BY <1>3, <3>1, <3>2
  <2>2. CASE i - Len(a) \in DOMAIN b /\ i > Len(a) /\ c[i] = b[i - Len(a)]
    <3>1. j - Len(a) \in DOMAIN b /\ c[j] = b[j - Len(a)] /\ i - Len(a) < j - Len(a)
      BY <1>2, <1>3, <2>2
    <3> QED
      BY <1>2, <2>2, <3>1 DEF Ascending
  <2> QED
    BY <1>3, <2>1, <2>2
<1>9. Range(c) = Range(a) \cup Range(b)
  BY <1>6, <1>7
<1> QED
  BY <1>1, <1>8, <1>9 DEF Ordered

LEMMA NumsOfRange == \A rows : Nums(rows) = {r.num : r \in Range(rows)}
BY DEF Nums, Range

LEMMA RangeTyped ==
    ASSUME NEW S, NEW rows \in Seq(S)
    PROVE  Range(rows) \subseteq S
BY DEF Range

LEMMA OnlyOrdered ==
    ASSUME NEW rows, Ordered(rows), NEW K
    PROVE  Ordered(Only(rows, K)) /\ Range(Only(rows, K)) = Range(rows) \cap K
BY OnlyRows DEF Ordered

LEMMA OneRow ==
    ASSUME NEW row \in RowElement
    PROVE  Ordered(<<row>>) /\ Range(<<row>>) = {row}
<1> PICK one : one = <<row>>
  OBVIOUS
<1>1. one \in Seq(RowElement) /\ DOMAIN one = {1} /\ one[1] = row
  OBVIOUS
<1>2. Ascending(one)
  BY <1>1 DEF Ascending
<1>3. Range(one) = {row}
  BY <1>1 DEF Range
<1> QED
  BY <1>1, <1>2, <1>3 DEF Ordered

(***************************************************************************)
(* A row that is added leaves the rows in order.                           *)
(***************************************************************************)
LEMMA RowAdded ==
    ASSUME NEW rows, Ordered(rows), NEW num \in Nat
    PROVE  Ordered(AddRow(rows, num)) /\ Nums(AddRow(rows, num)) = Nums(rows) \cup {num}
<1>1. CASE num \in Nums(rows)
  BY <1>1 DEF AddRow
<1>2. CASE num \notin Nums(rows)
  <2> PICK row : row = [num |-> num, new |-> TRUE, id |-> num, beside |-> FALSE]
    OBVIOUS
  <2> PICK up : up = UpTo(rows, num)
    OBVIOUS
  <2> PICK after : after = After(rows, num)
    OBVIOUS
  <2>1. row \in RowElement /\ row.num = num
    BY DEF RowElement
  <2> PICK one : one = <<row>>
    OBVIOUS
  <2>2. Ordered(one) /\ Range(one) = {row}
    BY <2>1, OneRow
  <2>3. \A r \in Range(rows) : r.num \in Nat /\ r.num # num
    <3>1. Range(rows) \subseteq RowElement
      BY RangeTyped DEF Ordered
    <3>2. \A r \in Range(rows) : r.num # num
      BY <1>2, NumsOfRange
    <3> QED
      BY <3>1, <3>2 DEF RowElement
  <2>4. Ordered(up) /\ Range(up) = {r \in Range(rows) : r.num <= num}
    BY OnlyOrdered DEF UpTo
  <2>5. Ordered(after) /\ Range(after) = {r \in Range(rows) : r.num > num}
    BY OnlyOrdered DEF After
  <2>6. Before(up, one)
    <3>1. \A x \in Range(up) : x.num < row.num
      BY <2>1, <2>3, <2>4
    <3> QED
      BY <2>2, <3>1 DEF Before
  <2> PICK most : most = up \o one
    OBVIOUS
  <2>7. Ordered(most) /\ Range(most) = Range(up) \cup {row}
    <3>1. Ordered(up \o one) /\ Range(up \o one) = Range(up) \cup Range(one)
      BY ONLY <2>2, <2>4, <2>6, RowsJoined
    <3> QED
      BY <2>2, <3>1
  <2>8. Before(most, after)
    <3>1. \A x \in Range(most) : x.num <= num
      BY <2>1, <2>4, <2>7
    <3>2. \A x \in Range(most) : x.num \in Nat
      BY <2>1, <2>3, <2>4, <2>7
    <3>3. \A y \in Range(after) : y.num \in Nat /\ y.num > num
      BY <2>3, <2>5
    <3>4. ASSUME NEW x \in Range(most), NEW y \in Range(after)
          PROVE  x.num < y.num
      <4>1. PICK i \in Nat : i = x.num
        BY <3>2
      <4>2. PICK k \in Nat : k = y.num
        BY <3>3
      <4>3. i <= num /\ k > num
        BY <3>1, <3>3, <4>1, <4>2
      <4> QED
        BY <4>1, <4>2, <4>3
    <3> QED
      BY <3>4 DEF Before
  <2>9. Ordered(most \o after) /\ Range(most \o after) = Range(most) \cup Range(after)
    BY <2>5, <2>7, <2>8, RowsJoined
  <2>10. AddRow(rows, num) = most \o after
    BY <1>2 DEF AddRow
  <2>11. Range(most \o after) = Range(rows) \cup {row}
    <3>1. \A r \in Range(rows) : r.num <= num \/ r.num > num
      BY <2>3
    <3> QED
      BY <2>4, <2>5, <2>7, <2>9, <3>1
  <2>12. Nums(most \o after) = Nums(rows) \cup {num}
    BY <2>1, <2>11, NumsOfRange
  <2> QED
    BY <2>9, <2>10, <2>12
<1> QED
  BY <1>1, <1>2
Shifted(r, delta) == [r EXCEPT !.num = @ + delta]

LEMMA ShiftedRow ==
    ASSUME NEW r \in RowElement, NEW delta \in Int, r.num + delta \in Nat
    PROVE  /\ Shifted(r, delta) \in RowElement /\ r.num \in Nat
           /\ Shifted(r, delta).num = r.num + delta /\ Shifted(r, delta).new = r.new
BY DEF Shifted, RowElement

LEMMA MovedRows ==
    ASSUME NEW rows, Ordered(rows), NEW delta \in Int,
           \A r \in Range(rows) : r.num + delta \in Nat
    PROVE  /\ Ordered(Moved(rows, delta))
           /\ Range(Moved(rows, delta)) = {Shifted(r, delta) : r \in Range(rows)}
<1> PICK m : m = Moved(rows, delta)
  OBVIOUS
<1>1. rows \in Seq(RowElement) /\ Ascending(rows)
  BY DEF Ordered
<1> PICK len \in Nat : DOMAIN rows = 1..len
  BY <1>1
<1>2. DOMAIN m = 1..len /\ \A i \in 1..len : m[i] = Shifted(rows[i], delta)
  BY DEF Moved, Shifted
<1>3. ASSUME NEW i \in 1..len
      PROVE  m[i] \in RowElement /\ m[i].num = rows[i].num + delta /\ rows[i].num \in Nat
  <2>1. rows[i] \in RowElement /\ rows[i].num + delta \in Nat
    BY <1>1 DEF Range
  <2> QED
    BY <1>2, <2>1, ShiftedRow
<1>4. m \in Seq(RowElement)
  <2>1. m = [i \in 1..len |-> m[i]]
    BY DEF Moved
  <2>2. \A i \in 1..len : m[i] \in RowElement
    BY <1>3
  <2> QED
    BY <2>1, <2>2
<1>5. ASSUME NEW i \in 1..len, NEW j \in 1..len, i < j
      PROVE  m[i].num < m[j].num
  <2>1. rows[i].num < rows[j].num
    BY <1>1, <1>5 DEF Ascending
  <2>2. PICK a \in Nat : a = rows[i].num
    BY <1>3
  <2>3. PICK b \in Nat : b = rows[j].num
    BY <1>3
  <2>4. m[i].num = a + delta /\ m[j].num = b + delta
    BY <1>3, <2>2, <2>3
  <2> QED
    BY <2>1, <2>2, <2>3, <2>4
<1>6. Ascending(m)
  BY <1>2, <1>5 DEF Ascending
<1>7. Range(m) = {Shifted(r, delta) : r \in Range(rows)}
  BY <1>2 DEF Range
<1> QED
  BY <1>4, <1>6, <1>7 DEF Ordered

LEMMA NewRowsOrdered ==
    ASSUME NEW header \in Nat, NEW n \in Nat
    PROVE  /\ Ordered(NewRows(header, n))
           /\ \A r \in Range(NewRows(header, n)) :
                 r.new /\ r.num \in Nat /\ header < r.num /\ r.num <= header + n
<1> PICK m : m = NewRows(header, n)
  OBVIOUS
<1>1. /\ DOMAIN m = 1..n
      /\ \A i \in 1..n : m[i] = [num |-> header + i, new |-> TRUE, id |-> i, beside |-> FALSE]
  BY DEF NewRows
<1>2. ASSUME NEW i \in 1..n
      PROVE  /\ m[i] \in RowElement /\ m[i].num = header + i /\ m[i].new
             /\ m[i].num \in Nat /\ header < m[i].num /\ m[i].num <= header + n
  <2>1. PICK k \in Nat : k = header + i /\ header < k /\ k <= header + n
    OBVIOUS
  <2>2. i \in Nat
    OBVIOUS
  <2>3. m[i] = [num |-> k, new |-> TRUE, id |-> i, beside |-> FALSE]
    BY <1>1, <2>1
  <2>4. m[i] \in RowElement /\ m[i].num = k /\ m[i].new
    BY <2>2, <2>3 DEF RowElement
  <2> QED
    BY <2>1, <2>4
<1>3. m \in Seq(RowElement)
  <2>1. m = [i \in 1..n |-> m[i]]
    BY DEF NewRows
  <2> QED
    BY <1>2, <2>1
<1>4. Ascending(m)
  <2>1. ASSUME NEW i \in 1..n, NEW j \in 1..n, i < j
        PROVE  m[i].num < m[j].num
    <3>1. m[i].num = header + i /\ m[j].num = header + j
      BY <1>2
    <3> QED
      BY <2>1, <3>1
  <2> QED
    BY <1>1, <2>1 DEF Ascending
<1>6. \A r \in Range(m) : r.new /\ r.num \in Nat /\ header < r.num /\ r.num <= header + n
  <2>1. \A r \in Range(m) : \E i \in 1..n : r = m[i]
    BY <1>1 DEF Range
  <2> QED
    BY <1>2, <2>1
<1> QED
  BY <1>3, <1>4, <1>6 DEF Ordered

(***************************************************************************)
(* The four pieces of a table's rows, in order.                            *)
(***************************************************************************)
ArePieces(a, b, c, d, header, n, totals) ==
    /\ header \in Nat /\ n \in Nat /\ totals \in Nat
    /\ Ordered(a) /\ \A r \in Range(a) : r.num \in Nat /\ r.num <= header
    /\ Ordered(b)
    /\ \A r \in Range(b) : r.num \in Nat /\ header < r.num /\ r.num <= header + n
    /\ Ordered(c) /\ \A r \in Range(c) : r.num = header + n + 1 /\ totals = 1
    /\ Ordered(d) /\ \A r \in Range(d) : r.num \in Nat /\ header + n + totals < r.num

LEMMA PiecesJoined ==
    ASSUME NEW a, NEW b, NEW c, NEW d, NEW header, NEW n, NEW totals,
           ArePieces(a, b, c, d, header, n, totals)
    PROVE  /\ Ordered(a \o b \o c \o d)
           /\ Range(a \o b \o c \o d) = Range(a) \cup Range(b) \cup Range(c) \cup Range(d)
<1> USE DEF ArePieces
<1>1. Before(a, b)
  BY DEF Before
<1>2. PICK ab : ab = a \o b /\ Ordered(ab) /\ Range(ab) = Range(a) \cup Range(b)
  BY <1>1, RowsJoined
<1>3. \A r \in Range(ab) : r.num \in Nat /\ r.num <= header + n
  BY <1>2
<1>4. Before(ab, c)
  BY <1>3 DEF Before
<1>5. PICK abc : abc = ab \o c /\ Ordered(abc) /\ Range(abc) = Range(ab) \cup Range(c)
  BY <1>2, <1>4, RowsJoined
<1>6. \A r \in Range(abc) : r.num \in Nat /\ r.num <= header + n + totals
  BY <1>3, <1>5
<1>7. Before(abc, d)
  BY <1>6 DEF Before
<1>8. Ordered(abc \o d) /\ Range(abc \o d) = Range(abc) \cup Range(d)
  BY <1>5, <1>7, RowsJoined
<1> QED
  BY <1>2, <1>5, <1>8


LEMMA RowsTyped ==
    ASSUME NEW rows, Ordered(rows)
    PROVE  \A r \in Range(rows) : r \in RowElement /\ r.num \in Nat
<1>1. Range(rows) \subseteq RowElement
  BY RangeTyped DEF Ordered
<1> QED
  BY <1>1 DEF RowElement

LEMMA MovedPiece ==
    ASSUME NEW rows, Ordered(rows), NEW delta \in Int, NEW least \in Nat, least + delta \in Nat,
           NEW K, \A r \in K : r \in Range(rows) => ~r.new /\ r.num >= least
    PROVE  LET piece == Moved(Only(rows, K), delta)
           IN /\ Ordered(piece)
              /\ Range(piece) = {Shifted(r, delta) : r \in Range(rows) \cap K}
              /\ \A r \in Range(rows) \cap K :
                    /\ Shifted(r, delta).num \in Nat /\ ~Shifted(r, delta).new
                    /\ Shifted(r, delta).num = r.num + delta
<1> PICK only : only = Only(rows, K)
  OBVIOUS
<1>1. Ordered(only) /\ Range(only) = Range(rows) \cap K
  BY OnlyOrdered
<1>2. ASSUME NEW r \in Range(rows) \cap K
      PROVE  r \in RowElement /\ r.num + delta \in Nat
  <2>1. r \in RowElement /\ r.num \in Nat /\ r.num >= least
    BY RowsTyped
  <2> QED
    BY <2>1
<1>3. /\ Ordered(Moved(only, delta))
      /\ Range(Moved(only, delta)) = {Shifted(r, delta) : r \in Range(only)}
  BY <1>1, <1>2, MovedRows
<1>4. ASSUME NEW r \in Range(rows) \cap K
      PROVE  /\ Shifted(r, delta).num \in Nat /\ ~Shifted(r, delta).new
             /\ Shifted(r, delta).num = r.num + delta
  BY <1>2, ShiftedRow
<1> QED
  BY <1>1, <1>3, <1>4

NewTable(rows, header, totals, last, n, delta) ==
    UpTo(rows, header) \o NewRows(header, n)
        \o Moved(IF totals > 0 THEN At(rows, last - totals + 1) ELSE <<>>, delta)
        \o Moved(After(rows, last), delta)

IsTable(rows, header, totals, last, n, delta) ==
    /\ Ordered(rows) /\ \A r \in Range(rows) : ~r.new
    /\ header \in Nat /\ totals \in {0, 1} /\ last \in Nat /\ header + totals <= last
    /\ n \in Nat /\ delta \in Int /\ last + delta = header + n + totals

LEMMA NewTableRows ==
    ASSUME NEW rows, NEW header, NEW totals, NEW last, NEW n, NEW delta,
           IsTable(rows, header, totals, last, n, delta)
    PROVE  LET all == NewTable(rows, header, totals, last, n, delta)
               Place(r) == IF r.num <= header THEN r.num
                           ELSE r.num - last + (header + n + totals)
           IN /\ Ordered(all)
              /\ {r \in Range(all) : r.new} = Range(NewRows(header, n))
              /\ {r \in Range(all) : ~r.new} =
                    {[r EXCEPT !.num = Place(r)] :
                        r \in {s \in Range(rows) : s.num <= header \/ s.num > last - totals}}
<1> USE DEF IsTable
<1>1. PICK a : a = UpTo(rows, header)
  OBVIOUS
<1>2. PICK b : b = NewRows(header, n)
  OBVIOUS
<1>3. PICK c : c = Moved(IF totals > 0 THEN At(rows, last - totals + 1) ELSE <<>>, delta)
  OBVIOUS
<1>4. PICK d : d = Moved(After(rows, last), delta)
  OBVIOUS
<1>5. \A r \in Range(rows) : r \in RowElement /\ r.num \in Nat /\ ~r.new
  BY RowsTyped
<1>6. Ordered(a) /\ Range(a) = {r \in Range(rows) : r.num <= header}
  BY <1>1, OnlyOrdered DEF UpTo
<1>7. /\ Ordered(b)
      /\ \A r \in Range(b) : r.new /\ r.num \in Nat /\ header < r.num /\ r.num <= header + n
  BY <1>2, NewRowsOrdered
<1>8. /\ Ordered(d)
      /\ Range(d) = {Shifted(r, delta) : r \in {s \in Range(rows) : s.num > last}}
      /\ \A r \in {s \in Range(rows) : s.num > last} :
            /\ Shifted(r, delta).num \in Nat /\ ~Shifted(r, delta).new
            /\ Shifted(r, delta).num = r.num + delta
  <2>1. PICK K : K = {s \in Range(rows) : s.num > last}
    OBVIOUS
  <2>2. \A r \in K : r \in Range(rows) => ~r.new /\ r.num >= last
    BY <1>5, <2>1
  <2>3. Range(rows) \cap K = K
    BY <2>1
  <2>4. last + delta \in Nat
    OBVIOUS
  <2>5. d = Moved(Only(rows, K), delta)
    BY <1>4, <2>1 DEF After
  <2> QED
    BY <2>1, <2>2, <2>3, <2>4, <2>5, MovedPiece
<1>9. /\ Ordered(c)
      /\ Range(c) = {Shifted(r, delta) : r \in {s \in Range(rows) : s.num = last /\ totals = 1}}
      /\ \A r \in {s \in Range(rows) : s.num = last /\ totals = 1} :
            /\ Shifted(r, delta).num \in Nat /\ ~Shifted(r, delta).new
            /\ Shifted(r, delta).num = r.num + delta
  <2>1. CASE totals = 1
    <3>1. PICK K : K = {s \in Range(rows) : s.num = last}
      OBVIOUS
    <3>2. \A r \in K : r \in Range(rows) => ~r.new /\ r.num >= last
      BY <1>5, <3>1
    <3>3. Range(rows) \cap K = K /\ K = {s \in Range(rows) : s.num = last /\ totals = 1}
      BY <2>1, <3>1
    <3>4. last + delta \in Nat
      OBVIOUS
    <3>5. c = Moved(Only(rows, K), delta)
      <4>1. last - totals + 1 = last /\ totals > 0
        BY <2>1
      <4> QED
        BY <1>3, <3>1, <4>1 DEF At
    <3> QED
      BY <3>2, <3>3, <3>4, <3>5, MovedPiece
  <2>2. CASE totals = 0
    <3>1. c = Moved(<<>>, delta)
      BY <1>3, <2>2
    <3>2. <<>> \in Seq(RowElement) /\ Ascending(<<>>) /\ Range(<<>>) = {}
      BY DEF Ascending, Range
    <3>3. Ordered(<<>>) /\ \A r \in Range(<<>>) : r.num + delta \in Nat
      BY <3>2 DEF Ordered
    <3>4. Ordered(c) /\ Range(c) = {Shifted(r, delta) : r \in Range(<<>>)}
      BY <3>1, <3>3, MovedRows
    <3> QED
      BY <2>2, <3>2, <3>4
  <2> QED
    BY <2>1, <2>2
<1>10. PICK all : all = a \o b \o c \o d /\ all = NewTable(rows, header, totals, last, n, delta)
  BY <1>1, <1>2, <1>3, <1>4 DEF NewTable
<1>11. Ordered(all) /\ Range(all) = Range(a) \cup Range(b) \cup Range(c) \cup Range(d)
  <2>1. \A r \in Range(a) : r.num \in Nat /\ r.num <= header
    BY <1>5, <1>6
  <2>2. \A r \in Range(c) : r.num = header + n + 1 /\ totals = 1
    BY <1>9
  <2>3. ASSUME NEW r \in Range(d)
        PROVE  r.num \in Nat /\ header + n + totals < r.num
    <3>1. PICK s \in Range(rows) : s.num > last /\ r = Shifted(s, delta)
      BY <1>8
    <3>2. r.num = s.num + delta /\ s.num \in Nat /\ r.num \in Nat
      BY <1>5, <1>8, <3>1
    <3> QED
      BY <3>1, <3>2
  <2>4. \A r \in Range(b) : r.num \in Nat /\ header < r.num /\ r.num <= header + n
    BY <1>7
  <2>5. Ordered(a) /\ Ordered(b) /\ Ordered(c) /\ Ordered(d)
    BY <1>6, <1>7, <1>8, <1>9
  <2>6. ArePieces(a, b, c, d, header, n, totals)
    BY <2>1, <2>2, <2>3, <2>4, <2>5 DEF ArePieces
  <2>7. /\ Ordered(a \o b \o c \o d)
        /\ Range(a \o b \o c \o d) = Range(a) \cup Range(b) \cup Range(c) \cup Range(d)
    BY <2>6, PiecesJoined
  <2> QED
    BY <1>10, <2>7
<1>12. /\ \A r \in Range(a) : ~r.new
       /\ \A r \in Range(b) : r.new
       /\ \A r \in Range(c) \cup Range(d) : ~r.new
  BY <1>5, <1>6, <1>7, <1>8, <1>9
<1>13. /\ {r \in Range(all) : r.new} = Range(b)
       /\ {r \in Range(all) : ~r.new} = Range(a) \cup Range(c) \cup Range(d)
  BY <1>11, <1>12
<1> DEFINE Place(r) == IF r.num <= header THEN r.num ELSE r.num - last + (header + n + totals)
           others == {s \in Range(rows) : s.num <= header \/ s.num > last - totals}
<1>14. ASSUME NEW r \in Range(rows), r.num <= header
       PROVE  [r EXCEPT !.num = Place(r)] = r
  BY <1>5, <1>14 DEF RowElement
<1>15. ASSUME NEW r \in Range(rows), ~(r.num <= header)
       PROVE  [r EXCEPT !.num = Place(r)] = Shifted(r, delta)
  <2>1. r.num \in Nat
    BY <1>5
  <2>2. \A k \in Nat : k - last + (header + n + totals) = k + delta
    OBVIOUS
  <2>3. Place(r) = r.num + delta
    BY <1>15, <2>1, <2>2
  <2> HIDE DEF Place
  <2> QED
    BY <2>3 DEF Shifted
<1>16. ASSUME NEW r \in Range(rows)
       PROVE  /\ r.num > last => ~(r.num <= header)
              /\ totals = 1 /\ r.num = last => ~(r.num <= header)
              /\ r.num > last - totals <=> (r.num > last \/ (totals = 1 /\ r.num = last))
  <2>1. \A k \in Nat : /\ k > last => ~(k <= header)
                       /\ totals = 1 /\ k = last => ~(k <= header)
                       /\ k > last - totals <=> (k > last \/ (totals = 1 /\ k = last))
    OBVIOUS
  <2>2. r.num \in Nat
    BY <1>5
  <2> QED
    BY <2>1, <2>2
<1> HIDE DEF Place
<1>17. {[r EXCEPT !.num = Place(r)] : r \in others} = Range(a) \cup Range(c) \cup Range(d)
  <2>1. ASSUME NEW r \in others
        PROVE  [r EXCEPT !.num = Place(r)] \in Range(a) \cup Range(c) \cup Range(d)
    <3>1. CASE r.num <= header
      BY <1>6, <1>14, <3>1
    <3>2. CASE ~(r.num <= header)
      <4>1. r \in Range(rows) /\ (r.num > last \/ (totals = 1 /\ r.num = last))
        BY <1>16, <3>2
      <4>2. [r EXCEPT !.num = Place(r)] = Shifted(r, delta)
        BY <1>15, <3>2, <4>1
      <4> QED
        BY <1>8, <1>9, <4>1, <4>2
    <3> QED
      BY <3>1, <3>2
  <2>2. ASSUME NEW x \in Range(a)
        PROVE  \E r \in others : x = [r EXCEPT !.num = Place(r)]
    BY <1>6, <1>14
  <2>3. ASSUME NEW x \in Range(c) \cup Range(d)
        PROVE  \E r \in others : x = [r EXCEPT !.num = Place(r)]
    <3>1. PICK r \in Range(rows) :
             (r.num > last \/ (totals = 1 /\ r.num = last)) /\ x = Shifted(r, delta)
      BY <1>8, <1>9
    <3>2. r \in others /\ ~(r.num <= header)
      BY <1>16, <3>1
    <3> QED
      BY <1>15, <3>1, <3>2
  <2> QED
    BY <2>1, <2>2, <2>3
<1> QED
  BY <1>2, <1>10, <1>11, <1>13, <1>17 DEF Place
AsSaved(s) ==
    /\ s \in Sheet
    /\ Ascending(s.rows) /\ \A r \in Range(s.rows) : ~r.new
    /\ s.header + s.totals <= s.last

LEMMA RowsReplaced ==
    ASSUME NEW s, AsSaved(s), NEW n \in Nat
    PROVE  LET is == replace_detail_rows(s, n)
           IN /\ is \in Sheet /\ TableFits(s, is, n)
              /\ is.tables = s.tables /\ is.header = s.header /\ is.totals = s.totals
<1>1. /\ s.rows \in Seq(RowElement) /\ s.header \in Nat /\ s.totals \in {0, 1} /\ s.last \in Nat
      /\ s.header + s.totals <= s.last
  BY DEF AsSaved, Sheet
<1>2. Ordered(s.rows) /\ \A r \in Range(s.rows) : ~r.new
  BY <1>1 DEF Ordered, AsSaved
<1>3. PICK delta : delta = n - (s.last - s.totals - s.header)
  OBVIOUS
<1>4. delta \in Int /\ s.last + delta = s.header + n + s.totals
  <2>1. s.header \in Nat /\ s.totals \in {0, 1} /\ s.last \in Nat
    BY <1>1
  <2> QED
    BY ONLY <2>1, <1>3, n \in Nat
<1>5. PICK all : all = NewTable(s.rows, s.header, s.totals, s.last, n, delta)
  OBVIOUS
<1>6. PICK is : is = replace_detail_rows(s, n)
  OBVIOUS
<1>7. is = [s EXCEPT !.rows = all, !.last = s.header + n + s.totals,
                     !.filter = IF @ = 0 THEN 0 ELSE s.header + n]
  BY <1>3, <1>5, <1>6 DEF replace_detail_rows, TrailingRows, NewTable
<1>a. IsTable(s.rows, s.header, s.totals, s.last, n, delta)
  BY <1>1, <1>2, <1>4 DEF IsTable
<1>8. /\ Ordered(all)
      /\ {r \in Range(all) : r.new} = Range(NewRows(s.header, n))
      /\ {r \in Range(all) : ~r.new} =
            {[r EXCEPT !.num = IF r.num <= s.header THEN r.num
                               ELSE r.num - s.last + (s.header + n + s.totals)] :
                r \in {t \in Range(s.rows) : t.num <= s.header \/ t.num > s.last - s.totals}}
  BY <1>5, <1>a, NewTableRows
<1>9. all \in Seq(RowElement) /\ Ascending(all)
  BY <1>8 DEF Ordered
<1>10. s.header + n + s.totals \in Nat /\ s.header + n \in Nat
  BY <1>1
<1>11. /\ is \in Sheet /\ is.rows = all /\ is.last = s.header + n + s.totals
       /\ is.filter \in {0, s.header + n}
       /\ is.tables = s.tables /\ is.header = s.header /\ is.totals = s.totals
  BY <1>7, <1>9, <1>10 DEF AsSaved, Sheet
<1>12. is.filter \in {0, is.last - is.totals}
  BY <1>1, <1>11
<1>13. TableFits(s, is, n)
  BY <1>8, <1>9, <1>11, <1>12 DEF TableFits
<1> QED
  BY <1>6, <1>11, <1>13

(***************************************************************************)
(* A block of fixed cells: its rows are there, and those there were.       *)
(***************************************************************************)
Fills(f, rows, nums) ==
    f = [n \in 0..Max(nums) |->
            IF n = 0 THEN rows ELSE IF n \in nums THEN AddRow(f[n - 1], n) ELSE f[n - 1]]

LEMMA BlockFilled ==
    ASSUME NEW rows, Ordered(rows), NEW nums, NEW m \in Nat, Max(nums) = m
    PROVE  \E filled : /\ Fills(filled, rows, nums)
                       /\ \A s : s.rows = rows =>
                             WriteBlock(s, nums) = [s EXCEPT !.rows = filled[m]]
<1> DEFINE A == {r \in Seq(RowElement) : Ordered(r)}
           step == [x \in (1..m) \X A |-> IF x[1] \in nums THEN AddRow(x[2], x[1]) ELSE x[2]]
<1>1. ASSUME NEW n \in 1..m, NEW r \in A
      PROVE  (IF n \in nums THEN AddRow(r, n) ELSE r) \in A
  <2>1. n \in Nat /\ Ordered(r)
    OBVIOUS
  <2>2. Ordered(AddRow(r, n))
    BY <2>1, RowAdded
  <2> QED
    BY <2>2 DEF Ordered
<1>2. IsStep(step, m, A)
  BY <1>1 DEF IsStep
<1>3. \A n \in 1..m, r \in A :
         step[<<n, r>>] = IF n \in nums THEN AddRow(r, n) ELSE r
  OBVIOUS
<1>4. rows \in A
  BY DEF Ordered
<1> HIDE DEF A, step
<1>5. PICK f : Unfolds(f, m, A, rows, step)
  BY <1>2, <1>4, Recursion
<1>6. ASSUME NEW n \in 0..m, n # 0
      PROVE  f[n] = IF n \in nums THEN AddRow(f[n - 1], n) ELSE f[n - 1]
  <2>1. n \in 1..m /\ n - 1 \in 0..m
    BY <1>6
  <2>2. f[n] = step[<<n, f[n - 1]>>] /\ f[n - 1] \in A
    BY <1>5, <2>1 DEF Unfolds
  <2> QED
    BY <1>3, <2>1, <2>2
<1>7. Fills(f, rows, nums)
  BY <1>5, <1>6, Zenon DEF Fills, Unfolds
<1> DEFINE filled == CHOOSE g : Fills(g, rows, nums)
<1>8. Fills(filled, rows, nums)
  BY <1>7
<1>9. ASSUME NEW s, s.rows = rows
      PROVE  WriteBlock(s, nums) = [s EXCEPT !.rows = filled[m]]
  BY <1>9 DEF WriteBlock, Fills
<1> HIDE DEF filled
<1> QED
  BY <1>8, <1>9

LEMMA BlockWritten ==
    ASSUME NEW s \in Sheet, Ascending(s.rows), NEW b \in DOMAIN Blocks
    PROVE  LET is == WriteBlock(s, Blocks[b])
           IN /\ is \in Sheet /\ Ascending(is.rows) /\ is = [s EXCEPT !.rows = is.rows]
              /\ Nums(s.rows) \cup Blocks[b] \subseteq Nums(is.rows)
<1>1. PICK nums : nums = Blocks[b]
  OBVIOUS
<1>2. PICK m \in Nat : m \in nums /\ \A n \in nums : n \in Nat /\ 0 < n /\ n <= m
  <2>1. nums \subseteq Nat
    BY <1>1, BlocksAreRows
  <2>2. PICK m \in nums : \A n \in nums : 0 < n /\ n <= m
    BY <1>1, BlocksAreRows
  <2> QED
    BY <2>1, <2>2
<1>3. Max(nums) = m
  <2>1. m \in nums /\ \A n \in nums : m >= n
    BY <1>2
  <2>2. Max(nums) \in nums /\ \A n \in nums : Max(nums) >= n
    BY <2>1 DEF Max
  <2>3. PICK k : k = Max(nums)
    OBVIOUS
  <2>4. k \in Nat /\ k <= m /\ k >= m
    BY <1>2, <2>2, <2>3
  <2> QED
    BY <2>3, <2>4
<1>4. PICK rows : rows = s.rows
  OBVIOUS
<1>5. Ordered(rows)
  BY <1>4 DEF Ordered, Sheet
<1>6. PICK filled : /\ Fills(filled, rows, nums)
                    /\ WriteBlock(s, nums) = [s EXCEPT !.rows = filled[m]]
  BY <1>3, <1>4, <1>5, BlockFilled
<1>7. filled[0] = rows
  BY <1>3, <1>6 DEF Fills
<1>8. ASSUME NEW n \in Nat, n + 1 <= m
      PROVE  filled[n + 1] = IF n + 1 \in nums THEN AddRow(filled[n], n + 1) ELSE filled[n]
  <2>1. n + 1 \in 0..m /\ n + 1 # 0 /\ (n + 1) - 1 = n
    BY <1>8
  <2> QED
    BY <1>3, <1>6, <2>1 DEF Fills
<1> DEFINE Good(n) == /\ Ordered(filled[n]) /\ Nums(rows) \subseteq Nums(filled[n])
                      /\ \A k \in nums : k <= n => k \in Nums(filled[n])
           T == {n \in Nat : n <= m => Good(n)}
<1>9. 0 \in T
  BY <1>2, <1>5, <1>7
<1>10. ASSUME NEW n \in Nat, n \in T, n + 1 <= m
       PROVE  Good(n + 1)
  <2>1. Good(n) /\ n + 1 \in Nat
    BY <1>10
  <2>2. \A k \in nums : k <= n + 1 => k = n + 1 \/ k <= n
    BY <1>2
  <2>3. CASE n + 1 \in nums
    <3>1. filled[n + 1] = AddRow(filled[n], n + 1)
      BY <1>8, <1>10, <2>3
    <3>2. /\ Ordered(AddRow(filled[n], n + 1))
          /\ Nums(AddRow(filled[n], n + 1)) = Nums(filled[n]) \cup {n + 1}
      BY <2>1, RowAdded
    <3> QED
      BY <2>1, <2>2, <3>1, <3>2
  <2>4. CASE n + 1 \notin nums
    <3>1. filled[n + 1] = filled[n]
      BY <1>8, <1>10, <2>4
    <3> QED
      BY <2>1, <2>2, <2>4, <3>1
  <2> QED
    BY <2>3, <2>4
<1> HIDE DEF Good
<1>11. \A n \in Nat : n \in T => n + 1 \in T
  BY <1>10
<1>12. Good(m)
  <2> HIDE DEF T
  <2>1. m \in T
    BY <1>9, <1>11, Induction
  <2> QED
    BY <2>1 DEF T
<1>13. PICK is : is = WriteBlock(s, nums)
  OBVIOUS
<1>14. is = [s EXCEPT !.rows = filled[m]] /\ Ordered(filled[m])
  BY <1>6, <1>12, <1>13 DEF Good
<1>15. is \in Sheet /\ is.rows = filled[m]
  BY <1>14 DEF Ordered, Sheet
<1>16. Nums(rows) \cup nums \subseteq Nums(is.rows)
  BY <1>2, <1>12, <1>15 DEF Good
<1> QED
  BY <1>1, <1>4, <1>13, <1>14, <1>15, <1>16 DEF Ordered

-----------------------------------------------------------------------------
(* The workbook as a whole *)

(***************************************************************************)
(* A builder's last four calls, from the end, and the number of them left  *)
(* when the rows are due; a coin ledger's blocks come before.              *)
(***************************************************************************)
LastCalls(kind) ==
    IF kind = "ad revenue" THEN <<"save", "rows", "summary", "recalculate">>
    ELSE <<"save", "recalculate", "names", "rows">>

(***************************************************************************)
(* The calls before those, how many calls are left when the rows are due,  *)
(* and what a plan looks like when some of its calls are done.             *)
(***************************************************************************)
CallsBefore(kind) == IF kind = "coin ledger" THEN Len(Blocks) ELSE 0

RowsLeft == IF report = "ad revenue" THEN 2 ELSE 4

Follows(calls, kind) ==
    /\ calls \in Seq(Calls)
    /\ Len(calls) <= CallsBefore(kind) + 4
    /\ \A i \in 1..Len(calls) :
          calls[i] = IF Len(calls) + 1 - i <= 4 THEN LastCalls(kind)[Len(calls) + 1 - i]
                     ELSE "block"

(***************************************************************************)
(* Editing leaves the package one, with the template's sheets.             *)
(***************************************************************************)
StaysPackage ==
    /\ IsPackage(package)
    /\ package.parts \subseteq template.parts
    /\ package.connections \subseteq template.connections
    /\ DOMAIN package.sheets = DOMAIN template.sheets

(***************************************************************************)
(* The sheets to be written are the template's, and never the ledger's.    *)
(***************************************************************************)
WritesTables ==
    /\ todo \cup DOMAIN written \subseteq DOMAIN template.sheets
    /\ \A name \in DOMAIN written : written[name] \in Nat
    /\ report = "coin ledger" => Ledger \notin todo \cup DOMAIN written

(***************************************************************************)
(* Until its rows are written a sheet is the template's; from then on its  *)
(* table fits, and once the names were synchronised no rows change.        *)
(***************************************************************************)
UnwrittenAreTemplates ==
    Len(plan) >= RowsLeft => \A name \in todo : package.sheets[name] = template.sheets[name]

(***************************************************************************)
(* A sheet that was written has its table where the template's was, as     *)
(* long as the rows written.                                               *)
(***************************************************************************)
Fits(was, is, n) ==
    TableFits(was, is, n) /\ is.header = was.header /\ is.totals = was.totals

WrittenFit ==
    \A name \in DOMAIN written :
        Fits(template.sheets[name], package.sheets[name], DataRows(report, written[name]))

(***************************************************************************)
(* Once the names are synchronised each covers its table.                  *)
(***************************************************************************)
Named(s) == s.tables = 1 => s.name \in {0, s.filter, s.last}

NamesFollow ==
    report # "ad revenue" /\ Len(plan) < 3 =>
        \A name \in DOMAIN package.sheets : Named(package.sheets[name])

(***************************************************************************)
(* The ledger's rows are in order, and those of the blocks done are there. *)
(***************************************************************************)
LedgerHasBlocks ==
    report = "coin ledger" =>
        /\ Ledger \in DOMAIN package.sheets => Ascending(package.sheets[Ledger].rows)
        /\ \A b \in DOMAIN Blocks :
              b <= Len(Blocks) + 4 - Len(plan) =>
                  Ledger \in DOMAIN package.sheets
                  /\ Blocks[b] \subseteq Nums(package.sheets[Ledger].rows)

SheetsFollow == UnwrittenAreTemplates /\ WrittenFit /\ NamesFollow /\ LedgerHasBlocks

(***************************************************************************)
(* All of it.                                                              *)
(***************************************************************************)
RowsInv ==
    /\ template = <<>> => report = "none"
    /\ template # <<>> => report \in Reports /\ StaysPackage /\ WritesTables
    /\ plan # <<>> => Follows(plan, report)
    /\ plan # <<>> \/ saved => SheetsFollow

(***************************************************************************)
(* The blocks are counted, and so are the rows of a table.                 *)
(***************************************************************************)
LEMMA BlocksCounted == Len(Blocks) \in Nat /\ \A b \in DOMAIN Blocks : b \in 1..Len(Blocks)
BY BlocksAreRows

LEMMA RowsCounted ==
    ASSUME NEW kind, NEW n \in Nat
    PROVE  DataRows(kind, n) \in Nat /\ (kind # "ad revenue" => DataRows(kind, n) > 0)
<1>1. ASSUME kind # "ad revenue", n = 0
      PROVE  DataRows(kind, n) = 1
  BY <1>1, Zenon DEF DataRows
<1>2. ASSUME kind = "ad revenue" \/ n # 0
      PROVE  DataRows(kind, n) = n
  BY <1>2, Zenon DEF DataRows
<1>3. PICK rows : rows = DataRows(kind, n)
  OBVIOUS
<1>4. rows = n \/ rows = 1
  BY <1>1, <1>2, <1>3
<1>5. kind # "ad revenue" /\ rows = n => n # 0
  <2>1. 1 # 0
    OBVIOUS
  <2> QED
    BY <1>1, <1>3, <2>1
<1>6. rows \in Nat /\ (kind # "ad revenue" => rows > 0)
  <2>1. n \in Nat
    OBVIOUS
  <2>2. rows \in Nat
    BY ONLY <1>4, <2>1
  <2>3. rows # 0 => rows > 0
    BY ONLY <2>2
  <2>4. rows = 1 => rows # 0
    OBVIOUS
  <2> QED
    BY <1>4, <1>5, <2>2, <2>3, <2>4, Zenon
<1> QED
  BY <1>3, <1>6

(***************************************************************************)
(* What the plan's length says of the call that is due.                    *)
(***************************************************************************)
LEMMA CallDue ==
    ASSUME NEW calls, NEW kind \in Reports, Follows(calls, kind), calls # <<>>
    PROVE  /\ Len(calls) \in Nat \ {0}
           /\ Head(calls) = IF Len(calls) <= 4 THEN LastCalls(kind)[Len(calls)] ELSE "block"
           /\ Len(calls) > 4 => kind = "coin ledger" /\ Len(calls) <= Len(Blocks) + 4
<1>1. calls \in Seq(Calls) /\ Len(calls) \in Nat /\ Len(calls) # 0
  BY DEF Follows
<1>2. PICK l \in Nat : l = Len(calls) /\ 1 \in 1..l /\ l + 1 - 1 = l
  BY <1>1
<1>3. Head(calls) = calls[1]
  BY <1>1
<1>4. calls[1] = IF l <= 4 THEN LastCalls(kind)[l] ELSE "block"
  BY <1>2 DEF Follows
<1>5. l <= CallsBefore(kind) + 4
  BY <1>2 DEF Follows
<1>6. Len(Blocks) \in Nat
  BY BlocksAreRows
<1>7. l > 4 => kind = "coin ledger" /\ l <= Len(Blocks) + 4
  <2>1. CASE kind = "coin ledger"
    BY <1>5, <1>6, <2>1 DEF CallsBefore
  <2>2. CASE kind # "coin ledger"
    <3>1. CallsBefore(kind) = 0
      BY <2>2 DEF CallsBefore
    <3>2. l \in Nat /\ l <= 4
      <4>1. \A c \in Nat : c = 0 /\ l <= c + 4 => l <= 4
        BY <1>2
      <4>2. 0 \in Nat /\ l \in Nat
        BY <1>2
      <4> QED
        BY ONLY <1>5, <3>1, <4>1, <4>2
    <3>3. ~(l > 4)
      BY ONLY <3>2
    <3> QED
      BY ONLY <3>3
  <2> QED
    BY <2>1, <2>2
<1>8. Len(calls) \in Nat \ {0}
  BY <1>1
<1> QED
  BY <1>2, <1>3, <1>4, <1>7, <1>8

LEMMA DueWhen ==
    ASSUME NEW calls, NEW kind \in Reports, Follows(calls, kind), calls # <<>>
    PROVE  LET l == Len(calls)
           IN /\ Head(calls) = "block" <=> l > 4
              /\ Head(calls) = "save" <=> l = 1
              /\ Head(calls) = "rows" <=> l = IF kind = "ad revenue" THEN 2 ELSE 4
              /\ Head(calls) = "names" <=> l = 3 /\ kind # "ad revenue"
<1>1. PICK l \in Nat \ {0} :
         /\ l = Len(calls)
         /\ Head(calls) = IF l <= 4 THEN LastCalls(kind)[l] ELSE "block"
  BY CallDue
<1>5. PICK call : call = Head(calls) /\ call = IF l <= 4 THEN LastCalls(kind)[l] ELSE "block"
  BY <1>1
<1>2. l = 1 \/ l = 2 \/ l = 3 \/ l = 4 \/ l > 4
  BY <1>1
<1>3. CASE kind = "ad revenue"
  <2>1. /\ LastCalls(kind)[1] = "save" /\ LastCalls(kind)[2] = "rows"
        /\ LastCalls(kind)[3] = "summary" /\ LastCalls(kind)[4] = "recalculate"
    BY <1>3 DEF LastCalls
  <2>2. /\ call = "block" <=> l > 4
        /\ call = "save" <=> l = 1
        /\ call = "rows" <=> l = 2
        /\ call = "names" <=> FALSE
    <3>1. CASE l > 4
      <4>1. call = "block"
        BY <1>5, <3>1
      <4> QED
        BY <3>1, <4>1
    <3>2. CASE l = 1
      BY <1>5, <2>1, <3>2
    <3>3. CASE l = 2
      BY <1>5, <2>1, <3>3
    <3>4. CASE l = 3
      BY <1>5, <2>1, <3>4
    <3>5. CASE l = 4
      BY <1>5, <2>1, <3>5
    <3> QED
      BY <1>2, <3>1, <3>2, <3>3, <3>4, <3>5
  <2> QED
    BY <1>1, <1>5, <1>3, <2>2
<1>4. CASE kind # "ad revenue"
  <2>1. /\ LastCalls(kind)[1] = "save" /\ LastCalls(kind)[2] = "recalculate"
        /\ LastCalls(kind)[3] = "names" /\ LastCalls(kind)[4] = "rows"
    BY <1>4 DEF LastCalls
  <2>2. /\ call = "block" <=> l > 4
        /\ call = "save" <=> l = 1
        /\ call = "rows" <=> l = 4
        /\ call = "names" <=> l = 3
    <3>1. CASE l > 4
      <4>1. call = "block"
        BY <1>5, <3>1
      <4> QED
        BY <3>1, <4>1
    <3>2. CASE l = 1
      BY <1>5, <2>1, <3>2
    <3>3. CASE l = 2
      BY <1>5, <2>1, <3>3
    <3>4. CASE l = 3
      BY <1>5, <2>1, <3>4
    <3>5. CASE l = 4
      BY <1>5, <2>1, <3>5
    <3> QED
      BY <1>2, <3>1, <3>2, <3>3, <3>4, <3>5
  <2> QED
    BY <1>1, <1>5, <1>4, <2>2
<1> QED
  BY <1>3, <1>4

LEMMA TailFollows ==
    ASSUME NEW calls, NEW kind, Follows(calls, kind), calls # <<>>
    PROVE  Follows(Tail(calls), kind) /\ Len(Tail(calls)) = Len(calls) - 1
<1>1. calls \in Seq(Calls) /\ Len(calls) \in Nat /\ Len(calls) # 0
  BY DEF Follows
<1>2. PICK tail : tail = Tail(calls)
  OBVIOUS
<1>3. /\ tail \in Seq(Calls) /\ Len(tail) = Len(calls) - 1
      /\ \A i \in 1..Len(tail) : tail[i] = calls[i + 1]
  <2>1. calls # <<>> /\ Len(calls) >= 1
    BY <1>1
  <2>2. tail \in Seq(Calls) /\ Len(tail) = Len(calls) - 1
    BY <1>1, <1>2, <2>1
  <2>3. \A i \in 1..(Len(calls) - 1) : tail[i] = calls[i + 1]
    BY <1>1, <1>2, <2>1
  <2> QED
    BY <2>2, <2>3
<1>4. ASSUME NEW i \in 1..Len(tail)
      PROVE  tail[i] = IF Len(tail) + 1 - i <= 4 THEN LastCalls(kind)[Len(tail) + 1 - i]
                       ELSE "block"
  <2>1. i + 1 \in 1..Len(calls) /\ Len(calls) + 1 - (i + 1) = Len(tail) + 1 - i
    <3>1. PICK l \in Nat : l = Len(calls) /\ Len(tail) = l - 1
      BY <1>1, <1>3
    <3>2. i \in 1..(l - 1)
      BY <3>1
    <3>3. i + 1 \in 1..l /\ l + 1 - (i + 1) = (l - 1) + 1 - i
      BY <3>2
    <3> QED
      BY <3>1, <3>3
  <2> QED
    BY <1>3, <2>1 DEF Follows
<1>5. Len(tail) <= CallsBefore(kind) + 4
  <2>1. Len(Blocks) \in Nat
    BY BlocksAreRows
  <2>2. PICK before \in Nat : before = CallsBefore(kind)
    BY <2>1 DEF CallsBefore
  <2> QED
    BY <1>1, <1>3, <2>2 DEF Follows
<1> QED
  BY <1>2, <1>3, <1>4, <1>5 DEF Follows

LEMMA BuilderFollows ==
    ASSUME NEW kind \in Reports
    PROVE  Follows(Builder(kind), kind) /\ Len(Builder(kind)) = CallsBefore(kind) + 4
<1>1. Len(Blocks) \in Nat /\ DOMAIN Blocks = 1..Len(Blocks)
  BY BlocksAreRows
<1>2. PICK calls : calls = Builder(kind)
  OBVIOUS
<1>3. CASE kind = "ad revenue"
  <2>1. calls = <<"recalculate", "summary", "rows", "save">>
    BY <1>2, <1>3 DEF Builder
  <2>2. calls \in Seq(Calls) /\ Len(calls) = 4
    BY <2>1 DEF Calls
  <2>3. LastCalls(kind) = <<"save", "rows", "summary", "recalculate">> /\ CallsBefore(kind) = 0
    BY <1>3 DEF LastCalls, CallsBefore
  <2>4. ASSUME NEW i \in 1..4
        PROVE  calls[i] = LastCalls(kind)[5 - i] /\ 5 - i <= 4
    <3>1. i = 1 \/ i = 2 \/ i = 3 \/ i = 4
      OBVIOUS
    <3> QED
      BY <2>1, <2>3, <3>1
  <2>5. ASSUME NEW i \in 1..Len(calls)
        PROVE  calls[i] = IF Len(calls) + 1 - i <= 4 THEN LastCalls(kind)[Len(calls) + 1 - i]
                          ELSE "block"
    <3>1. i \in 1..4 /\ Len(calls) + 1 - i = 5 - i
      BY <2>2
    <3> QED
      BY <2>4, <3>1
  <2> QED
    BY <1>2, <2>2, <2>3, <2>5 DEF Follows
<1>4. CASE kind = "products"
  <2>1. calls = <<"rows", "names", "recalculate", "save">>
    BY <1>2, <1>4 DEF Builder
  <2>2. calls \in Seq(Calls) /\ Len(calls) = 4
    BY <2>1 DEF Calls
  <2>3. LastCalls(kind) = <<"save", "recalculate", "names", "rows">> /\ CallsBefore(kind) = 0
    BY <1>4 DEF LastCalls, CallsBefore
  <2>4. ASSUME NEW i \in 1..4
        PROVE  calls[i] = LastCalls(kind)[5 - i] /\ 5 - i <= 4
    <3>1. i = 1 \/ i = 2 \/ i = 3 \/ i = 4
      OBVIOUS
    <3> QED
      BY <2>1, <2>3, <3>1
  <2>5. ASSUME NEW i \in 1..Len(calls)
        PROVE  calls[i] = IF Len(calls) + 1 - i <= 4 THEN LastCalls(kind)[Len(calls) + 1 - i]
                          ELSE "block"
    <3>1. i \in 1..4 /\ Len(calls) + 1 - i = 5 - i
      BY <2>2
    <3> QED
      BY <2>4, <3>1
  <2> QED
    BY <1>2, <2>2, <2>3, <2>5 DEF Follows
<1>5. CASE kind = "coin ledger"
  <2>1. PICK blocks : blocks = [b \in DOMAIN Blocks |-> "block"]
    OBVIOUS
  <2>2. PICK rest : rest = <<"rows", "names", "recalculate", "save">>
    OBVIOUS
  <2>3. /\ blocks \in Seq(Calls) /\ Len(blocks) = Len(Blocks)
        /\ \A i \in 1..Len(Blocks) : blocks[i] = "block"
    BY <1>1, <2>1 DEF Calls
  <2>4. rest \in Seq(Calls) /\ Len(rest) = 4
    BY <2>2 DEF Calls
  <2>5. LastCalls(kind) = <<"save", "recalculate", "names", "rows">>
        /\ CallsBefore(kind) = Len(Blocks)
    BY <1>5 DEF LastCalls, CallsBefore
  <2>6. ASSUME NEW i \in 1..4
        PROVE  rest[i] = LastCalls(kind)[5 - i] /\ 5 - i <= 4
    <3>1. i = 1 \/ i = 2 \/ i = 3 \/ i = 4
      OBVIOUS
    <3> QED
      BY <2>2, <2>5, <3>1
  <2>7. calls = blocks \o rest
    BY <1>2, <1>5, <2>1, <2>2 DEF Builder
  <2>8. /\ blocks \o rest \in Seq(Calls) /\ Len(blocks \o rest) = Len(blocks) + Len(rest)
        /\ DOMAIN (blocks \o rest) = 1..(Len(blocks) + Len(rest))
        /\ \A i \in 1..(Len(blocks) + Len(rest)) :
              (blocks \o rest)[i] = IF i <= Len(blocks) THEN blocks[i] ELSE rest[i - Len(blocks)]
    <3>1. blocks \in Seq(Calls) /\ rest \in Seq(Calls)
      BY <2>3, <2>4
    <3> QED
      BY ONLY <3>1, Joined
  <2>9. /\ calls \in Seq(Calls) /\ Len(calls) = Len(Blocks) + 4
        /\ \A i \in 1..(Len(Blocks) + 4) :
              calls[i] = IF i <= Len(Blocks) THEN blocks[i] ELSE rest[i - Len(Blocks)]
    BY <2>3, <2>4, <2>7, <2>8
  <2>10. ASSUME NEW i \in 1..Len(calls)
         PROVE  calls[i] = IF Len(calls) + 1 - i <= 4 THEN LastCalls(kind)[Len(calls) + 1 - i]
                           ELSE "block"
    <3>1. i \in 1..(Len(Blocks) + 4)
      BY <2>9
    <3>2. CASE i <= Len(Blocks)
      <4>1. ~(Len(calls) + 1 - i <= 4) /\ i \in 1..Len(Blocks)
        BY <1>1, <2>9, <3>1, <3>2
      <4> QED
        BY <2>3, <2>9, <3>1, <3>2, <4>1
    <3>3. CASE ~(i <= Len(Blocks))
      <4>1. PICK k \in 1..4 : k = i - Len(Blocks) /\ Len(calls) + 1 - i = 5 - k
        BY <1>1, <2>9, <3>1, <3>3
      <4> QED
        BY <2>6, <2>9, <3>1, <3>3, <4>1
    <3> QED
      BY <3>2, <3>3
  <2> QED
    BY <1>1, <1>2, <2>5, <2>9, <2>10 DEF Follows
<1> QED
  BY <1>3, <1>4, <1>5 DEF Reports

(***************************************************************************)
(* A template is one of sheets as saved, and it stays a package while      *)
(* Power Query goes, its calculation chain goes or its sheets are edited.  *)
(***************************************************************************)
LEMMA TemplateSheets ==
    ASSUME NEW t \in Templates
    PROVE  IsPackage(t) /\ \A name \in DOMAIN t.sheets : AsSaved(t.sheets[name])
<1>1. IsPackage(t)
  BY TemplatesAreExcels
<1>2. ASSUME NEW name \in DOMAIN t.sheets
      PROVE  AsSaved(t.sheets[name])
  <2>1. /\ Ascending(t.sheets[name].rows) /\ \A r \in Range(t.sheets[name].rows) : ~r.new
        /\ t.sheets[name].header + t.sheets[name].totals <= t.sheets[name].last
    BY TemplatesAreExcels
  <2>2. t.sheets[name] \in Sheet
    BY <1>1 DEF IsPackage
  <2> QED
    BY <2>1, <2>2 DEF AsSaved
<1> QED
  BY <1>1, <1>2

Reduced(t, p) ==
    /\ DOMAIN p = Fields
    /\ p.parts \subseteq t.parts /\ p.connections \subseteq t.connections
    /\ p.bound \subseteq t.bound /\ p.bound \subseteq p.parts
    /\ p.sheets = t.sheets /\ p.headed = t.headed /\ p.formulas = t.formulas
    /\ p.labelled = t.labelled

LEMMA ReducedStays ==
    ASSUME NEW t, NEW p, IsPackage(t), Reduced(t, p),
           p.types \subseteq p.parts, p.rels \subseteq p.parts \X p.parts, p.recalculates \in BOOLEAN
    PROVE  IsPackage(p)
<1>1. DOMAIN p = {"parts", "types", "rels", "bound", "connections", "sheets", "labelled",
                  "headed", "formulas", "recalculates"}
  BY DEF Reduced, Fields
<1>2. p.parts \subseteq Part
  BY DEF IsPackage, Reduced
<1>3. p.bound \subseteq OfKind(p.parts, "table")
  BY DEF IsPackage, Reduced, OfKind
<1>4. p.connections \subseteq STRING
  <2>1. t.connections \subseteq STRING /\ p.connections \subseteq t.connections
    BY DEF IsPackage, Reduced
  <2> QED
    BY <2>1
<1>5. \A name \in DOMAIN p.sheets : p.sheets[name] \in Sheet
  BY DEF IsPackage, Reduced
<1>6. p.headed \subseteq DOMAIN p.sheets /\ p.formulas \subseteq Nat
  BY DEF IsPackage, Reduced
<1>7. {p.labelled, p.recalculates} \subseteq BOOLEAN
  <2>1. {t.labelled, t.recalculates} \subseteq BOOLEAN /\ p.labelled = t.labelled
    BY DEF IsPackage, Reduced
  <2> QED
    BY <2>1
<1> QED
  BY <1>1, <1>2, <1>3, <1>4, <1>5, <1>6, <1>7 DEF IsPackage

LEMMA PowerQueryReduces ==
    ASSUME NEW t \in Templates
    PROVE  LET p == remove_power_query_dependency(t)
           IN IsPackage(p) /\ Reduced(t, p)
<1> DEFINE queries == QueryTargets(t)
           a == RemoveQueryTables(t)
           left == a.connections \ (MashupConnections \cup {ConnectionOf[q] : q \in queries})
           kept == [a EXCEPT !.connections = left]
           b == RemoveConnections(a, queries)
           items == b.parts \cap MashupItems
           gone == items \cup {q \in b.parts : \E i \in items : <<i, q>> \in b.rels}
           c == RemoveMashups(b)
<1>1. IsPackage(t) /\ DOMAIN t = Fields
  BY TemplateSheets DEF IsPackage, Fields
<1>2. /\ DOMAIN a = Fields
      /\ a.parts = t.parts \ queries /\ a.connections = t.connections /\ a.bound = {}
      /\ a.sheets = t.sheets /\ a.headed = t.headed /\ a.formulas = t.formulas
      /\ a.labelled = t.labelled /\ a.recalculates = t.recalculates
  BY <1>1 DEF RemoveQueryTables, Fields
<1> HIDE DEF queries, a
<1>3. /\ DOMAIN kept = Fields
      /\ kept.parts = a.parts /\ kept.connections = left /\ kept.bound = {}
      /\ kept.sheets = t.sheets /\ kept.headed = t.headed /\ kept.formulas = t.formulas
      /\ kept.labelled = t.labelled /\ kept.recalculates = t.recalculates
  BY <1>2 DEF Fields
<1>4. left \subseteq t.connections
  BY <1>2
<1>5. b = IF left = {} THEN Without(kept, {Connections}) ELSE kept
  BY DEF RemoveConnections
<1> HIDE DEF left, kept
<1>6. ASSUME NEW p, NEW removed, DOMAIN p = Fields
      PROVE  /\ DOMAIN Without(p, removed) = Fields
             /\ Without(p, removed).parts = p.parts \ removed
             /\ Without(p, removed).connections = p.connections
             /\ Without(p, removed).bound = p.bound
             /\ Without(p, removed).sheets = p.sheets /\ Without(p, removed).headed = p.headed
             /\ Without(p, removed).formulas = p.formulas
             /\ Without(p, removed).labelled = p.labelled
             /\ Without(p, removed).recalculates = p.recalculates
  BY <1>6 DEF Without, Fields
<1> HIDE DEF b
<1>7. /\ DOMAIN b = Fields
      /\ b.parts \subseteq t.parts /\ b.connections \subseteq t.connections /\ b.bound = {}
      /\ b.sheets = t.sheets /\ b.headed = t.headed /\ b.formulas = t.formulas
      /\ b.labelled = t.labelled /\ b.recalculates = t.recalculates
  <2>1. CASE left = {}
    BY <1>2, <1>3, <1>4, <1>5, <1>6, <2>1
  <2>2. CASE left # {}
    BY <1>2, <1>3, <1>4, <1>5, <2>2
  <2> QED
    BY <2>1, <2>2
<1>8. c = Without(b, gone)
  BY DEF RemoveMashups
<1> HIDE DEF gone, c
<1>9. Reduced(t, c) /\ c.recalculates = t.recalculates
  BY <1>6, <1>7, <1>8 DEF Reduced
<1>10. c = remove_power_query_dependency(t)
  BY DEF remove_power_query_dependency, c, b, a, queries
<1>11. HoldsTogether(c)
  BY <1>10, PowerQueryGoes
<1>12. c.recalculates \in BOOLEAN
  <2>1. {t.labelled, t.recalculates} \subseteq BOOLEAN
    BY <1>1 DEF IsPackage
  <2> QED
    BY <1>9, <2>1
<1>13. IsPackage(c)
  BY <1>1, <1>9, <1>11, <1>12, ReducedStays DEF HoldsTogether
<1> QED
  BY <1>9, <1>10, <1>13

LEMMA SheetsEdited ==
    ASSUME NEW p, IsPackage(p), NEW sheets, DOMAIN sheets = DOMAIN p.sheets,
           \A name \in DOMAIN sheets : sheets[name] \in Sheet,
           NEW q, q = [p EXCEPT !.sheets = sheets]
    PROVE  /\ IsPackage(q) /\ q.sheets = sheets
           /\ q.parts = p.parts /\ q.connections = p.connections
<1>1. DOMAIN p = Fields
  BY DEF IsPackage, Fields
<1>2. /\ DOMAIN q = Fields /\ q.sheets = sheets
      /\ q.parts = p.parts /\ q.connections = p.connections /\ q.types = p.types
      /\ q.rels = p.rels /\ q.bound = p.bound /\ q.headed = p.headed
      /\ q.formulas = p.formulas /\ q.labelled = p.labelled /\ q.recalculates = p.recalculates
  BY <1>1 DEF Fields
<1>3. IsPackage(q)
  BY <1>2 DEF IsPackage, Fields
<1> QED
  BY <1>2, <1>3

LEMMA PackageRecalculated ==
    ASSUME NEW p, IsPackage(p), HoldsTogether(Recalculated(p))
    PROVE  LET q == Recalculated(p)
           IN /\ IsPackage(q) /\ q.sheets = p.sheets
              /\ q.parts \subseteq p.parts /\ q.connections = p.connections
<1>1. DOMAIN p = Fields
  BY DEF IsPackage, Fields
<1>2. PICK q : q = Recalculated(p)
  OBVIOUS
<1>3. /\ DOMAIN q = Fields /\ q.sheets = p.sheets
      /\ q.parts = p.parts \ {CalcChain} /\ q.connections = p.connections
      /\ q.bound = p.bound /\ q.headed = p.headed
      /\ q.formulas = p.formulas /\ q.labelled = p.labelled /\ q.recalculates = TRUE
  BY <1>1, <1>2 DEF Recalculated, Without, Fields
<1>4. q.bound \subseteq q.parts
  BY <1>3 DEF IsPackage, OfKind, CalcChain
<1>5. Reduced(p, q)
  BY <1>3, <1>4 DEF Reduced
<1>6. IsPackage(q)
  BY <1>2, <1>3, <1>5, ReducedStays DEF HoldsTogether
<1> QED
  BY <1>2, <1>3, <1>6

(***************************************************************************)
(* What is known when a call is due.                                       *)
(***************************************************************************)
LEMMA CallKnown ==
    ASSUME WInv, RowsInv, plan # <<>>
    PROVE  /\ template \in Templates /\ template # <<>> /\ ~saved
           /\ report \in Reports /\ StaysPackage /\ WritesTables /\ SheetsFollow
           /\ Follows(plan, report)
           /\ Len(plan) \in Nat \ {0}
<1>1. template # <<>> /\ ~saved /\ template \in Templates
  BY DEF WInv
<1>2. report \in Reports /\ Follows(plan, report)
  BY <1>1 DEF RowsInv
<1>3. Len(plan) \in Nat \ {0}
  BY <1>2, CallDue
<1> QED
  BY <1>1, <1>2, <1>3 DEF RowsInv

(***************************************************************************)
(* A call that is done, or a sheet of it: the rest of the plan follows,    *)
(* and the sheets do.                                                      *)
(***************************************************************************)
LEMMA CallDone ==
    ASSUME WInv, RowsInv, plan # <<>>, UNCHANGED <<template, report>>,
           plan' \in {plan, Tail(plan), <<>>},
           StaysPackage', WritesTables', plan' # <<>> \/ saved' => SheetsFollow'
    PROVE  RowsInv'
<1>1. template' # <<>> /\ report' \in Reports /\ report' = report
  BY CallKnown
<1>2. plan' # <<>> => Follows(plan', report')
  BY <1>1, CallKnown, TailFollows
<1> QED
  BY <1>1, <1>2 DEF RowsInv

LEMMA NamedTables ==
    ASSUME NEW p
    PROVE  (\A name \in DOMAIN p.sheets : Named(p.sheets[name]))
           <=> \A name \in TableSheets(p) : p.sheets[name].name \in {0, p.sheets[name].filter, p.sheets[name].last}
BY DEF Named, TableSheets

(***************************************************************************)
(* A call that leaves the sheets as they are.                              *)
(***************************************************************************)
LEMMA SheetsRest ==
    ASSUME WInv, RowsInv, plan # <<>>, UNCHANGED <<template, report, todo, written>>,
           Head(plan) \notin {"block", "rows", "names"},
           Len(plan') = Len(plan) - 1, package'.sheets = package.sheets
    PROVE  SheetsFollow'
<1>1. PICK l \in Nat \ {0} : l = Len(plan) /\ Len(plan') = l - 1
  BY CallKnown
<1>2. SheetsFollow /\ report \in Reports
  BY CallKnown
<1>3. l <= 4 /\ l # (IF report = "ad revenue" THEN 2 ELSE 4) /\ ~(l = 3 /\ report # "ad revenue")
  <2>1. PICK call : call = Head(plan)
    OBVIOUS
  <2>2. /\ call = "block" <=> l > 4
        /\ call = "rows" <=> l = IF report = "ad revenue" THEN 2 ELSE 4
        /\ call = "names" <=> l = 3 /\ report # "ad revenue"
    BY <1>1, <2>1, CallKnown, DueWhen
  <2>3. call # "block" /\ call # "rows" /\ call # "names"
    BY <2>1
  <2>4. l > 4 \/ l <= 4
    BY <1>1
  <2> QED
    BY ONLY <2>2, <2>3, <2>4
<1>4. UnwrittenAreTemplates'
  <2>1. RowsLeft' = RowsLeft /\ RowsLeft \in Nat
    BY DEF RowsLeft
  <2>2. l - 1 >= RowsLeft => l >= RowsLeft
    BY <2>1
  <2> QED
    BY <1>1, <1>2, <2>1, <2>2 DEF SheetsFollow, UnwrittenAreTemplates
<1>5. WrittenFit'
  BY <1>2 DEF SheetsFollow, WrittenFit
<1>6. NamesFollow'
  <2>1. report # "ad revenue" /\ l - 1 < 3 => l < 3
    <3>1. l \in Nat
      BY <1>1
    <3>2. report # "ad revenue" => l # 3
      BY <1>3
    <3>3. l - 1 < 3 => l < 3 \/ l = 3
      BY ONLY <3>1
    <3> QED
      BY ONLY <3>2, <3>3
  <2> QED
    BY <1>1, <1>2, <2>1 DEF SheetsFollow, NamesFollow
<1>7. LedgerHasBlocks'
  <2>1. \A b \in DOMAIN Blocks : b <= Len(Blocks) + 4 - l
    <3>1. Len(Blocks) \in Nat /\ \A b \in DOMAIN Blocks : b \in 1..Len(Blocks)
      BY BlocksCounted
    <3>2. l \in Nat /\ l <= 4
      BY <1>1, <1>3
    <3> QED
      BY ONLY <3>1, <3>2
  <2> QED
    BY <1>1, <1>2, <2>1 DEF SheetsFollow, LedgerHasBlocks
<1> QED
  BY <1>4, <1>5, <1>6, <1>7 DEF SheetsFollow

LEMMA RestStep ==
    ASSUME WInv, RowsInv, plan # <<>>, UNCHANGED <<template, report, todo, written>>,
           Head(plan) \notin {"block", "rows", "names"},
           plan' = Tail(plan) \/ (plan' = <<>> /\ Len(plan) = 1),
           package'.sheets = package.sheets, StaysPackage'
    PROVE  RowsInv'
<1>1. Len(plan') = Len(plan) - 1
  <2>1. CASE plan' = Tail(plan)
    BY <2>1, CallKnown, TailFollows
  <2>2. CASE plan' = <<>> /\ Len(plan) = 1
    <3>1. Len(plan') = 0
      BY <2>2
    <3> QED
      BY <2>2, <3>1
  <2> QED
    BY <2>1, <2>2
<1>2. SheetsFollow'
  BY <1>1, SheetsRest
<1>3. WritesTables'
  BY CallKnown DEF WritesTables
<1> QED
  BY <1>2, <1>3, CallDone

(***************************************************************************)
(* The steps.                                                              *)
(***************************************************************************)
LEMMA LoadRows ==
    ASSUME WInv, RowsInv, template = <<>>, NEW t \in Templates, NEW stripped \in BOOLEAN,
           NEW kind \in Reports, Load(t, stripped, kind)
    PROVE  RowsInv'
<1>1. /\ template' = t /\ t # <<>> /\ plan' = Builder(kind) /\ report' = kind /\ ~saved'
      /\ package' = IF stripped THEN remove_power_query_dependency(t) ELSE t
      /\ todo' = Written(kind, t) /\ written' = [name \in {} |-> 0]
  BY TemplateFacts DEF Load, WInv
<1>2. /\ IsPackage(package') /\ package'.sheets = t.sheets
      /\ package'.parts \subseteq t.parts /\ package'.connections \subseteq t.connections
  <2>1. CASE stripped
    BY <1>1, <2>1, PowerQueryReduces DEF Reduced
  <2>2. CASE ~stripped
    BY <1>1, <2>2, TemplateSheets
  <2> QED
    BY <2>1, <2>2
<1>3. StaysPackage'
  BY <1>1, <1>2 DEF StaysPackage
<1>4. DOMAIN written' = {}
  BY <1>1
<1>5. WritesTables'
  <2>1. todo' \subseteq DOMAIN t.sheets
    BY <1>1 DEF Written, TableSheets
  <2>2. kind = "coin ledger" => Ledger \notin todo'
    BY <1>1 DEF Written
  <2> QED
    BY <1>1, <1>4, <2>1, <2>2 DEF WritesTables
<1>6. Follows(plan', kind) /\ Len(plan') = CallsBefore(kind) + 4
  BY <1>1, BuilderFollows
<1>7. UnwrittenAreTemplates' /\ WrittenFit'
  BY <1>1, <1>2, <1>4 DEF UnwrittenAreTemplates, WrittenFit
<1>8. Len(Blocks) \in Nat /\ \A b \in DOMAIN Blocks : b \in 1..Len(Blocks)
  BY BlocksAreRows
<1>9. NamesFollow'
  <2>1. Len(plan') \in Nat /\ ~(Len(plan') < 3)
    <3>1. PICK c \in Nat : c = CallsBefore(kind)
      BY <1>8 DEF CallsBefore
    <3> QED
      BY <1>6, <3>1
  <2> QED
    BY <2>1 DEF NamesFollow
<1>10. LedgerHasBlocks'
  <2> SUFFICES ASSUME kind = "coin ledger"
               PROVE  LedgerHasBlocks'
    BY <1>1 DEF LedgerHasBlocks
  <2>1. Len(plan') = Len(Blocks) + 4
    BY <1>6 DEF CallsBefore
  <2>2. \A b \in DOMAIN Blocks : ~(b <= Len(Blocks) + 4 - Len(plan'))
    <3>1. PICK m \in Nat : m = Len(Blocks) /\ Len(plan') = m + 4 /\ \A b \in DOMAIN Blocks : b \in 1..m
      BY <1>8, <2>1
    <3>2. m \in Nat
      BY <3>1
    <3>3. \A b \in 1..m : ~(b <= m + 4 - (m + 4))
      BY ONLY <3>2
    <3> QED
      BY <3>1, <3>3
  <2>3. Ledger \in DOMAIN t.sheets => Ascending(t.sheets[Ledger].rows)
    BY TemplateSheets DEF AsSaved
  <2> QED
    BY <1>2, <2>2, <2>3 DEF LedgerHasBlocks
<1> QED
  BY <1>1, <1>3, <1>5, <1>6, <1>7, <1>9, <1>10 DEF RowsInv, SheetsFollow

LEMMA WriteLedgerBlockRows ==
    ASSUME WInv, RowsInv, WriteLedgerBlock
    PROVE  RowsInv'
<1>1. /\ plan # <<>> /\ Head(plan) = "block" /\ plan' = Tail(plan)
      /\ Ledger \in DOMAIN package.sheets
      /\ UNCHANGED <<template, report, todo, written, saved>>
  BY DEF WriteLedgerBlock, Edit, Due, Refused
<1>2. PICK l \in Nat \ {0} : l = Len(plan) /\ Len(plan') = l - 1
  BY <1>1, CallKnown, TailFollows
<1>3. l > 4 /\ report = "coin ledger" /\ l <= Len(Blocks) + 4
  BY <1>1, <1>2, CallKnown, CallDue, DueWhen
<1>4. Len(Blocks) \in Nat /\ DOMAIN Blocks = 1..Len(Blocks)
  BY BlocksAreRows
<1>5. PICK b \in DOMAIN Blocks : b = Done + 1 /\ b = Len(Blocks) + 5 - l
  <2>1. Len(Builder(report)) = Len(Blocks) + 4
    BY <1>3, BuilderFollows DEF CallsBefore, Reports
  <2>2. Done + 1 = Len(Blocks) + 5 - l
    BY <1>2, <1>4, <2>1 DEF Done
  <2>3. Len(Blocks) + 5 - l \in 1..Len(Blocks)
    <3>1. l \in Nat /\ l > 4 /\ l <= Len(Blocks) + 4 /\ Len(Blocks) \in Nat
      BY <1>2, <1>3, <1>4
    <3> QED
      BY ONLY <3>1
  <2> QED
    BY <1>4, <2>2, <2>3
<1>6. PICK is : is = WriteBlock(package.sheets[Ledger], Blocks[b])
  OBVIOUS
<1>7. PICK sheets : sheets = [package.sheets EXCEPT ![Ledger] = is]
  OBVIOUS
<1>8. package' = [package EXCEPT !.sheets = sheets]
  BY <1>5, <1>6, <1>7 DEF WriteLedgerBlock, Edit, Block
<1>9. /\ IsPackage(package) /\ SheetsFollow /\ StaysPackage /\ WritesTables
      /\ package.sheets[Ledger] \in Sheet /\ Ascending(package.sheets[Ledger].rows)
  BY <1>1, <1>3, CallKnown DEF StaysPackage, IsPackage, SheetsFollow, LedgerHasBlocks
<1>10. /\ is \in Sheet /\ Ascending(is.rows)
       /\ Nums(package.sheets[Ledger].rows) \cup Blocks[b] \subseteq Nums(is.rows)
  BY <1>6, <1>9, BlockWritten
<1>11. /\ DOMAIN sheets = DOMAIN package.sheets /\ sheets[Ledger] = is
       /\ \A name \in DOMAIN sheets : name # Ledger => sheets[name] = package.sheets[name]
  BY <1>1, <1>7
<1>12. /\ IsPackage(package') /\ package'.sheets = sheets
       /\ package'.parts = package.parts /\ package'.connections = package.connections
  <2>1. \A name \in DOMAIN sheets : sheets[name] \in Sheet
    BY <1>9, <1>10, <1>11 DEF IsPackage
  <2> QED
    BY <1>8, <1>9, <1>11, <2>1, SheetsEdited
<1>13. StaysPackage'
  BY <1>1, <1>9, <1>11, <1>12 DEF StaysPackage
<1>14. WritesTables' /\ Ledger \notin todo \cup DOMAIN written
       /\ todo \cup DOMAIN written \subseteq DOMAIN sheets
  BY <1>1, <1>3, <1>9, <1>11 DEF WritesTables, StaysPackage
<1>15. UnwrittenAreTemplates'
  <2>1. \A name \in todo : package.sheets[name] = template.sheets[name]
    <3>1. RowsLeft = 4
      BY <1>3 DEF RowsLeft
    <3>2. Len(plan) >= RowsLeft
      <4>1. l \in Nat /\ l > 4
        BY <1>2, <1>3
      <4>2. l >= 4
        BY ONLY <4>1
      <4> QED
        BY <1>2, <3>1, <4>2
    <3> QED
      BY <1>9, <3>2 DEF SheetsFollow, UnwrittenAreTemplates
  <2>2. \A name \in todo : sheets[name] = template.sheets[name]
    BY <1>11, <1>14, <2>1
  <2> QED
    BY <1>1, <1>12, <2>2 DEF UnwrittenAreTemplates
<1>16. WrittenFit'
  <2>1. \A name \in DOMAIN written : sheets[name] = package.sheets[name]
    BY <1>11, <1>14
  <2> QED
    BY <1>1, <1>9, <1>12, <2>1 DEF SheetsFollow, WrittenFit
<1>17. NamesFollow'
  <2>1. ~(l - 1 < 3)
    <3>1. l \in Nat /\ l > 4
      BY <1>2, <1>3
    <3> QED
      BY ONLY <3>1
  <2> QED
    BY <1>2, <2>1 DEF NamesFollow
<1>18. LedgerHasBlocks'
  <2>1. ASSUME NEW c \in DOMAIN Blocks, c <= Len(Blocks) + 4 - (l - 1)
        PROVE  Blocks[c] \subseteq Nums(is.rows)
    <3>1. CASE c = b
      BY <1>10, <3>1
    <3>2. CASE c # b
      <4>1. c <= Len(Blocks) + 4 - l
        BY <1>4, <1>5, <2>1, <3>2
      <4>2. Blocks[c] \subseteq Nums(package.sheets[Ledger].rows)
        BY <1>2, <1>3, <1>9, <4>1 DEF SheetsFollow, LedgerHasBlocks
      <4> QED
        BY <1>10, <4>2
    <3> QED
      BY <3>1, <3>2
  <2>2. package'.sheets[Ledger] = is /\ Ledger \in DOMAIN package'.sheets
    BY <1>1, <1>11, <1>12
  <2> QED
    BY <1>2, <1>10, <2>1, <2>2 DEF LedgerHasBlocks
<1> QED
  BY <1>1, <1>13, <1>14, <1>15, <1>16, <1>17, <1>18, CallDone DEF SheetsFollow

LEMMA ReplaceRowsStep ==
    ASSUME WInv, RowsInv, NEW name \in todo, NEW n \in 0..MaxRows, ReplaceRows(name, n)
    PROVE  RowsInv'
<1>1. /\ plan # <<>> /\ Head(plan) = "rows" /\ plan' \in {plan, Tail(plan)}
      /\ UNCHANGED <<template, report, saved>>
      /\ todo' = todo \ {name}
      /\ written' = [s \in DOMAIN written \cup {name} |-> IF s = name THEN n ELSE written[s]]
  BY DEF ReplaceRows, Due
<1>2. PICK l \in Nat \ {0} : l = Len(plan)
  BY <1>1, CallKnown
<1>3. l = RowsLeft
  <2>1. Head(plan) = "rows" <=> l = IF report = "ad revenue" THEN 2 ELSE 4
    BY <1>1, <1>2, CallKnown, DueWhen
  <2> QED
    BY <1>1, <2>1 DEF RowsLeft
<1>4. plan' = plan \/ Len(plan') = l - 1
  BY <1>1, <1>2, CallKnown, TailFollows
<1>5. /\ template \in Templates /\ report \in Reports
      /\ IsPackage(package) /\ SheetsFollow /\ StaysPackage /\ WritesTables
      /\ DOMAIN package.sheets = DOMAIN template.sheets
  BY <1>1, CallKnown DEF StaysPackage
<1>6. \A s \in todo : package.sheets[s] = template.sheets[s] /\ s \in DOMAIN template.sheets
  <2>1. Len(plan) >= RowsLeft
    <3>1. l \in Nat
      BY <1>2
    <3>2. l >= l
      BY ONLY <3>1
    <3> QED
      BY <1>2, <1>3, <3>2
  <2> QED
    BY <1>5, <2>1 DEF SheetsFollow, UnwrittenAreTemplates, WritesTables
<1>7. PICK was : was = template.sheets[name] /\ was = package.sheets[name] /\ AsSaved(was)
  BY <1>5, <1>6, TemplateSheets
<1>8. DataRows(report, n) \in Nat /\ n \in Nat
  <2>1. n \in Nat
    BY MaxRowsIsNat
  <2> QED
    BY <2>1, RowsCounted
<1>9. PICK is : is = replace_detail_rows(was, DataRows(report, n))
  OBVIOUS
<1>10. is \in Sheet /\ Fits(was, is, DataRows(report, n))
  BY <1>7, <1>8, <1>9, RowsReplaced DEF Fits
<1>11. PICK sheets : sheets = [package.sheets EXCEPT ![name] = is]
  OBVIOUS
<1>12. package' = [package EXCEPT !.sheets = sheets]
  BY <1>7, <1>9, <1>11 DEF ReplaceRows
<1>13. /\ DOMAIN sheets = DOMAIN package.sheets /\ sheets[name] = is
       /\ \A s \in DOMAIN sheets : s # name => sheets[s] = package.sheets[s]
  BY <1>5, <1>6, <1>11
<1>14. /\ IsPackage(package') /\ package'.sheets = sheets
       /\ package'.parts = package.parts /\ package'.connections = package.connections
  <2>1. \A s \in DOMAIN sheets : sheets[s] \in Sheet
    BY <1>5, <1>10, <1>13 DEF IsPackage
  <2> QED
    BY <1>5, <1>12, <1>13, <2>1, SheetsEdited
<1>15. StaysPackage'
  BY <1>1, <1>5, <1>13, <1>14 DEF StaysPackage
<1>16. /\ DOMAIN written' = DOMAIN written \cup {name} /\ written'[name] = n
       /\ \A s \in DOMAIN written : s # name => written'[s] = written[s]
  BY <1>1
<1>17. WritesTables'
  <2>1. todo' \cup DOMAIN written' \subseteq todo \cup DOMAIN written
    BY <1>1, <1>16
  <2>2. \A s \in DOMAIN written' : written'[s] \in Nat
    BY <1>5, <1>8, <1>16 DEF WritesTables
  <2> QED
    BY <1>1, <1>5, <2>1, <2>2 DEF WritesTables
<1>18. UnwrittenAreTemplates'
  <2>1. \A s \in todo' : sheets[s] = template.sheets[s]
    BY <1>1, <1>5, <1>6, <1>13
  <2> QED
    BY <1>1, <1>14, <2>1 DEF UnwrittenAreTemplates
<1>19. WrittenFit'
  <2>1. ASSUME NEW s \in DOMAIN written'
        PROVE  Fits(template.sheets[s], sheets[s], DataRows(report, written'[s]))
    <3>1. CASE s = name
      BY <1>7, <1>10, <1>13, <1>16, <3>1
    <3>2. CASE s # name
      <4>1. s \in DOMAIN written /\ s \in DOMAIN sheets
        BY <1>5, <1>13, <1>16, <3>2 DEF WritesTables
      <4>2. Fits(template.sheets[s], package.sheets[s], DataRows(report, written[s]))
        BY <1>5, <4>1 DEF SheetsFollow, WrittenFit
      <4> QED
        BY <1>13, <1>16, <3>2, <4>1, <4>2
    <3> QED
      BY <3>1, <3>2
  <2> QED
    BY <1>1, <1>14, <2>1 DEF WrittenFit
<1>20. report # "ad revenue" => l = 4 /\ (Len(plan') = 4 \/ Len(plan') = 3)
  <2> SUFFICES ASSUME report # "ad revenue"
               PROVE  l = 4 /\ (Len(plan') = 4 \/ Len(plan') = 3)
    OBVIOUS
  <2>1. l = 4
    BY <1>3 DEF RowsLeft
  <2>2. plan' = plan => Len(plan') = 4
    BY <1>2, <2>1
  <2>3. Len(plan') = l - 1 => Len(plan') = 3
    BY ONLY <2>1
  <2> QED
    BY <1>4, <2>1, <2>2, <2>3
<1>21. NamesFollow'
  <2>1. report # "ad revenue" => ~(Len(plan') < 3)
    <3>1. ~(4 < 3) /\ ~(3 < 3)
      OBVIOUS
    <3> QED
      BY <1>20, <3>1, Zenon
  <2> QED
    BY <1>1, <2>1 DEF NamesFollow
<1>22. LedgerHasBlocks'
  <2> SUFFICES ASSUME report = "coin ledger"
               PROVE  LedgerHasBlocks'
    BY <1>1 DEF LedgerHasBlocks
  <2>1. name # Ledger
    BY <1>5 DEF WritesTables
  <2>2. Len(Blocks) \in Nat /\ \A b \in DOMAIN Blocks : b \in 1..Len(Blocks)
    BY BlocksCounted
  <2>3. \A b \in DOMAIN Blocks : b <= Len(Blocks) + 4 - 4
    BY ONLY <2>2
  <2>4. \A b \in DOMAIN Blocks : b <= Len(Blocks) + 4 - Len(plan)
    BY <1>2, <1>20, <2>3
  <2>5. Ledger \in DOMAIN package.sheets => Ascending(package.sheets[Ledger].rows)
    BY <1>5 DEF SheetsFollow, LedgerHasBlocks
  <2>6. \A b \in DOMAIN Blocks : /\ Ledger \in DOMAIN package.sheets
                                 /\ Blocks[b] \subseteq Nums(package.sheets[Ledger].rows)
    BY <1>5, <2>4 DEF SheetsFollow, LedgerHasBlocks
  <2>7. Ledger \in DOMAIN sheets => sheets[Ledger] = package.sheets[Ledger]
    BY <1>13, <2>1
  <2> QED
    BY <1>13, <1>14, <2>5, <2>6, <2>7 DEF LedgerHasBlocks
<1> QED
  BY <1>1, <1>15, <1>17, <1>18, <1>19, <1>21, <1>22, CallDone DEF SheetsFollow

LEMMA NameSynced ==
    ASSUME NEW s \in Sheet, NEW is,
           is = [s EXCEPT !.name = IF s.filter # 0 THEN s.filter ELSE s.last]
    PROVE  /\ is \in Sheet /\ Named(is) /\ is.rows = s.rows /\ is.tables = s.tables
           /\ is.header = s.header /\ is.last = s.last /\ is.totals = s.totals
           /\ is.filter = s.filter
<1>1. (IF s.filter # 0 THEN s.filter ELSE s.last) \in Nat
  BY DEF Sheet
<1>2. /\ is.name = (IF s.filter # 0 THEN s.filter ELSE s.last)
      /\ is.rows = s.rows /\ is.tables = s.tables
      /\ is.header = s.header /\ is.last = s.last /\ is.totals = s.totals
      /\ is.filter = s.filter
  BY DEF Sheet
<1>3. is \in Sheet
  BY <1>1 DEF Sheet
<1> QED
  BY <1>2, <1>3 DEF Named

LEMMA SyncNamesRows ==
    ASSUME WInv, RowsInv, SyncNames
    PROVE  RowsInv'
<1>1. /\ plan # <<>> /\ Head(plan) = "names" /\ plan' = Tail(plan)
      /\ package' = SyncedNames(package)
      /\ UNCHANGED <<template, report, todo, written, saved>>
  BY DEF SyncNames, Edit, Due
<1>2. Len(plan) = 3 /\ report # "ad revenue" /\ Len(plan') = 2
  <2>1. Head(plan) = "names" <=> Len(plan) = 3 /\ report # "ad revenue"
    BY <1>1, CallKnown, DueWhen
  <2>2. Len(plan') = Len(plan) - 1
    BY <1>1, CallKnown, TailFollows
  <2>3. 3 - 1 = 2
    OBVIOUS
  <2> QED
    BY <1>1, <2>1, <2>2, <2>3
<1>3. /\ IsPackage(package) /\ SheetsFollow /\ StaysPackage /\ WritesTables
      /\ DOMAIN package.sheets = DOMAIN template.sheets
  BY <1>1, CallKnown DEF StaysPackage
<1>4. PICK sheets :
         /\ package' = [package EXCEPT !.sheets = sheets]
         /\ sheets = [name \in DOMAIN package.sheets |->
                LET s == package.sheets[name]
                IN IF name \in TableSheets(package) /\ s.name # 0
                   THEN [s EXCEPT !.name = IF s.filter # 0 THEN s.filter ELSE s.last]
                   ELSE s]
  BY <1>1 DEF SyncedNames
<1>5. ASSUME NEW name \in DOMAIN package.sheets
      PROVE  LET s == package.sheets[name]
                 is == sheets[name]
             IN /\ is \in Sheet /\ Named(is) /\ is.rows = s.rows
                /\ is.header = s.header /\ is.last = s.last /\ is.totals = s.totals
                /\ is.filter = s.filter
  <2>1. PICK s : s = package.sheets[name] /\ s \in Sheet
    BY <1>3 DEF IsPackage
  <2>2. PICK is : is = sheets[name]
    OBVIOUS
  <2>3. CASE name \in TableSheets(package) /\ s.name # 0
    <3>1. is = [s EXCEPT !.name = IF s.filter # 0 THEN s.filter ELSE s.last]
      BY <1>4, <2>1, <2>2, <2>3
    <3> QED
      BY <2>1, <2>2, <3>1, NameSynced
  <2>4. CASE ~(name \in TableSheets(package) /\ s.name # 0)
    <3>1. is = s
      BY <1>4, <2>1, <2>2, <2>4
    <3>2. Named(s)
      BY <2>1, <2>4 DEF Named, TableSheets
    <3> QED
      BY <2>1, <2>2, <3>1, <3>2
  <2> QED
    BY <2>3, <2>4
<1>6. DOMAIN sheets = DOMAIN package.sheets
  BY <1>4
<1>7. /\ IsPackage(package') /\ package'.sheets = sheets
      /\ package'.parts = package.parts /\ package'.connections = package.connections
  <2>1. \A name \in DOMAIN sheets : sheets[name] \in Sheet
    BY <1>5, <1>6
  <2> QED
    <3>1. package' = [package EXCEPT !.sheets = sheets]
      BY <1>4
    <3> QED
      BY <1>3, <1>6, <2>1, <3>1, SheetsEdited
<1>8. StaysPackage'
  BY <1>1, <1>3, <1>6, <1>7 DEF StaysPackage
<1>9. WritesTables'
  BY <1>1, <1>3 DEF WritesTables
<1>10. UnwrittenAreTemplates'
  <2>1. RowsLeft' = 4
    BY <1>1, <1>2 DEF RowsLeft
  <2>2. ~(2 >= 4)
    OBVIOUS
  <2> QED
    BY <1>2, <2>1, <2>2 DEF UnwrittenAreTemplates
<1>11. WrittenFit'
  <2>1. ASSUME NEW name \in DOMAIN written
        PROVE  Fits(template.sheets[name], sheets[name], DataRows(report, written[name]))
    <3>1. name \in DOMAIN package.sheets
      BY <1>3 DEF WritesTables
    <3>2. Fits(template.sheets[name], package.sheets[name], DataRows(report, written[name]))
      BY <1>3 DEF SheetsFollow, WrittenFit
    <3> QED
      BY <1>5, <3>1, <3>2 DEF Fits, TableFits
  <2> QED
    BY <1>1, <1>7, <2>1 DEF WrittenFit
<1>12. NamesFollow'
  BY <1>5, <1>6, <1>7 DEF NamesFollow
<1>13. LedgerHasBlocks'
  <2>1. Len(Blocks) \in Nat /\ \A b \in DOMAIN Blocks : b \in 1..Len(Blocks)
    BY BlocksCounted
  <2>2. \A b \in DOMAIN Blocks : b <= Len(Blocks) + 4 - 3
    BY ONLY <2>1
  <2>3. report = "coin ledger" =>
           /\ Ledger \in DOMAIN package.sheets => Ascending(package.sheets[Ledger].rows)
           /\ \A b \in DOMAIN Blocks :
                 /\ Ledger \in DOMAIN package.sheets
                 /\ Blocks[b] \subseteq Nums(package.sheets[Ledger].rows)
    BY <1>2, <1>3, <2>2 DEF SheetsFollow, LedgerHasBlocks
  <2>4. Ledger \in DOMAIN package.sheets => sheets[Ledger].rows = package.sheets[Ledger].rows
    BY <1>5
  <2> QED
    BY <1>1, <1>6, <1>7, <2>3, <2>4 DEF LedgerHasBlocks
<1> QED
  BY <1>1, <1>8, <1>9, <1>10, <1>11, <1>12, <1>13, CallDone DEF SheetsFollow

(***************************************************************************)
(* The rows and tables in every state.                                     *)
(***************************************************************************)
LEMMA WorkbookInitRowsInv == WorkbookInit => RowsInv
BY DEF WorkbookInit, RowsInv

LEMMA WorkbookNextRowsInv ==
    ASSUME WInv, RowsInv, WInv', [WorkbookNext]_wvars
    PROVE  RowsInv'
<1>1. CASE UNCHANGED wvars
  BY <1>1 DEF wvars, RowsInv, StaysPackage, WritesTables, SheetsFollow, UnwrittenAreTemplates,
              RowsLeft, WrittenFit, NamesFollow, LedgerHasBlocks
<1>2. ASSUME template = <<>>, NEW t \in Templates, NEW stripped \in BOOLEAN, NEW kind \in Reports,
             Load(t, stripped, kind)
      PROVE  RowsInv'
  BY <1>2, LoadRows
<1>3. CASE Abort \/ RefuseSource
  <2>1. /\ plan # <<>> /\ plan' = <<>>
        /\ UNCHANGED <<template, package, report, todo, written, saved>>
    BY <1>3 DEF Abort, RefuseSource, Refused, Due
  <2>2. StaysPackage' /\ WritesTables' /\ ~saved'
    BY <2>1, CallKnown DEF StaysPackage, WritesTables
  <2> QED
    BY <2>1, <2>2, CallDone
<1>4. CASE Recalculate
  <2>1. /\ plan # <<>> /\ Head(plan) = "recalculate" /\ plan' = Tail(plan)
        /\ package' = Recalculated(package)
        /\ UNCHANGED <<template, report, todo, written, saved>>
    BY <1>4 DEF Recalculate, Edit, Due
  <2>2. HoldsTogether(package')
    BY <2>1, CallKnown DEF WInv
  <2>3. /\ IsPackage(package') /\ package'.sheets = package.sheets
        /\ package'.parts \subseteq package.parts /\ package'.connections = package.connections
    BY <2>1, <2>2, CallKnown, PackageRecalculated DEF StaysPackage
  <2>4. StaysPackage'
    BY <2>1, <2>3, CallKnown DEF StaysPackage
  <2> QED
    BY <2>1, <2>3, <2>4, RestStep
<1>5. CASE UpdateSummary
  <2>1. /\ plan # <<>> /\ Head(plan) = "summary" /\ plan' = Tail(plan) /\ package' = package
        /\ UNCHANGED <<template, report, todo, written, saved>>
    BY <1>5 DEF UpdateSummary, Edit, Due
  <2>2. StaysPackage'
    BY <2>1, CallKnown DEF StaysPackage
  <2> QED
    BY <2>1, <2>2, RestStep
<1>6. CASE WriteLedgerBlock
  BY <1>6, WriteLedgerBlockRows
<1>7. CASE SyncNames
  BY <1>7, SyncNamesRows
<1>8. ASSUME NEW name \in todo, NEW n \in 0..MaxRows, ReplaceRows(name, n)
      PROVE  RowsInv'
  BY <1>8, ReplaceRowsStep
<1>9. CASE Save
  <2>1. /\ plan # <<>> /\ Head(plan) = "save" /\ plan' = <<>> /\ package' = package
        /\ UNCHANGED <<template, report, todo, written>>
    BY <1>9 DEF Save, Due
  <2>2. StaysPackage' /\ Len(plan) = 1
    BY <2>1, CallKnown, DueWhen DEF StaysPackage
  <2> QED
    BY <2>1, <2>2, RestStep
<1> QED
  BY <1>1, <1>2, <1>3, <1>4, <1>5, <1>6, <1>7, <1>8, <1>9 DEF WorkbookNext

(***************************************************************************)
(* Whether a workbook is saved is a Boolean.                               *)
(***************************************************************************)
LEMMA SavedOrNot ==
    /\ WorkbookInit => saved \in BOOLEAN
    /\ saved \in BOOLEAN /\ [WorkbookNext]_wvars => saved' \in BOOLEAN
<1>1. WorkbookInit => saved \in BOOLEAN
  BY DEF WorkbookInit
<1>2. ASSUME [WorkbookNext]_wvars
      PROVE  saved' = saved \/ saved' = TRUE
  BY <1>2 DEF WorkbookNext, wvars, Load, Abort, RefuseSource, Refused, Recalculate, UpdateSummary,
              WriteLedgerBlock, SyncNames, ReplaceRows, Save, Edit
<1> QED
  BY <1>1, <1>2

(***************************************************************************)
(* What follows.                                                           *)
(***************************************************************************)
LEMMA RowsInvSound ==
    ASSUME WInv, RowsInv
    PROVE  SavedIsSound
<1> SUFFICES ASSUME saved
             PROVE  SavedIsSound
  BY WInvSound DEF SavedIsSound, CoinLedgerFits
<1>1. template # <<>> /\ plan = <<>> /\ template \in Templates
  BY DEF WInv
<1>2. /\ report \in Reports /\ StaysPackage /\ WritesTables /\ SheetsFollow
      /\ IsPackage(template)
  BY <1>1, TemplateSheets DEF RowsInv
<1>3. Len(plan) = 0
  BY <1>1
<1>4. \A name \in DOMAIN written :
         TableFits(template.sheets[name], package.sheets[name], DataRows(report, written[name]))
  BY <1>2 DEF SheetsFollow, WrittenFit, Fits
<1>5. ASSUME report # "ad revenue"
      PROVE  CoinLedgerFits
  <2>1. ASSUME NEW name \in DOMAIN written
        PROVE  HasDataRow(package.sheets[name])
    <3>1. PICK was : was = template.sheets[name]
      OBVIOUS
    <3>2. PICK is : is = package.sheets[name]
      OBVIOUS
    <3>3. PICK n : n = DataRows(report, written[name])
      OBVIOUS
    <3>4. n \in Nat /\ n > 0
      <4>1. written[name] \in Nat
        BY <1>2 DEF WritesTables
      <4> QED
        BY <1>5, <3>3, <4>1, RowsCounted
    <3>5. was \in Sheet
      BY <1>2, <3>1 DEF WritesTables, IsPackage
    <3>6. is.last = was.header + n + was.totals /\ is.header = was.header /\ is.totals = was.totals
      BY <1>2, <3>1, <3>2, <3>3 DEF SheetsFollow, WrittenFit, Fits, TableFits
    <3>7. was.header \in Nat /\ was.totals \in {0, 1}
      BY <3>5 DEF Sheet
    <3>8. is.last - is.totals > is.header
      BY ONLY <3>4, <3>6, <3>7
    <3> QED
      BY <3>2, <3>8 DEF HasDataRow
  <2>2. \A name \in TableSheets(package) :
           package.sheets[name].name \in {0, package.sheets[name].filter, package.sheets[name].last}
    <3>1. Len(plan) < 3
      BY <1>3
    <3> QED
      BY <1>2, <1>5, <3>1, NamedTables DEF SheetsFollow, NamesFollow
  <2>3. ASSUME report = "coin ledger"
        PROVE  /\ UNION Range(Blocks) \subseteq Nums(package.sheets[Ledger].rows)
               /\ Ascending(package.sheets[Ledger].rows)
    <3>1. Len(Blocks) \in Nat /\ \A b \in DOMAIN Blocks : b \in 1..Len(Blocks)
      BY BlocksCounted
    <3>2. \A b \in DOMAIN Blocks : b <= Len(Blocks) + 4 - 0
      BY ONLY <3>1
    <3>3. \A b \in DOMAIN Blocks : /\ Ledger \in DOMAIN package.sheets
                                   /\ Blocks[b] \subseteq Nums(package.sheets[Ledger].rows)
      BY <1>2, <1>3, <2>3, <3>2 DEF SheetsFollow, LedgerHasBlocks
    <3>4. \E b : b \in DOMAIN Blocks
      BY BlocksAreRows
    <3> QED
      BY <1>2, <2>3, <3>3, <3>4 DEF SheetsFollow, LedgerHasBlocks, Range
  <2> QED
    BY <2>1, <2>2, <2>3 DEF CoinLedgerFits
<1> QED
  <2>1. report = "ad revenue" => CoinLedgerFits
    BY DEF CoinLedgerFits
  <2>2. CoinLedgerFits
    BY <1>5, <2>1
  <2> QED
    BY <1>4, <2>2, WInvSound DEF SavedIsSound

(***************************************************************************)
(* The types of the workbook follow too.                                   *)
(***************************************************************************)
LEMMA RowsInvTyped ==
    ASSUME WInv, RowsInv, saved \in BOOLEAN
    PROVE  WorkbookTypeOK
<1>1. template = <<>> \/ IsPackage(template)
  BY TemplateSheets DEF WInv
<1>2. report \in Reports \cup {"none"}
  BY DEF RowsInv
<1>3. plan \in Seq({"block", "recalculate", "summary", "rows", "names", "save"})
  BY DEF WInv, Calls
<1>4. ASSUME template # <<>>
      PROVE  /\ IsPackage(package)
             /\ package.parts \subseteq template.parts
             /\ package.connections \subseteq template.connections
             /\ todo \cup DOMAIN written \subseteq DOMAIN package.sheets
  BY <1>4 DEF RowsInv, StaysPackage, WritesTables
<1> QED
  BY <1>1, <1>2, <1>3, <1>4 DEF WorkbookTypeOK

-----------------------------------------------------------------------------
(* The parts together *)

(***************************************************************************)
(* A step of ServiceTools is one of each part or leaves that part alone.   *)
(***************************************************************************)
LEMMA PartsRest ==
    ASSUME [Next]_svars
    PROVE  [LiveNext]_lvars /\ [RetentionNext]_retvars /\ [WorkbookNext]_wvars
BY DEF Next, svars

(***************************************************************************)
(* The invariants above hold in every reachable state.                     *)
(***************************************************************************)
THEOREM ToolsInvariance == Spec => [](LInv /\ RetInv /\ WInv /\ RowsInv /\ saved \in BOOLEAN)
<1>1. Init => LInv /\ RetInv /\ WInv /\ RowsInv /\ saved \in BOOLEAN
  BY LiveInitLInv, RetentionInitRetInv, WorkbookInitWInv, WorkbookInitRowsInv, SavedOrNot DEF Init
<1>2. LInv /\ RetInv /\ WInv /\ RowsInv /\ saved \in BOOLEAN /\ [Next]_svars
      => (LInv /\ RetInv /\ WInv /\ RowsInv /\ saved \in BOOLEAN)'
  <2> SUFFICES ASSUME LInv, RetInv, WInv, RowsInv, saved \in BOOLEAN, [Next]_svars
               PROVE  LInv' /\ RetInv' /\ WInv' /\ RowsInv' /\ saved' \in BOOLEAN
    OBVIOUS
  <2>1. [LiveNext]_lvars /\ [RetentionNext]_retvars /\ [WorkbookNext]_wvars
    BY PartsRest
  <2>2. LInv' /\ RetInv' /\ WInv'
    BY <2>1, LiveNextLInv, RetentionNextRetInv, WorkbookNextWInv
  <2>3. RowsInv'
    BY <2>1, <2>2, WorkbookNextRowsInv
  <2>4. saved' \in BOOLEAN
    BY <2>1, SavedOrNot
  <2> QED
    BY <2>2, <2>3, <2>4
<1> QED
  BY <1>1, <1>2, PTL DEF Spec

(***************************************************************************)
(* What the page of the schedules shows of a job was so at some moment     *)
(* since the cached lookup could still be as old as the cache allows, and  *)
(* it says that the schedules are unavailable only if a lookup failed then *)
(* (live_schedule_lookup), for any jobs, definitions and time to live.     *)
(***************************************************************************)
THEOREM SchedulePageIsRecent == Spec => []PageIsRecent
<1>1. LInv => PageIsRecent
  BY LInvRecent
<1> QED
  BY <1>1, ToolsInvariance, PTL

(***************************************************************************)
(* A record goes only when it was listed and either still is past its      *)
(* retention or was used since, an object only when no active delivery     *)
(* that the listing reached and nobody used since refers to it, and a run  *)
(* that reports its deletion has left none of the approved records, with   *)
(* any limits, any batch size and any documents                            *)
(* (check-retention-candidates.py, delete-firestore-retention-records.py). *)
(***************************************************************************)
THEOREM ReviewDeletesTheListed == Spec => DeletionIsTheListed
<1>1. RetInv /\ [Next]_svars => [RetiredGo /\ UnreferencedGo /\ ReportedIsGone]_retvars
  BY PartsRest, RetentionDeletesTheListed
<1> QED
  BY <1>1, ToolsInvariance, PTL DEF Spec, DeletionIsTheListed

(***************************************************************************)
(* In the package of a workbook that is saved no relationship, Override or *)
(* query table names something that is gone, no calculation chain is left, *)
(* and nothing that is not Power Query's was lost, whatever template a     *)
(* report starts from, for any number of its parts, sheets and rows        *)
(* (xlsx_package_writer.py: remove_power_query_dependency,                 *)
(* force_recalculation_on_load).                                           *)
(***************************************************************************)
THEOREM SavedPackageIsSound == Spec => []PackageIsSound
<1>1. WInv => PackageIsSound
  BY WInvSound
<1> QED
  BY <1>1, ToolsInvariance, PTL

(***************************************************************************)
(* A workbook that is saved, of whichever report, names no part that is    *)
(* gone, has lost of its parts nothing but Power Query, and has on every   *)
(* sheet written the template's rows up to the header, then as many data   *)
(* rows as were written, then its totals row and the rows after, each once *)
(* and in order, the table and its filter ending where the rows do; and a  *)
(* coin ledger or product list has a data row in every table, names that   *)
(* fit, and a ledger with all its rows - for any templates, any blocks and *)
(* any number of rows (xlsx_package_writer.py:                             *)
(* remove_power_query_dependency, force_recalculation_on_load,             *)
(* replace_detail_rows, write_fixed_cells, sync_filter_database_names;     *)
(* jumpplus_coin_ledger_workbooks.py: _replace_table).                     *)
(***************************************************************************)
THEOREM SavedWorkbookIsSound == Spec => []SavedIsSound
<1>1. WInv /\ RowsInv => SavedIsSound
  BY RowsInvSound
<1> QED
  BY <1>1, ToolsInvariance, PTL

(***************************************************************************)
(* The schedules' page, the retention scripts and the workbook stay in     *)
(* their types: the workbook's package keeps being one, made of its        *)
(* template's parts.                                                       *)
(***************************************************************************)
THEOREM ToolsTypeCorrect == Spec => []TypeOK
<1>1. LInv /\ RetInv /\ WInv /\ RowsInv /\ saved \in BOOLEAN => TypeOK
  BY RowsInvTyped DEF TypeOK, LInv, RetInv
<1> QED
  BY <1>1, ToolsInvariance, PTL
=============================================================================
