----------------------- MODULE ReportDefinitions_proofs -----------------------
(***************************************************************************)
(* Proofs about ReportDefinitions, for any number of reports, operators,   *)
(* templates and requests: what a step of an operator does to the          *)
(* definitions, and the invariant that no publish, rollback or failure     *)
(* loses a version unless publishes overlapped.                            *)
(***************************************************************************)
EXTENDS ReportDefinitions, FiniteSetTheorems, TLAPS

(***************************************************************************)
(* A version list, of a document or read from it, is numbered 1, 2, ... and*)
(* each of its versions was published.                                     *)
(***************************************************************************)
Numbered(vs) == \A i \in DOMAIN vs : vs[i].version = i

ListOK(r, vs) == Numbered(vs) /\ \A i \in DOMAIN vs : vs[i] \in published[r]

(***************************************************************************)
(* A version's template was stored under a number not above its own.       *)
(***************************************************************************)
HasObject(r, v) == v.template # NoTemplate => v.path \in DOMAIN object[r]

PublishedOK(r) == \A v \in published[r] : HasObject(r, v) /\ v.path <= v.version

(***************************************************************************)
(* What holds of a definition, raced or not, and what only of one whose    *)
(* publishes did not overlap.                                              *)
(***************************************************************************)
DefinitionOK(r) ==
    /\ ListOK(r, definition[r].versions)
    /\ PublishedOK(r)
    /\ ~definition[r].exists => published[r] = {} /\ definition[r].versions = <<>>

UnracedOK(r) ==
    /\ {definition[r].versions[i] : i \in DOMAIN definition[r].versions} = published[r]
    /\ definition[r].exists => HasCurrent(definition[r])
    /\ TemplatesStand(r)

Publishers == {"upload", "publish", "map"}

(***************************************************************************)
(* What a request's place says of the list it read and of its version.     *)
(***************************************************************************)
TaskOK(o) ==
    LET t == task[o]
    IN  /\ t.at \in Publishers => definition[t.report].exists /\ ListOK(t.report, t.versions)
        /\ t.at \in {"upload", "publish"} => t.template \in Templates
        /\ t.at = "publish" =>
              t.path = Len(t.versions) + 1 /\ t.path \in DOMAIN object[t.report]
        /\ t.at = "map" =>
              /\ t.template # NoTemplate => t.path \in DOMAIN object[t.report]
              /\ t.path <= Len(t.versions)
        /\ t.at = "rollback" => definition[t.report].exists

UnracedTaskOK(o) ==
    LET t == task[o]
    IN  /\ t.at \in Publishers => t.versions = definition[t.report].versions
        /\ t.at \in {"publish", "map"} /\ t.template # NoTemplate =>
              object[t.report][t.path] = t.template
        /\ t.at = "rollback" => t.number \in Numbers(definition[t.report].versions)

(***************************************************************************)
(* A report has one publisher at a time, unless it was raced.              *)
(***************************************************************************)
OnePublisher ==
    \A o, p \in Operator :
        /\ task[o].at \in Publishers /\ task[p].at \in Publishers
        /\ task[o].report = task[p].report /\ task[o].report \notin raced
        => o = p

RInv ==
    /\ DefinitionsTypeOK
    /\ \A r \in Report : DefinitionOK(r) /\ (r \notin raced => UnracedOK(r))
    /\ \A o \in Operator : TaskOK(o) /\ (task[o].report \notin raced => UnracedTaskOK(o))
    /\ OnePublisher

-----------------------------------------------------------------------------
(* Lists and values *)

(***************************************************************************)
(* NextVersion continues the numbering of a list numbered 1, 2, ...        *)
(***************************************************************************)
LEMMA NextVersionCounts ==
    ASSUME NEW vs \in Seq(Version), Numbered(vs)
    PROVE  NextVersion(vs) = Len(vs) + 1
<1>1. CASE vs = <<>>
  BY <1>1 DEF NextVersion
<1>2. CASE vs # <<>>
  <2>1. Numbers(vs) = 1..Len(vs) /\ Len(vs) \in Nat /\ Len(vs) >= 1
    BY <1>2 DEF Numbers, Numbered
  <2>2. \A y \in 1..Len(vs) : Len(vs) >= y
    BY <2>1
  <2>3. \A x \in 1..Len(vs) : (\A y \in 1..Len(vs) : x >= y) => x = Len(vs)
    BY <2>1
  <2>4. Len(vs) \in 1..Len(vs)
    BY <2>1
  <2>5. Max(1..Len(vs)) = Len(vs)
    BY <2>2, <2>3, <2>4 DEF Max
  <2> QED
    BY <1>2, <2>1, <2>5 DEF NextVersion
<1> QED
  BY <1>1, <1>2

LEMMA AppendNumbered ==
    ASSUME NEW vs \in Seq(Version), Numbered(vs), NEW v \in Version, v.version = Len(vs) + 1
    PROVE  /\ Append(vs, v) \in Seq(Version)
           /\ Numbered(Append(vs, v))
           /\ Numbers(Append(vs, v)) = Numbers(vs) \cup {v.version}
           /\ {Append(vs, v)[i] : i \in DOMAIN Append(vs, v)} = {vs[i] : i \in DOMAIN vs} \cup {v}
<1>1. /\ Append(vs, v) \in Seq(Version) /\ Len(vs) \in Nat
      /\ DOMAIN Append(vs, v) = DOMAIN vs \cup {Len(vs) + 1} /\ DOMAIN vs = 1..Len(vs)
      /\ \A i \in DOMAIN vs : Append(vs, v)[i] = vs[i]
      /\ Append(vs, v)[Len(vs) + 1] = v
  OBVIOUS
<1> QED
  BY <1>1 DEF Numbered, Numbers

LEMMA CurrentIsListed ==
    ASSUME NEW d, HasCurrent(d)
    PROVE  \E i \in DOMAIN d.versions : Current(d) = d.versions[i]
<1>1. \E i \in DOMAIN d.versions : d.versions[i].version = d.current_version
  BY DEF HasCurrent, Numbers
<1> QED
  BY <1>1 DEF Current

(***************************************************************************)
(* A set of numbers that is not empty has its Min: of the sets of the      *)
(* elements below an element, all finite, a smallest one is empty.         *)
(***************************************************************************)
LEMMA MinInSet ==
    ASSUME NEW S \in SUBSET Nat, S # {}
    PROVE  Min(S) \in S
<1> DEFINE Below(x) == {y \in S : y < x}
           T == {Below(x) : x \in S}
<1>1. T \subseteq FiniteSubsetsOf(S) /\ T # {}
  <2>1. ASSUME NEW x \in S PROVE Below(x) \in SUBSET S /\ IsFiniteSet(Below(x))
    <3>1. x \in Nat /\ Below(x) \in SUBSET S
      OBVIOUS
    <3>2. Below(x) \in SUBSET (0..x)
      <4>1. \A y \in S : y < x => y \in 0..x
        BY <3>1
      <4> QED
        BY <4>1
    <3>3. IsFiniteSet(0..x)
      BY <3>1, FS_Interval
    <3> QED
      BY <3>1, <3>2, <3>3, FS_Subset
  <2> HIDE DEF Below
  <2> QED
    BY <2>1 DEF FiniteSubsetsOf
<1>2. IsWellFoundedOn(StrictSubsetOrdering(S), FiniteSubsetsOf(S))
  BY FS_StrictSubsetOrderingWellFounded
<1>3. PICK U \in T : \A V \in T : ~ (<<V, U>> \in StrictSubsetOrdering(S))
  <2> HIDE DEF T
  <2> QED
    BY <1>1, <1>2, WFMin
<1>4. PICK x \in S : U = Below(x)
  BY <1>3
<1>5. ASSUME NEW y \in S, y < x PROVE FALSE
  <2>1. Below(y) \in T /\ Below(y) \in SUBSET S /\ Below(x) \in SUBSET S
    OBVIOUS
  <2>2. S \subseteq Int
    OBVIOUS
  <2>3. \A z \in S : z < y => z < x
    BY <1>5, <2>2
  <2>4. y \in Below(x)
    BY <1>5
  <2>5. y \notin Below(y)
    BY <2>2
  <2>6. Below(y) \subseteq Below(x)
    BY <2>3
  <2> HIDE DEF Below, T
  <2>7. <<Below(y), Below(x)>> \in StrictSubsetOrdering(S)
    BY <2>1, <2>4, <2>5, <2>6 DEF StrictSubsetOrdering
  <2> QED
    BY <1>3, <1>4, <2>1, <2>7
<1>6. \E z \in S : \A y \in S : z =< y
  BY <1>5
<1> QED
  BY <1>6 DEF Min

LEMMA ReportNotEmpty ==
    Documents[1] \in Report
BY SomeReport DEF Report

LEMMA DraftType ==
    /\ Draft \in Version /\ Draft.version = 1 /\ Draft.path = 0 /\ Draft.template = NoTemplate
BY DEF Draft, Version, Content

LEMMA NoTaskType ==
    NoTask \in Task /\ NoTask.at = "idle"
BY ReportNotEmpty DEF NoTask, Task, Places, Content

LEMMA NewDefinitionType ==
    ASSUME NEW p \in Prefixes
    PROVE  /\ NewDefinition(p) \in Definition
           /\ NewDefinition(p).exists
           /\ NewDefinition(p).versions = <<Draft>> /\ NewDefinition(p).current_version = 1
<1>1. Min(Days) \in Days /\ Min(Times) \in Times
  BY MinInSet, TimesAreNumbers, SomeValues
<1>2. [enabled |-> FALSE, day |-> Min(Days), time |-> Min(Times)] \in Schedule
  BY <1>1 DEF Schedule
<1>3. <<Draft>> \in Seq(Version)
  BY DraftType
<1> QED
  BY <1>2, <1>3 DEF NewDefinition, Definition

LEMMA AbsentType ==
    Absent \in Definition /\ ~Absent.exists /\ Absent.versions = <<>>
<1> DEFINE p == CHOOSE q \in Prefixes : TRUE
           new == NewDefinition(p)
<1>1. p \in Prefixes
  BY SomeValues
<1>2. new \in Definition
  BY <1>1, NewDefinitionType
<1> HIDE DEF new
<1> DEFINE a == [new EXCEPT !.exists = FALSE, !.current_version = 0, !.versions = <<>>]
<1>3. <<>> \in Seq(Version) /\ 0 \in Nat
  OBVIOUS
<1>4. a \in Definition /\ ~a.exists /\ a.versions = <<>>
  BY <1>2, <1>3 DEF Definition
<1> QED
  BY <1>4 DEF Absent, new

(***************************************************************************)
(* What the types say of one definition and one request.                   *)
(***************************************************************************)
LEMMA RTypes ==
    ASSUME DefinitionsTypeOK
    PROVE  /\ \A r \in Report : /\ definition[r] \in Definition
                                /\ definition[r].versions \in Seq(Version)
                                /\ definition[r].current_version \in Nat
                                /\ published[r] \in SUBSET Version
                                /\ DOMAIN object[r] \in SUBSET Nat
                                /\ object[r] \in [DOMAIN object[r] -> Templates]
           /\ \A o \in Operator : /\ task[o] \in Task /\ task[o].at \in Places
                                  /\ task[o].report \in Report
                                  /\ task[o].versions \in Seq(Version)
                                  /\ task[o].template \in Content
                                  /\ task[o].path \in Nat /\ task[o].number \in Nat
           /\ definition \in [Report -> Definition] /\ task \in [Operator -> Task]
           /\ published \in [Report -> SUBSET Version] /\ DOMAIN object = Report
           /\ edits \in Nat /\ faults \in Nat /\ raced \in SUBSET Report
<1>1. \A d \in Definition : d.versions \in Seq(Version) /\ d.current_version \in Nat
  BY DEF Definition
<1>2. \A t \in Task : /\ t.at \in Places /\ t.report \in Report /\ t.versions \in Seq(Version)
                      /\ t.template \in Content /\ t.path \in Nat /\ t.number \in Nat
  BY DEF Task
<1>3. /\ definition \in [Report -> Definition] /\ task \in [Operator -> Task]
      /\ published \in [Report -> SUBSET Version] /\ DOMAIN object = Report
      /\ \A r \in Report : DOMAIN object[r] \in SUBSET Nat
                           /\ object[r] \in [DOMAIN object[r] -> Templates]
      /\ edits \in Nat /\ faults \in Nat /\ raced \in SUBSET Report
  BY DEF DefinitionsTypeOK
<1> QED
  BY <1>1, <1>2, <1>3

LEMMA VersionTypes ==
    \A v \in Version : /\ v.version \in Nat /\ v.template \in Content
                       /\ v.path \in Nat /\ v.mapped \in BOOLEAN
BY DEF Version

-----------------------------------------------------------------------------
(* Steps of one request on one report *)

(***************************************************************************)
(* Request o's step concerns report r alone: what was published stays      *)
(* published, objects and definitions stay, and races are only added.      *)
(***************************************************************************)
Frame(o, r) ==
    /\ \A q \in Report \ {r} :
          /\ definition'[q] = definition[q] /\ object'[q] = object[q]
          /\ published'[q] = published[q]
    /\ raced \subseteq raced' /\ raced' \subseteq raced \cup {r}
    /\ \A p \in Operator \ {o} : task'[p] = task[p]
    /\ published[r] \subseteq published'[r]
    /\ DOMAIN object[r] \subseteq DOMAIN object'[r]
    /\ definition[r].exists => definition'[r].exists

(***************************************************************************)
(* What it leaves to the other requests on r, if it does not race.         *)
(***************************************************************************)
OthersStand(o, r) ==
    /\ definition[r].exists =>
          Numbers(definition[r].versions) \subseteq Numbers(definition'[r].versions)
    /\ \A p \in Operator \ {o} : task[p].at \in Publishers /\ task[p].report = r =>
          /\ definition'[r].versions = definition[r].versions /\ object'[r] = object[r]
          /\ task'[o].at \in Publishers => task'[o].report # r

LEMMA FrameKeeps ==
    ASSUME RInv, NEW o \in Operator, NEW r \in Report, Frame(o, r), DefinitionsTypeOK',
           DefinitionOK(r)', r \notin raced' => UnracedOK(r)' /\ OthersStand(o, r),
           TaskOK(o)', task'[o].report \notin raced' => UnracedTaskOK(o)',
           task'[o].at \in Publishers => task'[o].report = r
    PROVE  RInv'
<1>0. /\ DefinitionsTypeOK /\ OnePublisher
      /\ \A q \in Report : DefinitionOK(q) /\ (q \notin raced => UnracedOK(q))
      /\ \A p \in Operator : TaskOK(p) /\ (task[p].report \notin raced => UnracedTaskOK(p))
  BY DEF RInv
<1>1. ASSUME NEW q \in Report, q # r
      PROVE  DefinitionOK(q)' /\ (q \notin raced' => UnracedOK(q)')
  <2>1. definition'[q] = definition[q] /\ object'[q] = object[q] /\ published'[q] = published[q]
        /\ (q \notin raced' => q \notin raced)
    BY <1>1 DEF Frame
  <2>2. DefinitionOK(q)'
    BY <1>0, <2>1 DEF DefinitionOK, ListOK, Numbered, PublishedOK, HasObject
  <2>3. q \notin raced' => UnracedOK(q)'
    BY <1>0, <2>1 DEF UnracedOK, HasCurrent, TemplatesStand
  <2> QED
    BY <2>2, <2>3
<1>2. ASSUME NEW p \in Operator, p # o
      PROVE  TaskOK(p)' /\ (task'[p].report \notin raced' => UnracedTaskOK(p)')
  <2>1. task'[p] = task[p] /\ TaskOK(p) /\ task[p].report \in Report
    BY <1>0, <1>2, RTypes DEF Frame
  <2>2. CASE task[p].report # r
    <3> DEFINE q == task[p].report
    <3>1. definition'[q] = definition[q] /\ object'[q] = object[q] /\ published'[q] = published[q]
          /\ (q \notin raced' => q \notin raced)
      BY <2>1, <2>2 DEF Frame
    <3>2. TaskOK(p)'
      BY <2>1, <3>1 DEF TaskOK, ListOK, Numbered
    <3>3. q \notin raced' => UnracedTaskOK(p)'
      BY <1>0, <2>1, <3>1 DEF UnracedTaskOK
    <3> QED
      BY <2>1, <3>2, <3>3
  <2>3. CASE task[p].report = r
    <3>1. TaskOK(p)'
      BY <2>1, <2>3 DEF TaskOK, ListOK, Frame, Numbered
    <3>2. ASSUME r \notin raced' PROVE UnracedTaskOK(p)'
      <4>1. UnracedTaskOK(p) /\ OthersStand(o, r)
        BY <1>0, <2>3, <3>2 DEF Frame
      <4>2. task[p].at \in Publishers =>
                definition'[r].versions = definition[r].versions /\ object'[r] = object[r]
        BY <1>2, <2>3, <4>1 DEF OthersStand
      <4>3. task[p].at = "rollback" =>
                Numbers(definition[r].versions) \subseteq Numbers(definition'[r].versions)
        BY <2>1, <2>3, <4>1 DEF OthersStand, TaskOK
      <4> QED
        BY <2>1, <2>3, <4>1, <4>2, <4>3 DEF UnracedTaskOK, Publishers
    <3> QED
      BY <2>1, <2>3, <3>1, <3>2
  <2> QED
    BY <2>2, <2>3
<1>3. OnePublisher'
  <2>1. ASSUME NEW p \in Operator, p # o, task'[o].at \in Publishers,
               task'[p].at \in Publishers, task'[o].report = task'[p].report
        PROVE  task'[o].report \in raced'
    <3>1. task'[p] = task[p] /\ task'[o].report = r
      BY <2>1 DEF Frame
    <3> QED
      BY <2>1, <3>1 DEF OthersStand
  <2>2. ASSUME NEW p \in Operator, NEW q \in Operator, p # o, q # o,
               task'[p].at \in Publishers, task'[q].at \in Publishers,
               task'[p].report = task'[q].report, task'[p].report \notin raced'
        PROVE  p = q
    <3>1. task'[p] = task[p] /\ task'[q] = task[q] /\ task[p].report \notin raced
      BY <2>2 DEF Frame
    <3> QED
      BY <1>0, <2>2, <3>1 DEF OnePublisher
  <2> QED
    BY <2>1, <2>2 DEF OnePublisher
<1> QED
  BY <1>1, <1>2, <1>3 DEF RInv

LEMMA OneTask ==
    ASSUME DefinitionsTypeOK, NEW o \in Operator, NEW t \in Task, task' = [task EXCEPT ![o] = t]
    PROVE  /\ task' \in [Operator -> Task] /\ task'[o] = t
           /\ \A p \in Operator \ {o} : task'[p] = task[p]
BY RTypes

(***************************************************************************)
(* What a step never takes back.                                           *)
(***************************************************************************)
Grows ==
    /\ scope' = scope /\ raced \subseteq raced'
    /\ \A q \in Report : published[q] \subseteq published'[q]
                         /\ DOMAIN object[q] \subseteq DOMAIN object'[q]

LEMMA FrameGrows ==
    ASSUME NEW o, NEW r \in Report, Frame(o, r), UNCHANGED scope
    PROVE  Grows
BY DEF Frame, Grows

(***************************************************************************)
(* A step that changes no document and reads no list: StartCreate,         *)
(* StartRollback, OperatorFails.                                           *)
(***************************************************************************)
LEMMA QuietStep ==
    ASSUME RInv, NEW o \in Operator, NEW r \in Report, NEW t \in Task,
           task' = [task EXCEPT ![o] = t], UNCHANGED <<scope, docs>>,
           edits' \in Nat, faults' \in Nat, t.at \notin Publishers,
           t.at = "rollback" =>
              /\ t.report = r /\ definition[r].exists
              /\ r \notin raced => t.number \in Numbers(definition[r].versions)
    PROVE  RInv' /\ Grows
<1>0. DefinitionsTypeOK /\ DefinitionOK(r) /\ (r \notin raced => UnracedOK(r))
  BY DEF RInv
<1>1. UNCHANGED <<definition, object, published, raced>>
  BY DEF docs
<1>2. /\ task' \in [Operator -> Task] /\ task'[o] = t
      /\ \A p \in Operator \ {o} : task'[p] = task[p]
  BY <1>0, OneTask
<1>3. DefinitionsTypeOK'
  BY <1>0, <1>1, <1>2 DEF DefinitionsTypeOK
<1>4. Frame(o, r) /\ OthersStand(o, r)
  BY <1>1, <1>2 DEF Frame, OthersStand
<1>5. DefinitionOK(r)'
  BY <1>0, <1>1 DEF DefinitionOK, ListOK, Numbered, PublishedOK, HasObject
<1>6. r \notin raced' => UnracedOK(r)'
  BY <1>0, <1>1 DEF UnracedOK, HasCurrent, TemplatesStand
<1>7. TaskOK(o)' /\ (task'[o].report \notin raced' => UnracedTaskOK(o)')
  BY <1>1, <1>2 DEF TaskOK, UnracedTaskOK, Publishers
<1>8. RInv'
  BY <1>2, <1>3, <1>4, <1>5, <1>6, <1>7, FrameKeeps
<1> QED
  BY <1>4, <1>8, FrameGrows

(***************************************************************************)
(* A publish reads the document: from then on r is raced, or this is its   *)
(* only publish.                                                           *)
(***************************************************************************)
LEMMA ReadStep ==
    ASSUME RInv, NEW o \in Operator, NEW r \in Report, NEW t \in Task,
           task' = [task EXCEPT ![o] = t], NoteRace(o, r), definition[r].exists,
           UNCHANGED <<scope, definition, object, published, faults>>, edits' \in Nat,
           t.at \in {"upload", "map"}, t.report = r, t.versions = definition[r].versions,
           t.at = "upload" => t.template \in Templates,
           t.at = "map" =>
              /\ t.template # NoTemplate => t.path \in DOMAIN object[r]
              /\ t.path <= Len(t.versions)
              /\ r \notin raced /\ t.template # NoTemplate => object[r][t.path] = t.template
    PROVE  RInv' /\ Grows
<1>0. DefinitionsTypeOK /\ DefinitionOK(r) /\ (r \notin raced => UnracedOK(r))
  BY DEF RInv
<1>1. /\ raced \subseteq raced' /\ raced' \subseteq raced \cup {r}
      /\ r \notin raced' => \A p \in Operator \ {o} : ~Publishing(p, r)
  BY DEF NoteRace
<1>2. /\ task' \in [Operator -> Task] /\ task'[o] = t
      /\ \A p \in Operator \ {o} : task'[p] = task[p]
  BY <1>0, OneTask
<1>3. DefinitionsTypeOK'
  BY <1>0, <1>1, <1>2 DEF DefinitionsTypeOK
<1>4. Frame(o, r)
  BY <1>1, <1>2 DEF Frame
<1>5. r \notin raced' => OthersStand(o, r)
  BY <1>1 DEF OthersStand, Publishing, Publishers
<1>6. DefinitionOK(r)'
  BY <1>0 DEF DefinitionOK, ListOK, Numbered, PublishedOK, HasObject
<1>7. r \notin raced' => UnracedOK(r)'
  BY <1>0, <1>1 DEF UnracedOK, HasCurrent, TemplatesStand
<1>8. TaskOK(o)'
  BY <1>0, <1>2 DEF TaskOK, Publishers, DefinitionOK, ListOK, Numbered
<1>9. task'[o].report \notin raced' => UnracedTaskOK(o)'
  BY <1>1, <1>2 DEF UnracedTaskOK
<1>10. RInv'
  BY <1>2, <1>3, <1>4, <1>5, <1>6, <1>7, <1>8, <1>9, FrameKeeps
<1> QED
  BY <1>4, <1>10, FrameGrows

(***************************************************************************)
(* A publish, of a template or of a query mapping, writes the list it read *)
(* back with one more version.                                             *)
(***************************************************************************)
LEMMA AddStep ==
    ASSUME RInv, NEW o \in Operator, NEW v \in Version,
           task[o].at \in {"publish", "map"},
           AddVersion(task[o].report, task[o].versions, v), Answer(o),
           UNCHANGED <<scope, object, raced, edits, faults>>,
           v.version = Len(task[o].versions) + 1, v.path <= v.version,
           v.template = task[o].template, v.path = task[o].path
    PROVE  RInv' /\ Grows
<1>0. /\ DefinitionsTypeOK /\ TaskOK(o) /\ OnePublisher
      /\ task[o].report \notin raced => UnracedTaskOK(o)
  BY DEF RInv
<1>r. PICK r \in Report, vs \in Seq(Version) : r = task[o].report /\ vs = task[o].versions
  BY <1>0, RTypes
<1>1. /\ DefinitionOK(r) /\ (r \notin raced => UnracedOK(r))
      /\ definition[r].exists /\ ListOK(r, vs) /\ definition[r] \in Definition
      /\ HasObject(r, v)
      /\ r \notin raced => vs = definition[r].versions
      /\ r \notin raced /\ v.template # NoTemplate => object[r][v.path] = v.template
  BY <1>0, <1>r, RTypes DEF RInv, TaskOK, UnracedTaskOK, Publishers, HasObject
<1> DEFINE new == Append(vs, v)
           d == [definition[r] EXCEPT !.versions = new, !.current_version = v.version]
<1>2. /\ new \in Seq(Version) /\ Numbered(new) /\ Numbers(new) = Numbers(vs) \cup {v.version}
      /\ {new[i] : i \in DOMAIN new} = {vs[i] : i \in DOMAIN vs} \cup {v}
  BY <1>r, <1>1, AppendNumbered DEF ListOK
<1> HIDE DEF new
<1>3. v.version \in Nat
  BY VersionTypes
<1>4. /\ d \in Definition /\ d.versions = new /\ d.current_version = v.version
      /\ d.exists = definition[r].exists
  BY <1>1, <1>2, <1>3 DEF Definition
<1>5. /\ definition' = [definition EXCEPT ![r] = d]
      /\ published' = [published EXCEPT ![r] = published[r] \cup {v}]
  BY <1>0, <1>r, RTypes DEF AddVersion, new
<1> HIDE DEF d
<1>6. /\ definition' \in [Report -> Definition] /\ definition'[r] = d
      /\ \A q \in Report \ {r} : definition'[q] = definition[q]
      /\ published' \in [Report -> SUBSET Version] /\ published'[r] = published[r] \cup {v}
      /\ \A q \in Report \ {r} : published'[q] = published[q]
  <2>1. published[r] \cup {v} \in SUBSET Version
    BY <1>0, RTypes
  <2> QED
    BY <1>0, <1>4, <1>5, <2>1, RTypes
<1>7. /\ task' \in [Operator -> Task] /\ task'[o] = NoTask
      /\ \A p \in Operator \ {o} : task'[p] = task[p]
  BY <1>0, NoTaskType, OneTask DEF Answer
<1>8. DefinitionsTypeOK'
  BY <1>0, <1>6, <1>7 DEF DefinitionsTypeOK
<1>9. Frame(o, r)
  BY <1>4, <1>6, <1>7 DEF Frame
<1>10. r \notin raced' => OthersStand(o, r)
  <2>1. ASSUME r \notin raced, NEW p \in Operator \ {o}, task[p].at \in Publishers
        PROVE  task[p].report # r
    BY <1>0, <1>r, <2>1 DEF OnePublisher, Publishers
  <2> QED
    BY <1>1, <1>2, <1>4, <1>6, <2>1 DEF OthersStand
<1>11. DefinitionOK(r)'
  <2>1. \A i \in DOMAIN new : new[i] \in published[r] \cup {v}
    BY <1>1, <1>2 DEF ListOK
  <2>2. ListOK(r, definition[r].versions)'
    BY <1>2, <1>4, <1>6, <2>1 DEF ListOK, Numbered
  <2>3. PublishedOK(r)'
    BY <1>1, <1>6 DEF DefinitionOK, PublishedOK, HasObject
  <2> QED
    BY <1>1, <1>4, <1>6, <2>2, <2>3 DEF DefinitionOK
<1>12. ASSUME r \notin raced' PROVE UnracedOK(r)'
  <2>1. UnracedOK(r) /\ vs = definition[r].versions
    BY <1>1, <1>12
  <2>2. {new[i] : i \in DOMAIN new} = published[r] \cup {v}
    BY <1>2, <2>1 DEF UnracedOK
  <2>3. HasCurrent(definition[r])'
    BY <1>2, <1>4, <1>6 DEF HasCurrent
  <2>4. TemplatesStand(r)'
    BY <1>1, <1>6, <1>12, <2>1 DEF UnracedOK, TemplatesStand, HasObject
  <2> QED
    BY <1>4, <1>6, <2>2, <2>3, <2>4 DEF UnracedOK
<1>13. TaskOK(o)' /\ UnracedTaskOK(o)' /\ task'[o].at \notin Publishers
  BY <1>7, NoTaskType DEF TaskOK, UnracedTaskOK, Publishers
<1>14. RInv'
  BY <1>8, <1>9, <1>10, <1>11, <1>12, <1>13, FrameKeeps
<1> QED
  BY <1>9, <1>14, FrameGrows

-----------------------------------------------------------------------------
(* The steps *)

LEMMA StartCreateStep ==
    ASSUME RInv, NEW o \in Operator, NEW r \in Report, StartCreate(o, r), UNCHANGED scope
    PROVE  RInv' /\ Grows
<1> DEFINE t == [NoTask EXCEPT !.at = "create", !.report = r]
<1>0. DefinitionsTypeOK
  BY DEF RInv
<1>1. t \in Task /\ t.at = "create"
  BY NoTaskType DEF Task, Places
<1>2. task' = [task EXCEPT ![o] = t] /\ UNCHANGED <<docs, faults>> /\ edits' = edits + 1
  BY DEF StartCreate, Begin
<1> HIDE DEF t
<1>3. edits' \in Nat /\ faults' \in Nat
  BY <1>0, <1>2, RTypes
<1> QED
  BY <1>1, <1>2, <1>3, QuietStep DEF Publishers

LEMMA StartRollbackStep ==
    ASSUME RInv, NEW o \in Operator, NEW r \in Report, StartRollback(o, r), UNCHANGED scope
    PROVE  RInv' /\ Grows
<1>0. DefinitionsTypeOK
  BY DEF RInv
<1>1. PICK n \in Numbers(definition[r].versions) :
          task' = [task EXCEPT ![o] = [NoTask EXCEPT !.at = "rollback", !.report = r, !.number = n]]
  BY DEF StartRollback
<1> DEFINE t == [NoTask EXCEPT !.at = "rollback", !.report = r, !.number = n]
<1>2. n \in Nat
  <2>1. PICK i \in DOMAIN definition[r].versions : n = definition[r].versions[i].version
    BY DEF Numbers
  <2>2. definition[r].versions[i] \in Version
    BY <1>0, RTypes
  <2> QED
    BY <2>1, <2>2, VersionTypes
<1>3. t \in Task /\ t.at = "rollback" /\ t.report = r /\ t.number = n
  BY <1>2, NoTaskType DEF Task, Places
<1>4. task' = [task EXCEPT ![o] = t]
  BY <1>1
<1> HIDE DEF t
<1>5. UNCHANGED <<docs, faults>> /\ edits' = edits + 1 /\ definition[r].exists
  BY DEF StartRollback, Begin, Editable
<1>6. edits' \in Nat /\ faults' \in Nat
  BY <1>0, <1>5, RTypes
<1> QED
  BY <1>3, <1>4, <1>5, <1>6, QuietStep DEF Publishers

LEMMA OperatorFailsStep ==
    ASSUME RInv, NEW o \in Operator, OperatorFails(o), UNCHANGED scope
    PROVE  RInv' /\ Grows
<1>0. DefinitionsTypeOK
  BY DEF RInv
<1>1. task' = [task EXCEPT ![o] = NoTask] /\ UNCHANGED <<docs, edits>> /\ faults' = faults + 1
  BY DEF OperatorFails, Answer, Fault
<1>2. edits' \in Nat /\ faults' \in Nat /\ task[o].report \in Report
  BY <1>0, <1>1, RTypes
<1> QED
  BY <1>1, <1>2, NoTaskType, QuietStep DEF Publishers

LEMMA StartPublishStep ==
    ASSUME RInv, NEW o \in Operator, NEW r \in Report, StartPublish(o, r), UNCHANGED scope
    PROVE  RInv' /\ Grows
<1>0. DefinitionsTypeOK /\ definition[r].versions \in Seq(Version)
  BY RTypes DEF RInv
<1>1. PICK x \in Templates :
          task' = [task EXCEPT ![o] = [NoTask EXCEPT !.at = "upload", !.report = r,
                                  !.versions = definition[r].versions, !.template = x]]
  BY DEF StartPublish
<1> DEFINE t == [NoTask EXCEPT !.at = "upload", !.report = r,
                               !.versions = definition[r].versions, !.template = x]
<1>2. /\ t \in Task /\ t.at = "upload" /\ t.report = r /\ t.versions = definition[r].versions
      /\ t.template = x
  BY <1>0, NoTaskType DEF Task, Places, Content
<1>3. task' = [task EXCEPT ![o] = t]
  BY <1>1
<1> HIDE DEF t
<1>4. /\ NoteRace(o, r) /\ definition[r].exists /\ edits' = edits + 1
      /\ UNCHANGED <<definition, object, published, faults>>
  BY DEF StartPublish, Begin, Editable
<1>5. edits' \in Nat
  BY <1>0, <1>4, RTypes
<1> QED
  BY <1>2, <1>3, <1>4, <1>5, ReadStep

(***************************************************************************)
(* The version that a query mapping copies is listed, so its template was  *)
(* stored, under a number not above the list's length.                     *)
(***************************************************************************)
LEMMA StartMappingStep ==
    ASSUME RInv, NEW o \in Operator, NEW r \in Report, StartMapping(o, r), UNCHANGED scope
    PROVE  RInv' /\ Grows
<1>0. /\ DefinitionsTypeOK /\ definition[r].versions \in Seq(Version)
      /\ DefinitionOK(r) /\ (r \notin raced => UnracedOK(r))
  BY RTypes DEF RInv
<1>v. PICK i \in DOMAIN definition[r].versions : Current(definition[r]) = definition[r].versions[i]
  BY CurrentIsListed DEF StartMapping
<1>w. PICK v \in Version : v = Current(definition[r]) /\ v = definition[r].versions[i]
  BY <1>0, <1>v
<1>1. /\ v \in published[r] /\ v.version = i /\ i <= Len(definition[r].versions)
      /\ HasObject(r, v) /\ v.path <= v.version
      /\ r \notin raced /\ v.template # NoTemplate => object[r][v.path] = v.template
  BY <1>0, <1>v, <1>w
  DEF DefinitionOK, ListOK, Numbered, PublishedOK, HasObject, UnracedOK, TemplatesStand
<1>2. v.template \in Content /\ v.path \in Nat /\ v.version \in Nat
  BY VersionTypes
<1> DEFINE t == [NoTask EXCEPT !.at = "map", !.report = r, !.versions = definition[r].versions,
                               !.template = v.template, !.path = v.path]
<1>3. /\ t \in Task /\ t.at = "map" /\ t.report = r /\ t.versions = definition[r].versions
      /\ t.template = v.template /\ t.path = v.path
  BY <1>0, <1>2, NoTaskType DEF Task, Places
<1>4. task' = [task EXCEPT ![o] = t]
  BY <1>w DEF StartMapping
<1> HIDE DEF t
<1>5. /\ NoteRace(o, r) /\ definition[r].exists /\ edits' = edits + 1
      /\ UNCHANGED <<definition, object, published, faults>>
  BY DEF StartMapping, Begin, Editable
<1>6. edits' \in Nat
  BY <1>0, <1>5, RTypes
<1>7. t.path <= Len(t.versions)
  <2>1. Len(definition[r].versions) \in Nat
    BY <1>0
  <2> QED
    BY <1>1, <1>2, <1>3, <2>1
<1> QED
  BY <1>1, <1>3, <1>4, <1>5, <1>6, <1>7, ReadStep DEF HasObject

LEMMA PublishStep ==
    ASSUME RInv, NEW o \in Operator, Publish(o), UNCHANGED scope
    PROVE  RInv' /\ Grows
<1>0. DefinitionsTypeOK /\ TaskOK(o)
  BY DEF RInv
<1>1. task[o].at = "publish"
  BY DEF Publish
<1>2. /\ task[o].path = Len(task[o].versions) + 1
      /\ task[o].path \in Nat /\ task[o].template \in Content
  BY <1>0, <1>1, RTypes DEF TaskOK
<1> DEFINE v == [version |-> task[o].path, template |-> task[o].template,
                 path |-> task[o].path, mapped |-> FALSE]
<1>3. /\ v \in Version /\ v.version = task[o].path /\ v.path = task[o].path
      /\ v.template = task[o].template
  BY <1>2 DEF Version
<1>4. AddVersion(task[o].report, task[o].versions, v) /\ Answer(o)
      /\ UNCHANGED <<object, raced, edits, faults>>
  BY DEF Publish
<1> HIDE DEF v
<1>5. v.path <= v.version
  BY <1>2, <1>3
<1> QED
  BY <1>1, <1>2, <1>3, <1>4, <1>5, AddStep

LEMMA PublishMappingStep ==
    ASSUME RInv, NEW o \in Operator, PublishMapping(o), UNCHANGED scope
    PROVE  RInv' /\ Grows
<1>0. DefinitionsTypeOK /\ TaskOK(o) /\ task[o].versions \in Seq(Version)
  BY RTypes DEF RInv
<1>1. task[o].at = "map"
  BY DEF PublishMapping
<1>2. /\ Numbered(task[o].versions) /\ task[o].path <= Len(task[o].versions)
      /\ task[o].path \in Nat /\ task[o].template \in Content /\ Len(task[o].versions) \in Nat
  BY <1>0, <1>1, RTypes DEF TaskOK, Publishers, ListOK
<1>3. NextVersion(task[o].versions) = Len(task[o].versions) + 1
  BY <1>0, <1>2, NextVersionCounts
<1> DEFINE n == Len(task[o].versions) + 1
           v == [version |-> n, template |-> task[o].template, path |-> task[o].path,
                 mapped |-> TRUE]
<1>4. n \in Nat /\ task[o].path <= n
  BY <1>2
<1>5. v \in Version /\ v.version = n /\ v.path = task[o].path /\ v.template = task[o].template
  BY <1>2, <1>4 DEF Version
<1>6. AddVersion(task[o].report, task[o].versions, v) /\ Answer(o)
      /\ UNCHANGED <<object, raced, edits, faults>>
  BY <1>3 DEF PublishMapping
<1> HIDE DEF v
<1> QED
  BY <1>1, <1>4, <1>5, <1>6, AddStep

(***************************************************************************)
(* An upload writes over no object that a published version points at,     *)
(* unless publishes overlapped: all those have lower numbers.              *)
(***************************************************************************)
LEMMA UploadStep ==
    ASSUME RInv, NEW o \in Operator, Upload(o), UNCHANGED scope
    PROVE  RInv' /\ Grows
<1>0. /\ DefinitionsTypeOK /\ TaskOK(o) /\ OnePublisher /\ task[o] \in Task
      /\ task[o].report \notin raced => UnracedTaskOK(o)
      /\ task[o].at = "upload"
  BY RTypes DEF RInv, Upload
<1>r. PICK r \in Report, vs \in Seq(Version), x \in Templates :
          r = task[o].report /\ vs = task[o].versions /\ x = task[o].template
  BY <1>0, RTypes DEF TaskOK
<1>1. /\ DefinitionOK(r) /\ (r \notin raced => UnracedOK(r))
      /\ definition[r].exists /\ ListOK(r, vs)
      /\ r \notin raced => vs = definition[r].versions
  BY <1>0, <1>r DEF RInv, TaskOK, UnracedTaskOK, Publishers
<1>n. PICK n \in Nat : n = NextVersion(vs) /\ n = Len(vs) + 1
  BY <1>1, NextVersionCounts DEF ListOK
<1> DEFINE t == [task[o] EXCEPT !.at = "publish", !.path = n]
           f == [k \in DOMAIN object[r] \cup {n} |-> IF k = n THEN x ELSE object[r][k]]
<1>2. /\ t \in Task /\ t.at = "publish" /\ t.report = r /\ t.versions = vs
      /\ t.template = x /\ t.path = n
  BY <1>0, <1>r DEF Task, Places
<1>3. task' = [task EXCEPT ![o] = t]
  BY <1>0, <1>r, <1>n, RTypes DEF Upload
<1>4. object' = [object EXCEPT ![r] = f] /\ UNCHANGED <<definition, published, raced, edits, faults>>
  BY <1>0, <1>r, <1>n, RTypes DEF Upload
<1>5. /\ DOMAIN f = DOMAIN object[r] \cup {n} /\ DOMAIN f \subseteq Nat
      /\ f \in [DOMAIN f -> Templates] /\ f[n] = x
      /\ \A k \in DOMAIN object[r] : k # n => f[k] = object[r][k]
  BY <1>0, RTypes
<1> HIDE DEF t, f
<1>6. /\ DOMAIN object' = Report /\ object'[r] = f
      /\ \A q \in Report \ {r} : object'[q] = object[q]
  BY <1>0, <1>4, RTypes
<1>7. /\ task' \in [Operator -> Task] /\ task'[o] = t
      /\ \A p \in Operator \ {o} : task'[p] = task[p]
  BY <1>0, <1>2, <1>3, OneTask
<1>8. DefinitionsTypeOK'
  <2>1. \A q \in Report : DOMAIN object'[q] \subseteq Nat
                          /\ object'[q] \in [DOMAIN object'[q] -> Templates]
    BY <1>0, <1>5, <1>6, RTypes
  <2> QED
    BY <1>0, <1>4, <1>6, <1>7, <2>1 DEF DefinitionsTypeOK
<1>9. Frame(o, r)
  BY <1>4, <1>5, <1>6, <1>7 DEF Frame
<1>10. r \notin raced' => OthersStand(o, r)
  <2>1. ASSUME r \notin raced, NEW p \in Operator \ {o}, task[p].at \in Publishers
        PROVE  task[p].report # r
    BY <1>0, <1>r, <2>1 DEF OnePublisher, Publishers
  <2> QED
    BY <1>4, <2>1 DEF OthersStand
<1>11. DefinitionOK(r)'
  BY <1>1, <1>4, <1>5, <1>6 DEF DefinitionOK, ListOK, Numbered, PublishedOK, HasObject
<1>12. ASSUME r \notin raced' PROVE UnracedOK(r)'
  <2>1. UnracedOK(r) /\ vs = definition[r].versions
    BY <1>1, <1>4, <1>12
  <2>2. \A v \in published[r] : v.path # n
    <3>1. ASSUME NEW v \in published[r] PROVE v.path < n
      <4>1. PICK i \in DOMAIN vs : v = vs[i]
        BY <2>1 DEF UnracedOK
      <4>2. v.version = i /\ v.path <= v.version /\ v.path \in Nat
        BY <1>0, <1>1, <4>1, RTypes, VersionTypes DEF ListOK, Numbered, DefinitionOK, PublishedOK
      <4> QED
        BY <1>n, <4>1, <4>2
    <3>2. \A v \in published[r] : v.path \in Nat
      BY <1>0, RTypes, VersionTypes
    <3> QED
      BY <3>1, <3>2
  <2>3. TemplatesStand(r)'
    BY <1>4, <1>5, <1>6, <2>1, <2>2 DEF UnracedOK, TemplatesStand
  <2> QED
    BY <1>4, <2>1, <2>3 DEF UnracedOK, HasCurrent
<1>13. TaskOK(o)'
  <2>1. ListOK(r, vs)'
    BY <1>1, <1>4 DEF ListOK, Numbered
  <2> QED
    BY <1>1, <1>2, <1>n, <1>4, <1>5, <1>6, <1>7, <2>1 DEF TaskOK, Publishers
<1>14. task'[o].report \notin raced' => UnracedTaskOK(o)'
  BY <1>1, <1>2, <1>4, <1>5, <1>6, <1>7 DEF UnracedTaskOK
<1>15. task'[o].report = r
  BY <1>2, <1>7
<1>16. RInv'
  BY <1>8, <1>9, <1>10, <1>11, <1>12, <1>13, <1>14, <1>15, FrameKeeps
<1> QED
  BY <1>9, <1>16, FrameGrows

(***************************************************************************)
(* A creation of a report that was created meanwhile races; otherwise it   *)
(* is the first to write it.                                               *)
(***************************************************************************)
LEMMA CreateStep ==
    ASSUME RInv, NEW o \in Operator, Create(o), UNCHANGED scope
    PROVE  RInv' /\ Grows
<1>0. DefinitionsTypeOK
  BY DEF RInv
<1>r. PICK r \in Report : r = task[o].report
  BY <1>0, RTypes
<1>1. DefinitionOK(r) /\ \A p \in Operator : TaskOK(p)
  BY DEF RInv
<1>2. PICK pre \in Prefixes : definition' = [definition EXCEPT ![r] = NewDefinition(pre)]
  BY <1>r DEF Create
<1>3. /\ published' = [published EXCEPT ![r] = published[r] \cup {Draft}]
      /\ raced \subseteq raced' /\ raced' \subseteq raced \cup {r}
      /\ definition[r].exists => r \in raced'
      /\ Answer(o) /\ UNCHANGED <<object, edits, faults>>
  BY <1>0, <1>r, RTypes DEF Create
<1> DEFINE d == NewDefinition(pre)
<1>4. d \in Definition /\ d.exists /\ d.versions = <<Draft>> /\ d.current_version = 1
  BY NewDefinitionType
<1> HIDE DEF d
<1>5. /\ definition' \in [Report -> Definition] /\ definition'[r] = d
      /\ \A q \in Report \ {r} : definition'[q] = definition[q]
  BY <1>0, <1>2, <1>4, RTypes DEF d
<1>6. /\ published' \in [Report -> SUBSET Version] /\ published'[r] = published[r] \cup {Draft}
      /\ \A q \in Report \ {r} : published'[q] = published[q]
  <2>1. published[r] \cup {Draft} \in SUBSET Version
    BY <1>0, DraftType, RTypes
  <2> QED
    BY <1>0, <1>3, <2>1, RTypes
<1>7. /\ task' \in [Operator -> Task] /\ task'[o] = NoTask
      /\ \A p \in Operator \ {o} : task'[p] = task[p]
  BY <1>0, <1>3, NoTaskType, OneTask DEF Answer
<1>8. DefinitionsTypeOK'
  BY <1>0, <1>3, <1>5, <1>6, <1>7 DEF DefinitionsTypeOK
<1>9. Frame(o, r)
  BY <1>3, <1>4, <1>5, <1>6, <1>7 DEF Frame
<1>10. DOMAIN <<Draft>> = {1} /\ <<Draft>>[1] = Draft
  OBVIOUS
<1>11. DefinitionOK(r)'
  <2>1. ListOK(r, definition[r].versions)'
    BY <1>4, <1>5, <1>6, <1>10, DraftType DEF ListOK, Numbered
  <2>2. PublishedOK(r)'
    BY <1>1, <1>3, <1>6, DraftType DEF DefinitionOK, PublishedOK, HasObject
  <2> QED
    BY <1>4, <1>5, <2>1, <2>2 DEF DefinitionOK
<1>12. ASSUME r \notin raced' PROVE UnracedOK(r)' /\ OthersStand(o, r)
  <2>1. ~definition[r].exists /\ published[r] = {}
    BY <1>1, <1>3, <1>12 DEF DefinitionOK
  <2>2. \A p \in Operator : task[p].at \in Publishers => task[p].report # r
    BY <1>1, <2>1 DEF TaskOK
  <2>3. {d.versions[i] : i \in DOMAIN d.versions} = published'[r]
    BY <1>4, <1>6, <1>10, <2>1
  <2>4. HasCurrent(definition[r])'
    BY <1>4, <1>5, <1>10, DraftType DEF HasCurrent, Numbers
  <2>5. TemplatesStand(r)'
    BY <1>6, <2>1, DraftType DEF TemplatesStand
  <2> QED
    BY <1>5, <2>1, <2>2, <2>3, <2>4, <2>5 DEF UnracedOK, OthersStand
<1>13. TaskOK(o)' /\ UnracedTaskOK(o)' /\ task'[o].at \notin Publishers
  BY <1>7, NoTaskType DEF TaskOK, UnracedTaskOK, Publishers
<1>14. RInv'
  BY <1>8, <1>9, <1>11, <1>12, <1>13, FrameKeeps
<1> QED
  BY <1>9, <1>14, FrameGrows

LEMMA RollbackStep ==
    ASSUME RInv, NEW o \in Operator, Rollback(o), UNCHANGED scope
    PROVE  RInv' /\ Grows
<1>0. /\ DefinitionsTypeOK /\ TaskOK(o) /\ task[o].at = "rollback"
      /\ task[o].report \notin raced => UnracedTaskOK(o)
  BY DEF RInv, Rollback
<1>r. PICK r \in Report, n \in Nat : r = task[o].report /\ n = task[o].number
  BY <1>0, RTypes
<1>1. /\ DefinitionOK(r) /\ (r \notin raced => UnracedOK(r)) /\ definition[r] \in Definition
      /\ r \notin raced => n \in Numbers(definition[r].versions)
  BY <1>0, <1>r, RTypes DEF RInv, UnracedTaskOK
<1> DEFINE d == [definition[r] EXCEPT !.current_version = n]
<1>2. /\ d \in Definition /\ d.exists = definition[r].exists /\ d.current_version = n
      /\ d.versions = definition[r].versions
  BY <1>1 DEF Definition
<1>3. definition' = [definition EXCEPT ![r] = d] /\ Answer(o)
      /\ UNCHANGED <<object, published, raced, edits, faults>>
  BY <1>0, <1>r, RTypes DEF Rollback
<1> HIDE DEF d
<1>4. /\ definition' \in [Report -> Definition] /\ definition'[r] = d
      /\ \A q \in Report \ {r} : definition'[q] = definition[q]
  BY <1>0, <1>2, <1>3, RTypes
<1>5. /\ task' \in [Operator -> Task] /\ task'[o] = NoTask
      /\ \A p \in Operator \ {o} : task'[p] = task[p]
  BY <1>0, <1>3, NoTaskType, OneTask DEF Answer
<1>6. DefinitionsTypeOK'
  BY <1>0, <1>3, <1>4, <1>5 DEF DefinitionsTypeOK
<1>7. Frame(o, r) /\ OthersStand(o, r)
  BY <1>2, <1>3, <1>4, <1>5, NoTaskType DEF Frame, OthersStand, Publishers
<1>8. DefinitionOK(r)'
  BY <1>1, <1>2, <1>3, <1>4 DEF DefinitionOK, ListOK, Numbered, PublishedOK, HasObject
<1>9. r \notin raced' => UnracedOK(r)'
  BY <1>1, <1>2, <1>3, <1>4 DEF UnracedOK, HasCurrent, TemplatesStand
<1>10. TaskOK(o)' /\ UnracedTaskOK(o)' /\ task'[o].at \notin Publishers
  BY <1>5, NoTaskType DEF TaskOK, UnracedTaskOK, Publishers
<1>11. RInv'
  BY <1>6, <1>7, <1>8, <1>9, <1>10, FrameKeeps
<1> QED
  BY <1>7, <1>11, FrameGrows

(***************************************************************************)
(* A field of its own: neither the versions nor the current one change.    *)
(***************************************************************************)
LEMMA FieldStep ==
    ASSUME RInv, NEW r \in Report, NEW d \in Definition,
           definition' = [definition EXCEPT ![r] = d],
           d.exists = definition[r].exists, d.versions = definition[r].versions,
           d.current_version = definition[r].current_version,
           UNCHANGED <<scope, object, published, raced, faults, task>>, edits' \in Nat
    PROVE  RInv' /\ Grows
<1>0. /\ DefinitionsTypeOK /\ OnePublisher
      /\ \A q \in Report : DefinitionOK(q) /\ (q \notin raced => UnracedOK(q))
      /\ \A p \in Operator : TaskOK(p) /\ (task[p].report \notin raced => UnracedTaskOK(p))
  BY DEF RInv
<1>1. /\ definition' \in [Report -> Definition]
      /\ \A q \in Report : /\ definition'[q].exists = definition[q].exists
                           /\ definition'[q].versions = definition[q].versions
                           /\ definition'[q].current_version = definition[q].current_version
  BY <1>0, RTypes
<1>2. DefinitionsTypeOK'
  BY <1>0, <1>1 DEF DefinitionsTypeOK
<1>3. \A q \in Report : DefinitionOK(q)'
  BY <1>0, <1>1 DEF DefinitionOK, ListOK, Numbered, PublishedOK, HasObject
<1>4. \A q \in Report : q \notin raced' => UnracedOK(q)'
  BY <1>0, <1>1 DEF UnracedOK, HasCurrent, TemplatesStand
<1>5. \A p \in Operator : task[p].report \in Report
  BY <1>0, RTypes
<1>6. \A p \in Operator : TaskOK(p)'
  BY <1>0, <1>1, <1>5 DEF TaskOK, ListOK, Numbered
<1>7. \A p \in Operator : task'[p].report \notin raced' => UnracedTaskOK(p)'
  BY <1>0, <1>1, <1>5 DEF UnracedTaskOK
<1>8. OnePublisher'
  BY <1>0 DEF OnePublisher
<1> QED
  BY <1>2, <1>3, <1>4, <1>6, <1>7, <1>8 DEF RInv, Grows

LEMMA UpdateStep ==
    ASSUME RInv, NEW r \in Report, Update(r), UNCHANGED scope
    PROVE  RInv' /\ Grows
<1>0. DefinitionsTypeOK /\ definition[r] \in Definition
  BY RTypes DEF RInv
<1>1. /\ UNCHANGED <<scope, object, published, raced, faults, task>> /\ edits' = edits + 1
      /\ Change(r)
  BY DEF Update, Begin
<1>2. edits' \in Nat
  BY <1>0, <1>1, RTypes
<1> DEFINE Changed == \E d \in Definition :
                         /\ definition' = [definition EXCEPT ![r] = d]
                         /\ d.exists = definition[r].exists
                         /\ d.versions = definition[r].versions
                         /\ d.current_version = definition[r].current_version
<1>3. Changed
  <2>1. ASSUME NEW s \in Schedule, definition' = [definition EXCEPT ![r].schedule = s]
        PROVE  Changed
    <3> DEFINE d == [definition[r] EXCEPT !.schedule = s]
    <3>1. /\ d \in Definition /\ d.exists = definition[r].exists
          /\ d.versions = definition[r].versions
          /\ d.current_version = definition[r].current_version
      BY <1>0 DEF Definition
    <3>2. definition' = [definition EXCEPT ![r] = d]
      BY <1>0, <2>1, RTypes
    <3> HIDE DEF d
    <3> QED
      BY <3>1, <3>2
  <2>2. ASSUME NEW a \in BOOLEAN, definition' = [definition EXCEPT ![r].allowlisted = a]
        PROVE  Changed
    <3> DEFINE d == [definition[r] EXCEPT !.allowlisted = a]
    <3>1. /\ d \in Definition /\ d.exists = definition[r].exists
          /\ d.versions = definition[r].versions
          /\ d.current_version = definition[r].current_version
      BY <1>0 DEF Definition
    <3>2. definition' = [definition EXCEPT ![r] = d]
      BY <1>0, <2>2, RTypes
    <3> HIDE DEF d
    <3> QED
      BY <3>1, <3>2
  <2>3. ASSUME NEW p \in Prefixes, definition' = [definition EXCEPT ![r].prefix = p]
        PROVE  Changed
    <3> DEFINE d == [definition[r] EXCEPT !.prefix = p]
    <3>1. /\ d \in Definition /\ d.exists = definition[r].exists
          /\ d.versions = definition[r].versions
          /\ d.current_version = definition[r].current_version
      BY <1>0 DEF Definition
    <3>2. definition' = [definition EXCEPT ![r] = d]
      BY <1>0, <2>3, RTypes
    <3> HIDE DEF d
    <3> QED
      BY <3>1, <3>2
  <2>4. ASSUME definition' = [definition EXCEPT ![r].archived = TRUE]
        PROVE  Changed
    <3> DEFINE d == [definition[r] EXCEPT !.archived = TRUE]
    <3>1. /\ d \in Definition /\ d.exists = definition[r].exists
          /\ d.versions = definition[r].versions
          /\ d.current_version = definition[r].current_version
      BY <1>0 DEF Definition
    <3>2. definition' = [definition EXCEPT ![r] = d]
      BY <1>0, <2>4, RTypes
    <3> HIDE DEF d
    <3> QED
      BY <3>1, <3>2
  <2> QED
    BY <1>1, <2>1, <2>2, <2>3, <2>4 DEF Change
<1>4. PICK d \in Definition :
          /\ definition' = [definition EXCEPT ![r] = d]
          /\ d.exists = definition[r].exists /\ d.versions = definition[r].versions
          /\ d.current_version = definition[r].current_version
  BY <1>3
<1> QED
  BY <1>1, <1>2, <1>4, FieldStep

(***************************************************************************)
(* Every step of an operator keeps the invariant and takes nothing back.   *)
(***************************************************************************)
LEMMA RNextInv ==
    ASSUME RInv, RNext
    PROVE  RInv' /\ Grows
<1>0. UNCHANGED scope
  BY DEF RNext
<1>1. ASSUME NEW o \in Operator, NEW r \in Report, StartCreate(o, r)
      PROVE  RInv' /\ Grows
  BY <1>0, <1>1, StartCreateStep
<1>2. ASSUME NEW o \in Operator, NEW r \in Report, StartPublish(o, r)
      PROVE  RInv' /\ Grows
  BY <1>0, <1>2, StartPublishStep
<1>3. ASSUME NEW o \in Operator, NEW r \in Report, StartMapping(o, r)
      PROVE  RInv' /\ Grows
  BY <1>0, <1>3, StartMappingStep
<1>4. ASSUME NEW o \in Operator, NEW r \in Report, StartRollback(o, r)
      PROVE  RInv' /\ Grows
  BY <1>0, <1>4, StartRollbackStep
<1>5. ASSUME NEW o \in Operator, Create(o) PROVE RInv' /\ Grows
  BY <1>0, <1>5, CreateStep
<1>6. ASSUME NEW o \in Operator, Upload(o) PROVE RInv' /\ Grows
  BY <1>0, <1>6, UploadStep
<1>7. ASSUME NEW o \in Operator, Publish(o) PROVE RInv' /\ Grows
  BY <1>0, <1>7, PublishStep
<1>8. ASSUME NEW o \in Operator, PublishMapping(o) PROVE RInv' /\ Grows
  BY <1>0, <1>8, PublishMappingStep
<1>9. ASSUME NEW o \in Operator, Rollback(o) PROVE RInv' /\ Grows
  BY <1>0, <1>9, RollbackStep
<1>10. ASSUME NEW o \in Operator, OperatorFails(o) PROVE RInv' /\ Grows
  BY <1>0, <1>10, OperatorFailsStep
<1>11. ASSUME NEW r \in Report, Update(r) PROVE RInv' /\ Grows
  BY <1>0, <1>11, UpdateStep
<1> QED
  BY <1>1, <1>2, <1>3, <1>4, <1>5, <1>6, <1>7, <1>8, <1>9, <1>10, <1>11 DEF RNext

(***************************************************************************)
(* A step of the executor, which only reads the definitions.               *)
(***************************************************************************)
LEMMA ReaderKeepsRInv ==
    ASSUME RInv, UNCHANGED <<scope, docs, edits, task>>, faults' \in Nat
    PROVE  RInv' /\ Grows
<1>0. /\ DefinitionsTypeOK /\ OnePublisher
      /\ \A q \in Report : DefinitionOK(q) /\ (q \notin raced => UnracedOK(q))
      /\ \A p \in Operator : TaskOK(p) /\ (task[p].report \notin raced => UnracedTaskOK(p))
  BY DEF RInv
<1>1. UNCHANGED <<definition, object, published, raced>>
  BY DEF docs
<1>2. DefinitionsTypeOK'
  BY <1>0, <1>1 DEF DefinitionsTypeOK
<1>3. \A q \in Report : DefinitionOK(q)' /\ (q \notin raced' => UnracedOK(q)')
  BY <1>0, <1>1
  DEF DefinitionOK, ListOK, Numbered, PublishedOK, HasObject, UnracedOK, HasCurrent, TemplatesStand
<1>4. \A p \in Operator : TaskOK(p)' /\ (task'[p].report \notin raced' => UnracedTaskOK(p)')
  BY <1>0, <1>1 DEF TaskOK, ListOK, Numbered, UnracedTaskOK
<1>5. OnePublisher'
  BY <1>0, <1>1 DEF OnePublisher
<1> QED
  BY <1>1, <1>2, <1>3, <1>4, <1>5 DEF RInv, Grows

(***************************************************************************)
(* Unless its publishes overlapped, a definition lists what was published, *)
(* its current version among it, and the templates stand.                  *)
(***************************************************************************)
LEMMA RInvVersionsStand ==
    ASSUME RInv
    PROVE  DefinitionsTypeOK /\ VersionsStand
<1>1. ASSUME NEW r \in Report \ raced, definition[r].exists
      PROVE  ListsWhatWasPublished(r) /\ HasCurrent(definition[r]) /\ TemplatesStand(r)
  BY <1>1 DEF RInv, DefinitionOK, UnracedOK, ListOK, Numbered, ListsWhatWasPublished
<1> QED
  BY <1>1 DEF RInv, VersionsStand

-----------------------------------------------------------------------------
(* The start *)

(***************************************************************************)
(* A complete definition: a draft, a template at path 2, and its mapped    *)
(* copy, the current one.                                                  *)
(***************************************************************************)
LEMMA ReadyType ==
    ASSUME NEW p \in Prefixes, NEW t \in Templates
    PROVE  /\ Ready(p, t) \in Definition
           /\ Ready(p, t).exists /\ Ready(p, t).current_version = 3
           /\ \E v, m \in Version :
                 /\ Ready(p, t).versions = <<Draft, v, m>>
                 /\ v.version = 2 /\ v.template = t /\ v.path = 2
                 /\ m.version = 3 /\ m.template = t /\ m.path = 2
<1> DEFINE v == [version |-> 2, template |-> t, path |-> 2, mapped |-> FALSE]
           m == [v EXCEPT !.version = 3, !.mapped = TRUE]
           vs == <<Draft, v, m>>
           new == NewDefinition(p)
           d == [new EXCEPT !.schedule.enabled = TRUE, !.allowlisted = TRUE,
                            !.current_version = 3, !.versions = vs]
<1>1. /\ v \in Version /\ v.version = 2 /\ v.template = t /\ v.path = 2
      /\ m \in Version /\ m.version = 3 /\ m.template = t /\ m.path = 2
  BY DEF Version, Content
<1>2. Ready(p, t) = d
  BY DEF Ready
<1> HIDE DEF v, m
<1>3. vs \in Seq(Version)
  BY <1>1, DraftType
<1>4. new \in Definition /\ new.exists
  BY NewDefinitionType
<1> HIDE DEF new, vs
<1>5. new.schedule \in Schedule
  BY <1>4 DEF Definition
<1> DEFINE s == [new.schedule EXCEPT !.enabled = TRUE]
<1>6. s \in Schedule
  BY <1>5 DEF Schedule
<1> HIDE DEF s
<1>7. d = [new EXCEPT !.schedule = s, !.allowlisted = TRUE, !.current_version = 3, !.versions = vs]
  BY <1>4 DEF s, Definition
<1>8. d \in Definition /\ d.exists /\ d.current_version = 3 /\ d.versions = vs
  <2> HIDE DEF d
  <2> QED
    BY <1>3, <1>4, <1>6, <1>7 DEF Definition
<1> QED
  BY <1>1, <1>2, <1>8 DEF vs

LEMMA RInitInv ==
    ASSUME RInit
    PROVE  RInv
<1>1. PICK t \in Templates, prefix \in [Report -> Prefixes] :
          /\ definition = [r \in Report |-> IF r \in scope.ready THEN Ready(prefix[r], t) ELSE Absent]
          /\ object = [r \in Report |-> [n \in {k \in {2} : r \in scope.ready} |-> t]]
  BY DEF RInit
<1>2. /\ scope \in Scopes /\ raced = {} /\ edits = 0 /\ faults = 0
      /\ task = [o \in Operator |-> NoTask]
      /\ published = [r \in Report |->
                        {definition[r].versions[i] : i \in DOMAIN definition[r].versions}]
  BY DEF RInit
<1>3. ASSUME NEW r \in Report
      PROVE  /\ definition[r] \in Definition /\ published[r] \in SUBSET Version
             /\ DOMAIN object[r] \in SUBSET Nat
             /\ object[r] \in [DOMAIN object[r] -> Templates]
             /\ DefinitionOK(r) /\ UnracedOK(r)
  <2>0. published[r] = {definition[r].versions[i] : i \in DOMAIN definition[r].versions}
    BY <1>2
  <2>1. CASE r \in scope.ready
    <3>1. definition[r] = Ready(prefix[r], t) /\ object[r] = [n \in {2} |-> t]
          /\ prefix[r] \in Prefixes
      BY <1>1, <2>1
    <3>2. PICK v \in Version, m \in Version :
              /\ definition[r].versions = <<Draft, v, m>>
              /\ v.version = 2 /\ v.template = t /\ v.path = 2
              /\ m.version = 3 /\ m.template = t /\ m.path = 2
      BY <3>1, ReadyType
    <3>3. definition[r] \in Definition /\ definition[r].exists /\ definition[r].current_version = 3
      BY <3>1, ReadyType
    <3> DEFINE vs == definition[r].versions
    <3>4. /\ DOMAIN vs = {1, 2, 3} /\ vs[1] = Draft /\ vs[2] = v /\ vs[3] = m
      BY <3>2
    <3> HIDE DEF vs
    <3>5. published[r] = {Draft, v, m}
      BY <2>0, <3>4 DEF vs
    <3>6. \A n \in DOMAIN object[r] : object[r][n] = t
      BY <3>1
    <3>7. DOMAIN object[r] = {2}
      BY <3>1
    <3>8. DefinitionOK(r)
      BY <3>2, <3>3, <3>4, <3>5, <3>7, DraftType
      DEF DefinitionOK, ListOK, Numbered, PublishedOK, HasObject, vs
    <3>9. UnracedOK(r)
      BY <2>0, <3>2, <3>3, <3>4, <3>5, <3>6, <3>7, DraftType
      DEF UnracedOK, HasCurrent, Numbers, TemplatesStand, vs
    <3> QED
      BY <3>1, <3>3, <3>5, <3>7, <3>8, <3>9, DraftType
  <2>2. CASE r \notin scope.ready
    <3>1. /\ definition[r] = Absent /\ object[r] = [n \in {} |-> t]
      BY <1>1, <2>2
    <3>2. definition[r] \in Definition /\ ~definition[r].exists /\ definition[r].versions = <<>>
      BY <3>1, AbsentType
    <3>3. published[r] = {} /\ DOMAIN object[r] = {}
      BY <2>0, <3>1, <3>2
    <3> QED
      BY <3>1, <3>2, <3>3
      DEF DefinitionOK, ListOK, Numbered, PublishedOK, UnracedOK, TemplatesStand
  <2> QED
    BY <2>1, <2>2
<1>4. /\ definition = [r \in Report |-> definition[r]] /\ published = [r \in Report |-> published[r]]
      /\ DOMAIN object = Report
  <2>1. DOMAIN definition = Report /\ DOMAIN published = Report /\ DOMAIN object = Report
    BY <1>1, <1>2
  <2> QED
    BY <1>1, <1>2, <2>1
<1>5. task \in [Operator -> Task] /\ \A o \in Operator : task[o].at = "idle"
  BY <1>2, NoTaskType
<1>6. definition \in [Report -> Definition] /\ published \in [Report -> SUBSET Version]
  <2>1. \A r \in Report : definition[r] \in Definition /\ published[r] \in SUBSET Version
    BY <1>3
  <2> HIDE DEF Report
  <2> QED
    BY <1>4, <2>1
<1>7. DefinitionsTypeOK
  BY <1>2, <1>3, <1>4, <1>5, <1>6 DEF DefinitionsTypeOK
<1>8. \A o \in Operator : TaskOK(o) /\ UnracedTaskOK(o)
  BY <1>5 DEF TaskOK, UnracedTaskOK, Publishers
<1>9. OnePublisher
  BY <1>5 DEF OnePublisher, Publishers
<1> QED
  BY <1>3, <1>7, <1>8, <1>9 DEF RInv

-----------------------------------------------------------------------------
(***************************************************************************)
(* Operators alone: no order of publishes, rollbacks, archivings and       *)
(* failures loses a version of a definition whose publishes did not        *)
(* overlap (distribution.py, publish_report_definition_template,           *)
(* publish_report_definition_query_mapping).                               *)
(***************************************************************************)
THEOREM DefinitionsKeepVersions == DefinitionSpec => [](DefinitionsTypeOK /\ VersionsStand)
<1>1. RInit => RInv
  BY RInitInv
<1>2. RInv /\ [RNext]_rvars => RInv'
  <2>1. ASSUME RInv, UNCHANGED rvars PROVE RInv'
    <3>1. UNCHANGED <<scope, docs, edits, task>> /\ faults' = faults
      BY <2>1 DEF rvars
    <3>2. faults' \in Nat
      BY <2>1, <3>1, RTypes DEF RInv
    <3> QED
      BY <2>1, <3>1, <3>2, ReaderKeepsRInv
  <2> QED
    BY <2>1, RNextInv
<1>3. RInv => DefinitionsTypeOK /\ VersionsStand
  BY RInvVersionsStand
<1> QED
  BY <1>1, <1>2, <1>3, PTL DEF DefinitionSpec
=============================================================================
