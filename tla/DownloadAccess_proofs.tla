------------------------- MODULE DownloadAccess_proofs -------------------------
(***************************************************************************)
(* Proofs about DownloadAccess, for any number of administrators, tabs,    *)
(* file keys and events and any limits: the version list stays sound, the  *)
(* cleanup spares what has not expired, the latest PIN stands, attempts    *)
(* are bounded, downloads are entitled, and a file is fetched once.        *)
(***************************************************************************)
EXTENDS DownloadAccess, DeliveryVersions_proofs

(***************************************************************************)
(* The inductive invariant.  Its parts beyond DInv and the properties      *)
(* themselves:                                                            *)
(*   - PinOK: what a request's place says of its PIN; a drawn PIN that is  *)
(*     still to be stored has one request;                                 *)
(*   - DownloadOK: what a download's place says of its session, version    *)
(*     and claim;                                                          *)
(*   - SessionsOK: every session was opened with a mailed PIN;             *)
(*   - LogOK: every download was of a version once added, and was claimed; *)
(*   - OnceOK: no two downloads, logged or about to be, share a claim;     *)
(*   - AttemptsOK: attempts counted, and those under way;                  *)
(*   - LostOK: claims without a download, and what they are due to.        *)
(***************************************************************************)
Holding == {"query", "revoke", "store"}

PinOK(r) ==
    /\ tab[r].at = "rate" => tab[r].n \in DOMAIN Checks
    /\ tab[r].at \in Holding =>
          tab[r].pin \in Drawn /\ challenge[tab[r].pin].status = "absent"
    /\ tab[r].at = "revoke" => tab[r].revoke \subseteq Stored
    /\ tab[r].at = "send" => tab[r].pin \in Drawn
    /\ tab[r].at \in {"wrong", "right"} => tab[r].pin \in Stored
    /\ tab[r].at \in {"right", "session"} => tab[r].pin \in inbox

PinsOK ==
    /\ \A r \in Tabs : PinOK(r)
    /\ \A r, s \in Tabs :
          tab[r].at \in Holding /\ tab[s].at \in Holding /\ tab[r].pin = tab[s].pin => r = s

WasAdded(version, gen) == \E v \in added : v.version = version /\ v.gen = gen

Multi == scope.kind = "multi"

ClaimOf(d) == <<d.session, <<d.version, d.key>> >>

IsClaimed(d) == <<d.version, d.key>> \in sessions[d.session].used_file_keys

DownloadOK(r) ==
    /\ tab[r].at \in DownloadPlaces => tab[r].session \in DOMAIN sessions
    /\ tab[r].at \in {"claim", "log"} => WasAdded(tab[r].version, tab[r].gen)
    /\ tab[r].at \in {"claim", "log"} /\ Multi => tab[r].version \in Numbers(delivery.versions)
    /\ tab[r].at = "claim" => Multi
    /\ tab[r].at = "mark" => ~Multi
    /\ tab[r].at = "log" /\ Multi => IsClaimed(tab[r])

TabsOK == \A r \in Tabs : DownloadOK(r)

SessionsOK == \A s \in DOMAIN sessions : sessions[s].pin \in inbox

EntryOK(e) ==
    /\ e.session \in DOMAIN sessions
    /\ WasAdded(e.version, e.gen)
    /\ Multi => IsClaimed(e)

LogOK == \A i \in DOMAIN log : EntryOK(log[i])

OnceOK ==
    Multi =>
        /\ \A i, j \in DOMAIN log : ClaimOf(log[i]) = ClaimOf(log[j]) => i = j
        /\ \A r \in AfterClaim, i \in DOMAIN log : ClaimOf(tab[r]) # ClaimOf(log[i])
        /\ \A r, s \in AfterClaim : ClaimOf(tab[r]) = ClaimOf(tab[s]) => r = s

WrongTabs(p) == {r \in Tabs : tab[r].at = "wrong" /\ tab[r].pin = p}

AttemptsOK ==
    \A p \in Drawn : challenge[p].attempts + Cardinality(WrongTabs(p))
                         < MaxAttempts + Cardinality(Tabs)

UsedUpOK ==
    Multi => \A s \in DOMAIN sessions :
        sessions[s].used => \E n \in Numbers(delivery.versions) :
                                AllClaims(n) \subseteq sessions[s].used_file_keys

LostOK ==
    Multi => /\ IsFiniteSet(Claims \ Fetched)
             /\ Cardinality(Claims \ Fetched) <= Cardinality(AfterClaim) + faults

PinInv == PinsOK /\ LatestPinStands /\ AttemptsOK

DownloadInv == TabsOK /\ SessionsOK /\ LogOK /\ OnceOK /\ UsedUpOK /\ LostOK

IInv == DInv /\ TypeOK /\ PinInv /\ DownloadInv

-----------------------------------------------------------------------------
(* Types *)

PinTypes ==
    /\ challenge \in Seq(Challenge)
    /\ aged \in 0..Len(challenge) /\ lapsed \in 0..aged
    /\ latest \in 0..Len(challenge)
    /\ count \in [DOMAIN Limit -> Nat]
    /\ \A c \in DOMAIN Limit : count[c] <= Limit[c]
    /\ inbox \subseteq Drawn

DownloadTypes ==
    /\ sessions \in Seq(Session)
    /\ ended \in 0..Len(sessions) /\ cookie \in 0..Len(sessions)
    /\ log \in Seq(Entry)

LEMMA TypeParts ==
    TypeOK <=> DeliveryTypeOK /\ PinTypes /\ DownloadTypes /\ tab \in [Tabs -> Tab]
BY DEF TypeOK, PinTypes, DownloadTypes

(***************************************************************************)
(* What the types say of one tab, challenge, session or entry.             *)
(***************************************************************************)
LEMMA PTypes ==
    ASSUME TypeOK
    PROVE  /\ Len(challenge) \in Nat /\ Drawn = 1..Len(challenge)
           /\ \A p \in Drawn : /\ challenge[p] \in Challenge
                               /\ challenge[p].status \in Statuses /\ challenge[p].attempts \in Nat
           /\ Stored \subseteq Drawn /\ Open \subseteq Stored /\ inbox \subseteq Drawn
           /\ aged \in Nat /\ lapsed \in Nat /\ latest \in Nat
<1>1. challenge \in Seq(Challenge) /\ inbox \subseteq Drawn
      /\ aged \in 0..Len(challenge) /\ lapsed \in 0..aged /\ latest \in 0..Len(challenge)
  BY DEF TypeOK
<1>2. Len(challenge) \in Nat /\ Drawn = 1..Len(challenge)
  BY <1>1 DEF Drawn
<1>3. \A p \in Drawn : challenge[p] \in Challenge
  BY <1>1, <1>2
<1>4. \A c \in Challenge : c.status \in Statuses /\ c.attempts \in Nat
  BY DEF Challenge
<1>5. Stored \subseteq Drawn /\ Open \subseteq Stored
  BY DEF Stored, Open
<1> QED
  BY <1>1, <1>2, <1>3, <1>4, <1>5

LEMMA TabTypes ==
    ASSUME TypeOK
    PROVE  /\ tab \in [Tabs -> Tab]
           /\ \A r \in Tabs : /\ tab[r] \in Tab /\ tab[r].at \in TabPlaces
                              /\ tab[r].pin \in Nat /\ tab[r].revoke \in SUBSET Nat
                              /\ tab[r].n \in Nat /\ tab[r].session \in Nat
                              /\ tab[r].version \in Nat /\ tab[r].gen \in Nat
                              /\ tab[r].key \in Keys
<1>1. \A t \in Tab : /\ t.at \in TabPlaces /\ t.pin \in Nat /\ t.revoke \in SUBSET Nat
                     /\ t.n \in Nat /\ t.session \in Nat /\ t.version \in Nat
                     /\ t.gen \in Nat /\ t.key \in Keys
  BY DEF Tab
<1> QED
  BY <1>1 DEF TypeOK

LEMMA STypes ==
    ASSUME TypeOK
    PROVE  /\ sessions \in Seq(Session) /\ Len(sessions) \in Nat
           /\ DOMAIN sessions = 1..Len(sessions)
           /\ \A s \in DOMAIN sessions : /\ sessions[s] \in Session /\ sessions[s].pin \in Nat
                                          /\ sessions[s].used \in BOOLEAN
                                          /\ sessions[s].used_file_keys \in SUBSET ClaimKey
           /\ log \in Seq(Entry) /\ Len(log) \in Nat /\ DOMAIN log = 1..Len(log)
           /\ \A i \in DOMAIN log : log[i] \in Entry
           /\ ended \in Nat /\ cookie \in 0..Len(sessions)
<1>1. sessions \in Seq(Session) /\ log \in Seq(Entry)
      /\ ended \in 0..Len(sessions) /\ cookie \in 0..Len(sessions)
  BY DEF TypeOK
<1>2. \A s \in Session : s.pin \in Nat /\ s.used \in BOOLEAN /\ s.used_file_keys \in SUBSET ClaimKey
  BY DEF Session
<1> QED
  BY <1>1, <1>2

LEMMA NoTabType ==
    /\ NoTab \in Tab /\ NoTab.at = "idle"
    /\ "idle" \notin Holding \cup DownloadPlaces \cup {"rate", "send", "wrong", "right", "session"}
BY DEF NoTab, Tab, TabPlaces, Keys, Holding, DownloadPlaces

-----------------------------------------------------------------------------
(* Steps of one tab *)

(***************************************************************************)
(* A step of tab r's leaves the other tabs where they are.                 *)
(***************************************************************************)
Only(r) == /\ tab' \in [Tabs -> Tab]
           /\ \A s \in Tabs \ {r} : tab'[s] = tab[s]

(***************************************************************************)
(* The PINs drawn stay drawn, those stored stay stored, and only r, at     *)
(* "store", stores one, its own.                                           *)
(***************************************************************************)
StatusesGoOn(r) ==
    /\ Drawn \subseteq Drawn'
    /\ Stored \subseteq Stored'
    /\ \A p \in Drawn : challenge[p].status = "absent" =>
          challenge'[p].status = "absent" \/ (tab[r].at = "store" /\ tab[r].pin = p)

LEMMA PinsStayOK ==
    ASSUME TypeOK, PinsOK, NEW r \in Tabs, Only(r), StatusesGoOn(r), inbox \subseteq inbox',
           PinOK(r)',
           tab'[r].at \in Holding =>
              \/ tab[r].at \in Holding /\ tab'[r].pin = tab[r].pin
              \/ tab'[r].pin \notin Drawn
    PROVE  PinsOK'
<1>1. ASSUME NEW s \in Tabs, s # r PROVE PinOK(s)'
  <2>1. tab'[s] = tab[s] /\ PinOK(s)
    BY <1>1 DEF Only, PinsOK
  <2>2. tab[s].at \in Holding => tab[s].pin \in Drawn' /\ challenge'[tab[s].pin].status = "absent"
    BY <1>1, <2>1 DEF PinsOK, PinOK, StatusesGoOn, Holding
  <2> QED
    BY <2>1, <2>2 DEF PinOK, StatusesGoOn, Holding
<1>2. ASSUME NEW s \in Tabs, NEW u \in Tabs,
             tab'[s].at \in Holding, tab'[u].at \in Holding, tab'[s].pin = tab'[u].pin
      PROVE  s = u
  <2>1. ASSUME NEW x \in Tabs, x # r, tab'[x].at \in Holding, tab'[r].at \in Holding
        PROVE  tab'[x].pin # tab'[r].pin
    <3>1. tab'[x] = tab[x] /\ tab[x].pin \in Drawn
      BY <2>1 DEF Only, PinsOK, PinOK
    <3> QED
      BY <2>1, <3>1 DEF PinsOK
  <2>2. s # r /\ u # r => tab'[s] = tab[s] /\ tab'[u] = tab[u]
    BY DEF Only
  <2> QED
    BY <1>2, <2>1, <2>2 DEF PinsOK
<1> QED
  BY <1>1, <1>2 DEF PinsOK

(***************************************************************************)
(* Attempts under way are of finitely many tabs; none begins in this step. *)
(***************************************************************************)
LEMMA WrongTabsFinite ==
    ASSUME NEW p
    PROVE  /\ IsFiniteSet(WrongTabs(p)) /\ Cardinality(WrongTabs(p)) \in Nat
           /\ Cardinality(WrongTabs(p)) <= Cardinality(Tabs)
           /\ Cardinality(Tabs) \in Nat
<1>1. WrongTabs(p) \in SUBSET Tabs
  BY DEF WrongTabs
<1> QED
  BY <1>1, FinitelyManyTabs, FS_Subset, FS_CardinalityType

LEMMA WrongTabsShrink ==
    ASSUME NEW p, NEW r \in Tabs, Only(r),
           r \in WrongTabs(p)' => r \in WrongTabs(p)
    PROVE  /\ Cardinality(WrongTabs(p)') \in Nat
           /\ Cardinality(WrongTabs(p)') <= Cardinality(WrongTabs(p))
<1>1. WrongTabs(p)' \in SUBSET WrongTabs(p)
  BY DEF WrongTabs, Only
<1>2. IsFiniteSet(WrongTabs(p))
  BY WrongTabsFinite
<1>3. /\ IsFiniteSet(WrongTabs(p)')
      /\ Cardinality(WrongTabs(p)') <= Cardinality(WrongTabs(p))
  <2> DEFINE S == WrongTabs(p)
             T == WrongTabs(p)'
  <2> HIDE DEF S, T
  <2>1. IsFiniteSet(S) /\ T \in SUBSET S
    BY <1>1, <1>2 DEF S, T
  <2>2. IsFiniteSet(T) /\ Cardinality(T) <= Cardinality(S)
    BY <2>1, FS_Subset
  <2> QED
    BY <2>2 DEF S, T
<1> QED
  BY <1>3, FS_CardinalityType

LEMMA AttemptStaysOK ==
    ASSUME TypeOK, AttemptsOK, NEW r \in Tabs, Only(r), NEW p \in Drawn,
           challenge'[p].attempts = challenge[p].attempts,
           r \in WrongTabs(p)' => r \in WrongTabs(p)
    PROVE  challenge'[p].attempts + Cardinality(WrongTabs(p)') < MaxAttempts + Cardinality(Tabs)
<1>1. challenge[p].attempts + Cardinality(WrongTabs(p)) < MaxAttempts + Cardinality(Tabs)
  BY DEF AttemptsOK
<1>2. challenge[p].attempts \in Nat
  BY PTypes
<1>3. /\ Cardinality(WrongTabs(p)') \in Nat /\ Cardinality(WrongTabs(p)) \in Nat
      /\ Cardinality(WrongTabs(p)') <= Cardinality(WrongTabs(p))
  BY WrongTabsShrink, WrongTabsFinite
<1>4. MaxAttempts \in Nat /\ Cardinality(Tabs) \in Nat
  BY LimitsAreNumbers, WrongTabsFinite
<1> QED
  BY <1>1, <1>2, <1>3, <1>4

LEMMA AttemptsStayOK ==
    ASSUME TypeOK, AttemptsOK, NEW r \in Tabs, Only(r),
           DOMAIN challenge' = DOMAIN challenge,
           \A p \in Drawn : challenge'[p].attempts = challenge[p].attempts,
           tab'[r].at = "wrong" => tab[r].at = "wrong" /\ tab'[r].pin = tab[r].pin
    PROVE  AttemptsOK'
<1>1. \A p \in Drawn : r \in WrongTabs(p)' => r \in WrongTabs(p)
  BY DEF WrongTabs
<1> QED
  BY <1>1, AttemptStaysOK DEF AttemptsOK, Drawn

(***************************************************************************)
(* A finite, non-empty set of numbers has its Max: of the sets of the      *)
(* elements above an element, a smallest one is empty.                     *)
(***************************************************************************)
LEMMA MaxInSet ==
    ASSUME NEW S \in SUBSET Nat, IsFiniteSet(S), S # {}
    PROVE  Max(S) \in S
<1> DEFINE Above(x) == {y \in S : y > x}
           T == {Above(x) : x \in S}
<1>1. T \subseteq FiniteSubsetsOf(S) /\ T # {}
  <2>1. \A x \in S : Above(x) \in SUBSET S
    OBVIOUS
  <2>2. \A U \in SUBSET S : IsFiniteSet(U)
    BY FS_Subset
  <2> QED
    BY <2>1, <2>2 DEF FiniteSubsetsOf
<1>2. IsWellFoundedOn(StrictSubsetOrdering(S), FiniteSubsetsOf(S))
  BY FS_StrictSubsetOrderingWellFounded
<1>3. PICK U \in T : \A V \in T : ~ (<<V, U>> \in StrictSubsetOrdering(S))
  <2> HIDE DEF T
  <2> QED
    BY <1>1, <1>2, WFMin
<1>4. PICK x \in S : U = Above(x)
  BY <1>3
<1>5. ASSUME NEW y \in S, y > x PROVE FALSE
  <2>1. Above(y) \in T /\ Above(y) \in SUBSET S /\ Above(x) \in SUBSET S
    OBVIOUS
  <2>2. Above(y) \subseteq Above(x) /\ y \in Above(x) /\ y \notin Above(y)
    <3>1. S \subseteq Int
      OBVIOUS
    <3>2. \A z \in S : z > y => z > x
      BY <3>1, <1>5
    <3>3. ~ (y > y)
      BY <3>1
    <3>4. y \in Above(x)
      BY <1>5
    <3>5. y \notin Above(y)
      BY <3>3
    <3>6. Above(y) \subseteq Above(x)
      BY <3>2
    <3> QED
      BY <3>4, <3>5, <3>6
  <2> HIDE DEF Above, T
  <2>3. <<Above(y), Above(x)>> \in StrictSubsetOrdering(S)
    BY <2>1, <2>2 DEF StrictSubsetOrdering
  <2> QED
    BY <1>3, <1>4, <2>1, <2>3
<1>6. \E z \in S : \A y \in S : z >= y
  BY <1>5
<1> QED
  BY <1>6 DEF Max

LEMMA ValidHasMax ==
    ASSUME TypeOK, Valid # {}
    PROVE  Max(Valid) \in Valid
<1>1. Valid \in SUBSET (1..Len(challenge)) /\ Len(challenge) \in Nat
  BY PTypes DEF Valid
<1>2. IsFiniteSet(1..Len(challenge))
  BY <1>1, FS_Interval
<1>3. IsFiniteSet(Valid)
  BY <1>1, <1>2, FS_Subset
<1>4. Valid \in SUBSET Nat
  BY <1>1
<1> QED
  BY <1>3, <1>4, MaxInSet

(***************************************************************************)
(* One tab moves.                                                          *)
(***************************************************************************)
LEMMA OneTab ==
    ASSUME TypeOK, NEW r \in Tabs, NEW t \in Tab, tab' = [tab EXCEPT ![r] = t]
    PROVE  Only(r) /\ tab'[r] = t
BY TabTypes DEF Only

LEMMA TabGoes ==
    ASSUME TypeOK, NEW r \in Tabs, NEW place \in TabPlaces, Goto(r, place)
    PROVE  /\ Only(r)
           /\ tab'[r] = [tab[r] EXCEPT !.at = place]
           /\ tab'[r].at = place /\ tab'[r].pin = tab[r].pin /\ tab'[r].revoke = tab[r].revoke
           /\ tab'[r].n = tab[r].n /\ tab'[r].session = tab[r].session
           /\ tab'[r].version = tab[r].version /\ tab'[r].gen = tab[r].gen
           /\ tab'[r].key = tab[r].key
<1> DEFINE t == [tab[r] EXCEPT !.at = place]
<1>1. tab[r] \in Tab
  BY TabTypes
<1>2. /\ t \in Tab /\ t.at = place /\ t.pin = tab[r].pin /\ t.revoke = tab[r].revoke
      /\ t.n = tab[r].n /\ t.session = tab[r].session /\ t.version = tab[r].version
      /\ t.gen = tab[r].gen /\ t.key = tab[r].key
  BY <1>1 DEF Tab
<1>3. tab' = [tab EXCEPT ![r] = t]
  BY TabTypes DEF Goto
<1> HIDE DEF t
<1>4. Only(r) /\ tab'[r] = t
  BY <1>2, <1>3, OneTab
<1> QED
  BY <1>2, <1>4 DEF t

LEMMA TabAnswers ==
    ASSUME TypeOK, NEW r \in Tabs, Answer(r)
    PROVE  Only(r) /\ tab'[r] = NoTab /\ tab'[r].at = "idle"
BY OneTab, NoTabType DEF Answer

(***************************************************************************)
(* What a tab's step must keep beside the delivery's invariant.            *)
(***************************************************************************)
Kept == /\ tab' \in [Tabs -> Tab]
        /\ PinTypes'
        /\ DownloadTypes'
        /\ PinInv'
        /\ DownloadInv'
        /\ faults' \in 0..scope.faults

LEMMA FaultCounts ==
    ASSUME TypeOK
    PROVE  /\ faults \in Nat /\ faults \in 0..scope.faults /\ scope.faults \in Nat
           /\ Fault => faults' = faults + 1 /\ faults' \in 0..scope.faults
           /\ NoFault => faults' = faults
<1>1. scope \in Scope /\ faults \in 0..scope.faults
  BY ScopesAreBounds DEF TypeOK, DeliveryTypeOK
<1>2. scope.faults \in Nat
  BY <1>1 DEF Scope
<1> QED
  BY <1>1, <1>2 DEF Fault, NoFault

(***************************************************************************)
(* A step that changes no challenge and begins no attempt.                 *)
(***************************************************************************)
LEMMA PinsUntouched ==
    ASSUME TypeOK, PinInv, NEW r \in Tabs, Only(r), UNCHANGED <<challenge, latest>>,
           inbox \subseteq inbox', PinOK(r)', tab'[r].at # "wrong",
           tab'[r].at \in Holding => tab[r].at \in Holding /\ tab'[r].pin = tab[r].pin
    PROVE  PinInv'
<1>1. Drawn' = Drawn /\ Stored' = Stored
  BY DEF Drawn, Stored
<1>2. StatusesGoOn(r)
  BY <1>1 DEF StatusesGoOn
<1>3. PinsOK'
  BY <1>2, PinsStayOK DEF PinInv
<1>4. LatestPinStands'
  BY <1>1 DEF PinInv, LatestPinStands, Drawn
<1>5. AttemptsOK'
  <2>1. DOMAIN challenge' = DOMAIN challenge
        /\ \A p \in Drawn : challenge'[p].attempts = challenge[p].attempts
    OBVIOUS
  <2> QED
    BY <2>1, AttemptsStayOK DEF PinInv
<1> QED
  BY <1>3, <1>4, <1>5 DEF PinInv

(***************************************************************************)
(* A step that neither claims nor logs: no tab comes to "log", and one     *)
(* that leaves it has failed.                                              *)
(***************************************************************************)
LEMMA AfterClaimShrinks ==
    ASSUME NEW r \in Tabs, Only(r), tab'[r].at # "log"
    PROVE  /\ AfterClaim' = AfterClaim \ {r}
           /\ IsFiniteSet(AfterClaim) /\ Cardinality(AfterClaim) \in Nat
           /\ Cardinality(AfterClaim') = IF tab[r].at = "log" THEN Cardinality(AfterClaim) - 1
                                         ELSE Cardinality(AfterClaim)
<1>1. AfterClaim' = AfterClaim \ {r} /\ AfterClaim \in SUBSET Tabs
  BY DEF AfterClaim, Only
<1>2. IsFiniteSet(AfterClaim)
  BY <1>1, FinitelyManyTabs, FS_Subset
<1>3. Cardinality(AfterClaim) \in Nat
  BY <1>2, FS_CardinalityType
<1>4. Cardinality(AfterClaim \ {r}) = IF r \in AfterClaim THEN Cardinality(AfterClaim) - 1
                                      ELSE Cardinality(AfterClaim)
  BY <1>2, FS_RemoveElement
<1>5. r \in AfterClaim <=> tab[r].at = "log"
  BY DEF AfterClaim
<1> QED
  BY <1>1, <1>2, <1>3, <1>4, <1>5

LEMMA DownloadsUntouched ==
    ASSUME TypeOK, DownloadInv, NEW r \in Tabs, Only(r),
           UNCHANGED <<sessions, log, scope, delivery, added>>, inbox \subseteq inbox',
           DownloadOK(r)', Multi => tab'[r].at # "log",
           tab[r].at = "log" /\ Multi => faults' = faults + 1,
           faults' \in Nat, faults' >= faults
    PROVE  DownloadInv'
<1>1. TabsOK'
  <2>1. ASSUME NEW s \in Tabs, s # r PROVE DownloadOK(s)'
    <3>1. tab'[s] = tab[s] /\ DownloadOK(s)
      BY <2>1 DEF Only, DownloadInv, TabsOK
    <3> QED
      BY <3>1 DEF DownloadOK, WasAdded, Multi, IsClaimed
  <2> QED
    BY <2>1 DEF TabsOK
<1>2. SessionsOK'
  BY DEF DownloadInv, SessionsOK
<1>3. LogOK'
  BY DEF DownloadInv, LogOK, EntryOK, WasAdded, Multi, IsClaimed
<1>4. ASSUME Multi
      PROVE  /\ AfterClaim' = AfterClaim \ {r}
             /\ IsFiniteSet(AfterClaim) /\ Cardinality(AfterClaim) \in Nat
             /\ Cardinality(AfterClaim') = IF tab[r].at = "log" THEN Cardinality(AfterClaim) - 1
                                           ELSE Cardinality(AfterClaim)
  BY <1>4, AfterClaimShrinks
<1>5. OnceOK'
  <2>1. Multi => \A s \in AfterClaim' : s \in AfterClaim /\ tab'[s] = tab[s]
    BY <1>4 DEF Only, AfterClaim
  <2> QED
    BY <2>1 DEF DownloadInv, OnceOK, ClaimOf, Multi
<1>6. UsedUpOK'
  BY DEF DownloadInv, UsedUpOK, Multi
<1>7. LostOK'
  <2>1. Claims' = Claims /\ Fetched' = Fetched
    BY DEF Claims, Fetched
  <2>2. ASSUME Multi
        PROVE  Cardinality(Claims \ Fetched) <= Cardinality(AfterClaim') + faults'
    <3>1. IsFiniteSet(Claims \ Fetched)
          /\ Cardinality(Claims \ Fetched) <= Cardinality(AfterClaim) + faults
      BY <2>2 DEF DownloadInv, LostOK
    <3>2. Cardinality(Claims \ Fetched) \in Nat /\ faults \in Nat
      BY <3>1, FS_CardinalityType, FaultCounts
    <3>3. tab[r].at = "log" => faults' = faults + 1
      BY <2>2
    <3>4. /\ Cardinality(AfterClaim) \in Nat
          /\ Cardinality(AfterClaim') = IF tab[r].at = "log" THEN Cardinality(AfterClaim) - 1
                                        ELSE Cardinality(AfterClaim)
      BY <1>4, <2>2
    <3> QED
      BY <3>1, <3>2, <3>3, <3>4
  <2> QED
    BY <2>1, <2>2 DEF DownloadInv, LostOK, Multi
<1> QED
  BY <1>1, <1>2, <1>3, <1>5, <1>6, <1>7 DEF DownloadInv

(***************************************************************************)
(* Steps of a request for a PIN or of a verification download nothing.     *)
(***************************************************************************)
LEMMA NotDownloading ==
    ASSUME TypeOK, DownloadInv, NEW r \in Tabs, Only(r),
           UNCHANGED <<sessions, log, scope, delivery, added>>, inbox \subseteq inbox',
           tab[r].at # "log", tab'[r].at \notin DownloadPlaces,
           faults' \in Nat, faults' >= faults
    PROVE  DownloadInv'
<1>1. DownloadOK(r)' /\ tab'[r].at # "log"
  BY DEF DownloadOK, DownloadPlaces
<1> QED
  BY <1>1, DownloadsUntouched

-----------------------------------------------------------------------------
(* A request for a PIN *)

LEMMA RequestPinStep ==
    ASSUME IInv, NEW r \in Tabs, RequestPin(r), UNCHANGED <<scope, delivery, added>>
    PROVE  Kept
<1>0. TypeOK /\ PinInv /\ DownloadInv
  BY DEF IInv
<1> DEFINE t == [tab[r] EXCEPT !.at = "rate", !.n = 1]
<1>1. tab[r] \in Tab /\ tab[r].at = "idle" /\ UNCHANGED <<pins, downloads, faults>>
  BY <1>0, TabTypes DEF RequestPin, NoFault
<1>2. t \in Tab /\ t.at = "rate" /\ t.n = 1
  BY <1>1 DEF Tab, TabPlaces, RequestPlaces
<1>3. tab' = [tab EXCEPT ![r] = t]
  BY <1>0, TabTypes DEF RequestPin
<1> HIDE DEF t
<1>4. Only(r) /\ tab'[r] = t
  BY <1>0, <1>2, <1>3, OneTab
<1>5. 1 \in DOMAIN Checks
  BY LimitsAreNumbers
<1>6. tab'[r].at = "rate" /\ tab'[r].n = 1
  BY <1>2, <1>4
<1>7. PinOK(r)' /\ tab'[r].at \notin Holding \cup DownloadPlaces \cup {"wrong"}
  BY <1>5, <1>6 DEF PinOK, Holding, DownloadPlaces
<1>8. UNCHANGED <<challenge, latest, inbox, sessions, log>>
  BY <1>1 DEF pins, downloads
<1>9. PinInv'
  BY <1>0, <1>4, <1>7, <1>8, PinsUntouched
<1>10. DownloadInv'
  BY <1>0, <1>1, <1>4, <1>7, <1>8, NotDownloading, FaultCounts
<1>11. PinTypes' /\ DownloadTypes'
  BY <1>0, <1>1, TypeParts DEF PinTypes, DownloadTypes, pins, downloads, Drawn
<1> QED
  BY <1>0, <1>1, <1>4, <1>9, <1>10, <1>11, FaultCounts DEF Kept, Only

LEMMA CheckRateStep ==
    ASSUME IInv, NEW r \in Tabs, CheckRate(r), UNCHANGED <<scope, delivery, added>>
    PROVE  Kept
<1>0. TypeOK /\ PinInv /\ DownloadInv /\ tab[r] \in Tab /\ tab[r].n \in Nat
  BY TabTypes DEF IInv
<1> DEFINE c == Checks[tab[r].n]
<1>1. tab[r].at = "rate" /\ tab[r].n \in DOMAIN Checks
  BY <1>0 DEF CheckRate, PinInv, PinsOK, PinOK
<1>2. /\ UNCHANGED <<challenge, aged, lapsed, latest, inbox, downloads, faults>>
      /\ \/ Answer(r) /\ UNCHANGED count
         \/ /\ ~OverLimit(c)
            /\ count' = [count EXCEPT ![c] = @ + 1]
            /\ IF tab[r].n < Len(Checks)
               THEN tab' = [tab EXCEPT ![r].n = @ + 1]
               ELSE tab' = [tab EXCEPT ![r].at = "draw", ![r].n = 0]
  BY DEF CheckRate, NoFault
<1>3. /\ Only(r) /\ PinOK(r)'
      /\ tab'[r].at \notin Holding \cup DownloadPlaces \cup {"wrong"}
  <2>1. CASE Answer(r)
    BY <1>0, <2>1, TabAnswers, NoTabType DEF PinOK, Holding
  <2>2. CASE tab' = [tab EXCEPT ![r].n = @ + 1] /\ tab[r].n < Len(Checks)
    <3> DEFINE t == [tab[r] EXCEPT !.n = tab[r].n + 1]
    <3>0. tab[r].n + 1 \in Nat /\ tab[r].n + 1 \in DOMAIN Checks
      BY <1>0, <1>1, <2>2, LimitsAreNumbers
    <3>1. t \in Tab /\ t.at = "rate" /\ t.n = tab[r].n + 1
      BY <1>0, <1>1, <3>0 DEF Tab
    <3>2. tab' = [tab EXCEPT ![r] = t]
      BY <1>0, <2>2, TabTypes
    <3> HIDE DEF t
    <3>3. Only(r) /\ tab'[r] = t
      BY <1>0, <3>1, <3>2, OneTab
    <3> QED
      BY <3>0, <3>1, <3>3 DEF PinOK, Holding, DownloadPlaces
  <2>3. CASE tab' = [tab EXCEPT ![r].at = "draw", ![r].n = 0]
    <3> DEFINE t == [tab[r] EXCEPT !.at = "draw", !.n = 0]
    <3>1. t \in Tab /\ t.at = "draw"
      BY <1>0 DEF Tab, TabPlaces, RequestPlaces
    <3>2. tab' = [tab EXCEPT ![r] = t]
      BY <1>0, <2>3, TabTypes
    <3> HIDE DEF t
    <3>3. Only(r) /\ tab'[r] = t
      BY <1>0, <3>1, <3>2, OneTab
    <3> QED
      BY <3>1, <3>3 DEF PinOK, Holding, DownloadPlaces
  <2> QED
    BY <1>2, <2>1, <2>2, <2>3
<1>4. count' \in [DOMAIN Limit -> Nat] /\ \A d \in DOMAIN Limit : count'[d] <= Limit[d]
  <2>1. count \in [DOMAIN Limit -> Nat] /\ \A d \in DOMAIN Limit : count[d] <= Limit[d]
    BY <1>0 DEF TypeOK
  <2>2. \A d \in DOMAIN Limit : Limit[d] \in Nat
    BY LimitsAreNumbers
  <2>3. CASE UNCHANGED count
    BY <2>1, <2>3
  <2>4. CASE ~OverLimit(c) /\ count' = [count EXCEPT ![c] = @ + 1]
    <3>1. c \in DOMAIN Limit
      BY <1>1, LimitsAreNumbers
    <3>2. ~ (count[c] >= Limit[c])
      BY <2>4 DEF OverLimit
    <3>3. count[c] + 1 \in Nat /\ count[c] + 1 <= Limit[c]
      BY <2>1, <2>2, <3>1, <3>2
    <3> HIDE DEF c
    <3> QED
      BY <2>1, <2>4, <3>1, <3>3
  <2> QED
    BY <1>2, <2>3, <2>4
<1>5. UNCHANGED <<challenge, latest, inbox, sessions, log>>
  BY <1>2 DEF downloads
<1>6. PinInv'
  BY <1>0, <1>3, <1>5, PinsUntouched
<1>7. DownloadInv'
  BY <1>0, <1>1, <1>2, <1>3, <1>5, NotDownloading, FaultCounts
<1>8. PinTypes' /\ DownloadTypes'
  BY <1>0, <1>2, <1>4, TypeParts DEF PinTypes, DownloadTypes, downloads, Drawn
<1> QED
  BY <1>0, <1>2, <1>3, <1>6, <1>7, <1>8, FaultCounts DEF Kept, Only

(***************************************************************************)
(* The other steps of a request and of a verification leave the sessions   *)
(* and the log alone.                                                      *)
(***************************************************************************)
LEMMA PinStepKept ==
    ASSUME IInv, NEW r \in Tabs, Only(r), UNCHANGED <<downloads, scope, delivery, added>>,
           inbox \subseteq inbox', tab[r].at # "log", tab'[r].at \notin DownloadPlaces,
           NoFault \/ Fault, PinTypes', PinInv'
    PROVE  Kept
<1>1. TypeOK /\ DownloadInv
  BY DEF IInv
<1>2. faults' \in 0..scope.faults /\ faults' \in Nat /\ faults' >= faults
  BY <1>1, FaultCounts
<1>3. UNCHANGED <<sessions, log>>
  BY DEF downloads
<1>4. DownloadInv'
  BY <1>1, <1>2, <1>3, NotDownloading
<1>5. DownloadTypes'
  BY <1>1, TypeParts DEF DownloadTypes, downloads
<1> QED
  BY <1>2, <1>4, <1>5 DEF Kept, Only

LEMMA DrawPinStep ==
    ASSUME IInv, NEW r \in Tabs, DrawPin(r), UNCHANGED <<scope, delivery, added>>
    PROVE  Kept
<1>0. TypeOK /\ PinInv /\ tab[r] \in Tab /\ Len(challenge) \in Nat
  BY TabTypes, PTypes DEF IInv
<1>n. PICK new \in Nat : new = Len(challenge) + 1
  BY <1>0
<1> DEFINE t == [tab[r] EXCEPT !.at = "query", !.pin = new]
<1>1. /\ tab[r].at = "draw" /\ NoFault /\ challenge' = Append(challenge, NoChallenge)
      /\ UNCHANGED <<aged, lapsed, latest, count, inbox, downloads>>
  BY DEF DrawPin
<1>2. t \in Tab /\ t.at = "query" /\ t.pin = new
  BY <1>0 DEF Tab, TabPlaces, RequestPlaces
<1>3. tab' = [tab EXCEPT ![r] = t]
  BY <1>0, <1>n, TabTypes DEF DrawPin
<1> HIDE DEF t
<1>4. Only(r) /\ tab'[r] = t
  BY <1>0, <1>2, <1>3, OneTab
<1>5. /\ challenge \in Seq(Challenge) /\ NoChallenge \in Challenge
      /\ NoChallenge.status = "absent" /\ NoChallenge.attempts = 0
  BY <1>0 DEF TypeOK, NoChallenge, Challenge, Statuses
<1>6. /\ challenge' \in Seq(Challenge) /\ Len(challenge') = new
      /\ Drawn' = Drawn \cup {new} /\ new \notin Drawn
      /\ \A p \in Drawn : challenge'[p] = challenge[p]
      /\ challenge'[new] = NoChallenge
  BY <1>0, <1>1, <1>5, <1>n DEF Drawn
<1>7. StatusesGoOn(r)
  BY <1>6 DEF StatusesGoOn, Stored
<1>8. PinOK(r)'
  BY <1>2, <1>4, <1>5, <1>6 DEF PinOK, Holding
<1>9. PinsOK'
  BY <1>0, <1>1, <1>2, <1>4, <1>6, <1>7, <1>8, PinsStayOK DEF PinInv
<1>10. LatestPinStands'
  BY <1>5, <1>6 DEF LatestPinStands
<1>11. AttemptsOK'
  <2>1. tab'[r].at # "wrong"
    BY <1>2, <1>4
  <2>2. ASSUME NEW p \in Drawn
        PROVE  challenge'[p].attempts + Cardinality(WrongTabs(p)')
                   < MaxAttempts + Cardinality(Tabs)
    <3>1. r \notin WrongTabs(p)'
      BY <2>1 DEF WrongTabs
    <3> QED
      BY <1>0, <1>4, <1>6, <3>1, AttemptStaysOK DEF PinInv
  <2>3. WrongTabs(new)' = {}
    <3>1. ASSUME NEW s \in Tabs, tab'[s].at = "wrong" PROVE tab'[s].pin # new
      <4>1. tab'[s] = tab[s] /\ PinOK(s)
        BY <1>0, <1>4, <2>1, <3>1 DEF Only, PinInv, PinsOK
      <4> QED
        BY <1>0, <1>6, <3>1, <4>1, PTypes DEF PinOK
    <3> QED
      BY <3>1 DEF WrongTabs
  <2>4. Cardinality(WrongTabs(new)') = 0
    BY <2>3, FS_EmptySet
  <2>5. Cardinality(Tabs) # 0 /\ Cardinality(Tabs) \in Nat
    BY FinitelyManyTabs, FS_EmptySet, FS_CardinalityType
  <2>6. challenge'[new].attempts + Cardinality(WrongTabs(new)')
            < MaxAttempts + Cardinality(Tabs)
    BY <1>5, <1>6, <2>4, <2>5, LimitsAreNumbers
  <2> QED
    BY <1>6, <2>2, <2>6 DEF AttemptsOK
<1>12. PinTypes'
  <2>1. PinTypes
    BY <1>0, TypeParts
  <2> QED
    BY <1>0, <1>1, <1>6, <2>1 DEF PinTypes
<1>13. PinInv'
  BY <1>9, <1>10, <1>11 DEF PinInv
<1> QED
  BY <1>1, <1>2, <1>4, <1>12, <1>13, PinStepKept DEF DownloadPlaces

LEMMA QueryOpenStep ==
    ASSUME IInv, NEW r \in Tabs, QueryOpen(r), UNCHANGED <<scope, delivery, added>>
    PROVE  Kept
<1>0. TypeOK /\ PinInv /\ tab[r] \in Tab
  BY TabTypes DEF IInv
<1> DEFINE t == [tab[r] EXCEPT !.at = "revoke", !.revoke = Open]
<1>1. tab[r].at = "query" /\ NoFault /\ UNCHANGED <<pins, downloads>>
  BY DEF QueryOpen
<1>2. t \in Tab /\ t.at = "revoke" /\ t.revoke = Open /\ t.pin = tab[r].pin
  <2>1. Open \in SUBSET Nat
    BY <1>0, PTypes
  <2> QED
    BY <1>0, <2>1 DEF Tab, TabPlaces, RequestPlaces
<1>3. tab' = [tab EXCEPT ![r] = t]
  BY <1>0, TabTypes DEF QueryOpen
<1> HIDE DEF t
<1>4. Only(r) /\ tab'[r] = t
  BY <1>0, <1>2, <1>3, OneTab
<1>5. UNCHANGED <<challenge, latest, inbox>> /\ Drawn' = Drawn /\ Stored' = Stored
  BY <1>1 DEF pins, Drawn, Stored
<1>6. PinOK(r)
  BY <1>0 DEF PinInv, PinsOK
<1>7. PinOK(r)'
  BY <1>0, <1>1, <1>2, <1>4, <1>5, <1>6, PTypes DEF PinOK, Holding
<1>8. PinInv'
  BY <1>0, <1>1, <1>2, <1>4, <1>5, <1>7, PinsUntouched DEF Holding
<1>9. PinTypes'
  BY <1>0, <1>1, <1>5, TypeParts DEF PinTypes, pins
<1> QED
  BY <1>1, <1>2, <1>4, <1>5, <1>8, <1>9, PinStepKept DEF DownloadPlaces

LEMMA RevokeStep ==
    ASSUME IInv, NEW r \in Tabs, Revoke(r), UNCHANGED <<scope, delivery, added>>
    PROVE  Kept
<1>0. TypeOK /\ PinInv /\ tab[r] \in Tab
  BY TabTypes DEF IInv
<1> DEFINE t == [tab[r] EXCEPT !.at = "store", !.revoke = {}]
           c(p) == IF p \in tab[r].revoke THEN [challenge[p] EXCEPT !.status = "revoked"]
                   ELSE challenge[p]
<1>1. /\ tab[r].at = "revoke" /\ NoFault /\ challenge' = [p \in Drawn |-> c(p)]
      /\ UNCHANGED <<aged, lapsed, latest, count, inbox, downloads>>
  BY DEF Revoke
<1>2. t \in Tab /\ t.at = "store" /\ t.pin = tab[r].pin
  BY <1>0 DEF Tab, TabPlaces, RequestPlaces
<1>3. tab' = [tab EXCEPT ![r] = t]
  BY <1>0, TabTypes DEF Revoke
<1> HIDE DEF t
<1>4. Only(r) /\ tab'[r] = t
  BY <1>0, <1>2, <1>3, OneTab
<1>5. /\ tab[r].pin \in Drawn /\ challenge[tab[r].pin].status = "absent"
      /\ tab[r].revoke \subseteq Stored
  BY <1>0, <1>1 DEF PinInv, PinsOK, PinOK, Holding
<1>6. \A p \in Drawn :
          /\ c(p) \in Challenge /\ c(p).attempts = challenge[p].attempts
          /\ c(p).status = IF p \in tab[r].revoke THEN "revoked" ELSE challenge[p].status
  <2>1. \A x \in Challenge :
            LET y == [x EXCEPT !.status = "revoked"]
            IN  y \in Challenge /\ y.attempts = x.attempts /\ y.status = "revoked"
    BY DEF Challenge, Statuses
  <2>2. \A p \in Drawn : challenge[p] \in Challenge
    BY <1>0, PTypes
  <2> QED
    BY <2>1, <2>2
<1> HIDE DEF c
<1>7. /\ challenge' \in Seq(Challenge) /\ Len(challenge') = Len(challenge) /\ Drawn' = Drawn
      /\ DOMAIN challenge' = DOMAIN challenge
      /\ \A p \in Drawn : challenge'[p] = c(p)
  <2>1. Len(challenge) \in Nat /\ Drawn = 1..Len(challenge)
    BY <1>0, PTypes
  <2> QED
    BY <1>1, <1>6, <2>1 DEF Drawn
<1>8. StatusesGoOn(r)
  BY <1>5, <1>6, <1>7 DEF StatusesGoOn, Stored
<1>9. PinOK(r)'
  BY <1>2, <1>4, <1>5, <1>6, <1>7 DEF PinOK, Holding, Stored
<1>10. PinsOK'
  BY <1>0, <1>1, <1>2, <1>4, <1>8, <1>9, PinsStayOK DEF PinInv, Holding
<1>11. LatestPinStands'
  BY <1>5, <1>6, <1>7 DEF LatestPinStands, Stored
<1>12. AttemptsOK'
  BY <1>0, <1>2, <1>4, <1>6, <1>7, AttemptsStayOK DEF PinInv
<1>13. PinTypes'
  <2>1. PinTypes
    BY <1>0, TypeParts
  <2> QED
    BY <1>1, <1>7, <2>1 DEF PinTypes
<1>14. PinInv'
  BY <1>10, <1>11, <1>12 DEF PinInv
<1> QED
  BY <1>1, <1>2, <1>4, <1>13, <1>14, PinStepKept DEF DownloadPlaces

LEMMA StoreStep ==
    ASSUME IInv, NEW r \in Tabs, Store(r), UNCHANGED <<scope, delivery, added>>
    PROVE  Kept
<1>0. TypeOK /\ PinInv /\ tab[r] \in Tab
  BY TabTypes DEF IInv
<1> DEFINE t == [tab[r] EXCEPT !.at = "send", !.n = 1]
           q == tab[r].pin
           c == [challenge[q] EXCEPT !.status = "open"]
<1>1. /\ tab[r].at = "store" /\ NoFault /\ challenge' = [challenge EXCEPT ![q] = c]
      /\ latest' = q
      /\ UNCHANGED <<aged, lapsed, count, inbox, downloads>>
  BY DEF Store
<1>2. t \in Tab /\ t.at = "send" /\ t.pin = q
  BY <1>0 DEF Tab, TabPlaces, RequestPlaces
<1>3. tab' = [tab EXCEPT ![r] = t]
  BY <1>0, TabTypes DEF Store
<1> HIDE DEF t
<1>4. Only(r) /\ tab'[r] = t
  BY <1>0, <1>2, <1>3, OneTab
<1>5. q \in Drawn /\ challenge[q].status = "absent"
  BY <1>0, <1>1 DEF PinInv, PinsOK, PinOK, Holding
<1>6. c \in Challenge /\ c.status = "open" /\ c.attempts = challenge[q].attempts
  <2>1. challenge[q] \in Challenge
    BY <1>0, <1>5, PTypes
  <2> QED
    BY <2>1 DEF Challenge, Statuses
<1> HIDE DEF c
<1>7. /\ challenge' \in Seq(Challenge) /\ Len(challenge') = Len(challenge) /\ Drawn' = Drawn
      /\ DOMAIN challenge' = DOMAIN challenge
      /\ \A p \in Drawn : challenge'[p] = IF p = q THEN c ELSE challenge[p]
  <2>1. challenge \in Seq(Challenge) /\ q \in 1..Len(challenge)
    BY <1>0, <1>5, PTypes DEF TypeOK
  <2> QED
    BY <1>1, <1>6, <2>1 DEF Drawn
<1>8. StatusesGoOn(r)
  BY <1>1, <1>5, <1>6, <1>7 DEF StatusesGoOn, Stored
<1>9. PinOK(r)'
  BY <1>2, <1>4, <1>5, <1>7 DEF PinOK, Holding
<1>10. PinsOK'
  BY <1>0, <1>1, <1>2, <1>4, <1>8, <1>9, PinsStayOK DEF PinInv, Holding
<1>11. LatestPinStands'
  BY <1>1, <1>5, <1>6, <1>7 DEF LatestPinStands
<1>12. AttemptsOK'
  BY <1>0, <1>2, <1>4, <1>6, <1>7, AttemptsStayOK DEF PinInv
<1>13. PinTypes'
  <2>1. PinTypes /\ q \in 0..Len(challenge)
    BY <1>0, <1>5, TypeParts, PTypes
  <2> QED
    BY <1>1, <1>7, <2>1 DEF PinTypes
<1>14. PinInv'
  BY <1>10, <1>11, <1>12 DEF PinInv
<1> QED
  BY <1>1, <1>2, <1>4, <1>13, <1>14, PinStepKept DEF DownloadPlaces

LEMMA SendSteps ==
    ASSUME IInv, NEW r \in Tabs, Send(r) \/ SendFails(r), UNCHANGED <<scope, delivery, added>>
    PROVE  Kept
<1>0. TypeOK /\ PinInv /\ tab[r] \in Tab /\ tab[r].n \in Nat
  BY TabTypes DEF IInv
<1>1. /\ tab[r].at = "send" /\ (NoFault \/ Fault)
      /\ Mailed(r) \/ UNCHANGED inbox
      /\ Answer(r) \/ tab' = [tab EXCEPT ![r].n = @ + 1]
      /\ UNCHANGED <<challenge, aged, lapsed, latest, count, downloads>>
  BY DEF Send, SendFails
<1>2. tab[r].pin \in Drawn
  BY <1>0, <1>1 DEF PinInv, PinsOK, PinOK
<1>3. inbox \subseteq inbox' /\ inbox' \subseteq Drawn' /\ Drawn' = Drawn
  BY <1>0, <1>1, <1>2, PTypes DEF Mailed, Drawn
<1>4. Only(r) /\ PinOK(r)' /\ tab'[r].at \in {"idle", "send"}
  <2>1. CASE Answer(r)
    BY <1>0, <2>1, TabAnswers, NoTabType DEF PinOK, Holding
  <2>2. CASE tab' = [tab EXCEPT ![r].n = @ + 1]
    <3> DEFINE t == [tab[r] EXCEPT !.n = tab[r].n + 1]
    <3>0. tab[r].n + 1 \in Nat
      BY <1>0
    <3>1. t \in Tab /\ t.at = "send" /\ t.pin = tab[r].pin
      BY <1>0, <1>1, <3>0 DEF Tab
    <3>2. tab' = [tab EXCEPT ![r] = t]
      BY <1>0, <2>2, TabTypes
    <3> HIDE DEF t
    <3>3. Only(r) /\ tab'[r] = t
      BY <1>0, <3>1, <3>2, OneTab
    <3> QED
      BY <1>2, <1>3, <3>1, <3>3 DEF PinOK, Holding
  <2> QED
    BY <1>1, <2>1, <2>2
<1>5. PinInv'
  BY <1>0, <1>1, <1>3, <1>4, PinsUntouched DEF Holding
<1>6. PinTypes'
  BY <1>0, <1>1, <1>3, TypeParts DEF PinTypes
<1> QED
  BY <1>1, <1>3, <1>4, <1>5, <1>6, PinStepKept DEF DownloadPlaces

-----------------------------------------------------------------------------
(* A verification *)

LEMMA EnterPinStep ==
    ASSUME IInv, NEW r \in Tabs, EnterPin(r), UNCHANGED <<scope, delivery, added>>
    PROVE  Kept
<1>0. TypeOK /\ PinInv /\ tab[r] \in Tab
  BY TabTypes DEF IInv
<1>q. PICK q \in Nat : q = Max(Valid) /\ q \in Stored /\ challenge[q].attempts < MaxAttempts
  <2>1. Max(Valid) \in Valid
    BY <1>0, ValidHasMax DEF EnterPin
  <2>2. Max(Valid) \in Stored /\ challenge[Max(Valid)].attempts < MaxAttempts
    BY <2>1 DEF Valid, Open, Stored
  <2>3. Max(Valid) \in Nat
    BY <1>0, <2>2, PTypes
  <2> QED
    BY <2>2, <2>3
<1>1. /\ tab[r].at = "idle" /\ (NoFault \/ Fault) /\ UNCHANGED <<pins, downloads>>
  BY DEF EnterPin
<1>2. PICK typed \in inbox \cup {0} :
          tab' = [tab EXCEPT ![r].at = Compare(typed), ![r].pin = q]
  BY <1>q DEF EnterPin
<1> DEFINE t == [tab[r] EXCEPT !.at = Compare(typed), !.pin = q]
<1>3. /\ Compare(typed) \in {"right", "wrong"}
      /\ Compare(typed) = "right" => q \in inbox
  <2>1. 0 \notin Stored
    BY <1>0, PTypes
  <2> QED
    BY <1>q, <2>1 DEF Compare
<1>4. t \in Tab /\ t.at = Compare(typed) /\ t.pin = q
  BY <1>0, <1>3 DEF Tab, TabPlaces, VerifyPlaces
<1>5. tab' = [tab EXCEPT ![r] = t]
  BY <1>0, <1>2, TabTypes
<1> HIDE DEF t
<1>6. /\ Only(r) /\ tab'[r].at \in {"right", "wrong"} /\ tab'[r].pin = q
      /\ tab'[r].at = "right" => q \in inbox
  BY <1>0, <1>3, <1>4, <1>5, OneTab
<1>7. UNCHANGED <<challenge, latest, inbox>> /\ Drawn' = Drawn /\ Stored' = Stored
      /\ DOMAIN challenge' = DOMAIN challenge
  BY <1>1 DEF pins, Drawn, Stored
<1>8. PinsOK'
  <2>1. PinOK(r)'
    BY <1>q, <1>6, <1>7 DEF PinOK, Holding
  <2>2. StatusesGoOn(r)
    BY <1>7 DEF StatusesGoOn
  <2> QED
    BY <1>0, <1>6, <1>7, <2>1, <2>2, PinsStayOK DEF PinInv, Holding
<1>9. LatestPinStands'
  BY <1>0, <1>7 DEF PinInv, LatestPinStands
<1>10. AttemptsOK'
  <2>1. ASSUME NEW p \in Drawn, p # q
        PROVE  challenge'[p].attempts + Cardinality(WrongTabs(p)')
                   < MaxAttempts + Cardinality(Tabs)
    <3>1. r \notin WrongTabs(p)'
      BY <1>6, <2>1 DEF WrongTabs
    <3> QED
      BY <1>0, <1>6, <1>7, <3>1, AttemptStaysOK DEF PinInv
  <2>2. challenge'[q].attempts + Cardinality(WrongTabs(q)') < MaxAttempts + Cardinality(Tabs)
    <3>1. WrongTabs(q)' \in SUBSET Tabs
      BY DEF WrongTabs
    <3>2. IsFiniteSet(WrongTabs(q)') /\ Cardinality(WrongTabs(q)') <= Cardinality(Tabs)
      BY <3>1, FinitelyManyTabs, FS_Subset
    <3>3. Cardinality(WrongTabs(q)') \in Nat /\ Cardinality(Tabs) \in Nat
      BY <3>2, FinitelyManyTabs, FS_CardinalityType
    <3>4. challenge[q].attempts \in Nat
      BY <1>0, <1>q, PTypes
    <3> QED
      BY <1>q, <1>7, <3>2, <3>3, <3>4, LimitsAreNumbers
  <2> QED
    BY <1>7, <2>1, <2>2 DEF AttemptsOK
<1>11. PinInv'
  BY <1>8, <1>9, <1>10 DEF PinInv
<1>12. PinTypes'
  BY <1>0, <1>1, <1>7, TypeParts DEF PinTypes, pins
<1> QED
  BY <1>1, <1>6, <1>7, <1>11, <1>12, PinStepKept DEF DownloadPlaces

LEMMA WrongPinStep ==
    ASSUME IInv, NEW r \in Tabs, WrongPin(r), UNCHANGED <<scope, delivery, added>>
    PROVE  Kept
<1>0. TypeOK /\ PinInv
  BY DEF IInv
<1>1. /\ tab[r].at = "wrong" /\ NoFault /\ Answer(r)
      /\ challenge' = [challenge EXCEPT ![tab[r].pin].attempts = @ + 1]
      /\ UNCHANGED <<aged, lapsed, latest, count, inbox, downloads>>
  BY DEF WrongPin
<1>q. PICK q \in Stored : q = tab[r].pin
  BY <1>0, <1>1 DEF PinInv, PinsOK, PinOK
<1> DEFINE c == [challenge[q] EXCEPT !.attempts = challenge[q].attempts + 1]
<1>2. q \in Drawn /\ challenge[q] \in Challenge /\ challenge[q].attempts \in Nat
  BY <1>0, PTypes
<1>3. challenge[q].attempts + 1 \in Nat
  BY <1>2
<1>4. /\ c \in Challenge /\ c.status = challenge[q].status
      /\ c.attempts = challenge[q].attempts + 1
  BY <1>2, <1>3 DEF Challenge
<1>5. challenge' = [challenge EXCEPT ![q] = c]
  BY <1>1, <1>q
<1> HIDE DEF c
<1>6. /\ challenge' \in Seq(Challenge) /\ Len(challenge') = Len(challenge) /\ Drawn' = Drawn
      /\ DOMAIN challenge' = DOMAIN challenge
      /\ \A p \in Drawn : challenge'[p] = IF p = q THEN c ELSE challenge[p]
  <2>1. challenge \in Seq(Challenge) /\ q \in 1..Len(challenge)
    BY <1>0, <1>2, PTypes DEF TypeOK
  <2> QED
    BY <1>4, <1>5, <2>1 DEF Drawn
<1>7. Only(r) /\ tab'[r].at = "idle"
  BY <1>0, <1>1, TabAnswers
<1>8. \A p \in Drawn : challenge'[p].status = challenge[p].status
  BY <1>4, <1>6
<1>9. PinsOK'
  <2>1. StatusesGoOn(r)
    BY <1>6, <1>8 DEF StatusesGoOn, Stored
  <2>2. PinOK(r)'
    BY <1>7 DEF PinOK, Holding
  <2> QED
    BY <1>0, <1>1, <1>7, <2>1, <2>2, PinsStayOK DEF PinInv, Holding
<1>10. LatestPinStands'
  <2>1. latest > 0 => latest \in Drawn
    BY <1>0, PTypes DEF TypeOK
  <2> QED
    BY <1>0, <1>1, <1>6, <1>8, <2>1 DEF PinInv, LatestPinStands
<1>11. AttemptsOK'
  <2>1. ASSUME NEW p \in Drawn, p # q
        PROVE  challenge'[p].attempts + Cardinality(WrongTabs(p)')
                   < MaxAttempts + Cardinality(Tabs)
    <3>1. r \notin WrongTabs(p)' /\ challenge'[p] = challenge[p]
      BY <1>6, <1>7, <2>1 DEF WrongTabs
    <3> QED
      BY <1>0, <1>7, <3>1, AttemptStaysOK DEF PinInv
  <2>2. challenge'[q].attempts + Cardinality(WrongTabs(q)') < MaxAttempts + Cardinality(Tabs)
    <3>1. WrongTabs(q)' = WrongTabs(q) \ {r} /\ r \in WrongTabs(q)
      BY <1>1, <1>q, <1>7 DEF WrongTabs, Only
    <3>2. IsFiniteSet(WrongTabs(q)) /\ Cardinality(WrongTabs(q)) \in Nat
      BY WrongTabsFinite
    <3>3. Cardinality(WrongTabs(q) \ {r}) = Cardinality(WrongTabs(q)) - 1
      BY <3>1, <3>2, FS_RemoveElement
    <3>4. challenge[q].attempts + Cardinality(WrongTabs(q)) < MaxAttempts + Cardinality(Tabs)
      BY <1>0, <1>2 DEF PinInv, AttemptsOK
    <3>5. challenge'[q].attempts = challenge[q].attempts + 1
      BY <1>2, <1>4, <1>6
    <3>6. MaxAttempts \in Nat /\ Cardinality(Tabs) \in Nat
      BY LimitsAreNumbers, FinitelyManyTabs, FS_CardinalityType
    <3>7. Cardinality(WrongTabs(q)') = Cardinality(WrongTabs(q)) - 1
      BY <3>1, <3>3
    <3> QED
      BY <1>2, <3>2, <3>4, <3>5, <3>6, <3>7
  <2> QED
    BY <1>6, <2>1, <2>2 DEF AttemptsOK
<1>12. PinInv'
  BY <1>9, <1>10, <1>11 DEF PinInv
<1>13. PinTypes'
  <2>1. PinTypes
    BY <1>0, TypeParts
  <2> QED
    BY <1>1, <1>6, <2>1 DEF PinTypes
<1> QED
  BY <1>1, <1>7, <1>12, <1>13, PinStepKept DEF DownloadPlaces

LEMMA RightPinStep ==
    ASSUME IInv, NEW r \in Tabs, RightPin(r), UNCHANGED <<scope, delivery, added>>
    PROVE  Kept
<1>0. TypeOK /\ PinInv
  BY DEF IInv
<1>1. /\ tab[r].at = "right" /\ NoFault /\ Goto(r, "session")
      /\ challenge' = [challenge EXCEPT ![tab[r].pin].status = "verified"]
      /\ UNCHANGED <<aged, lapsed, latest, count, inbox, downloads>>
  BY DEF RightPin
<1>q. PICK q \in Stored : q = tab[r].pin /\ q \in inbox
  BY <1>0, <1>1 DEF PinInv, PinsOK, PinOK
<1> DEFINE c == [challenge[q] EXCEPT !.status = "verified"]
<1>2. q \in Drawn /\ challenge[q] \in Challenge
  BY <1>0, PTypes
<1>3. c \in Challenge /\ c.status = "verified" /\ c.attempts = challenge[q].attempts
  BY <1>2 DEF Challenge, Statuses
<1>4. challenge' = [challenge EXCEPT ![q] = c]
  BY <1>1, <1>q
<1> HIDE DEF c
<1>5. /\ challenge' \in Seq(Challenge) /\ Len(challenge') = Len(challenge) /\ Drawn' = Drawn
      /\ DOMAIN challenge' = DOMAIN challenge
      /\ \A p \in Drawn : challenge'[p] = IF p = q THEN c ELSE challenge[p]
  <2>1. challenge \in Seq(Challenge) /\ q \in 1..Len(challenge)
    BY <1>0, <1>2, PTypes DEF TypeOK
  <2> QED
    BY <1>3, <1>4, <2>1 DEF Drawn
<1>6. Only(r) /\ tab'[r].at = "session" /\ tab'[r].pin = q
  <2>1. "session" \in TabPlaces
    BY DEF TabPlaces, VerifyPlaces
  <2> QED
    BY <1>0, <1>1, <1>q, <2>1, TabGoes
<1>7. PinsOK'
  <2>1. StatusesGoOn(r)
    BY <1>3, <1>5 DEF StatusesGoOn, Stored
  <2>2. PinOK(r)'
    BY <1>1, <1>q, <1>6 DEF PinOK, Holding
  <2> QED
    BY <1>0, <1>1, <1>6, <2>1, <2>2, PinsStayOK DEF PinInv, Holding
<1>8. LatestPinStands'
  <2>1. latest > 0 => latest \in Drawn
    BY <1>0, PTypes DEF TypeOK
  <2>2. \A p \in Drawn : challenge[p].status = "absent" => p # q
    BY DEF Stored
  <2> QED
    BY <1>0, <1>1, <1>3, <1>5, <2>1, <2>2 DEF PinInv, LatestPinStands
<1>9. AttemptsOK'
  BY <1>0, <1>3, <1>5, <1>6, AttemptsStayOK DEF PinInv
<1>10. PinInv'
  BY <1>7, <1>8, <1>9 DEF PinInv
<1>11. PinTypes'
  <2>1. PinTypes
    BY <1>0, TypeParts
  <2> QED
    BY <1>1, <1>5, <2>1 DEF PinTypes
<1> QED
  BY <1>1, <1>6, <1>10, <1>11, PinStepKept DEF DownloadPlaces

-----------------------------------------------------------------------------
(* A session and its downloads leave the PINs alone. *)

LEMMA DownloadStepKept ==
    ASSUME IInv, NEW r \in Tabs, Only(r), UNCHANGED pins,
           tab'[r].at \in DownloadPlaces \cup {"idle"}, UNCHANGED scope,
           NoFault \/ Fault, DownloadTypes', DownloadInv'
    PROVE  Kept
<1>1. TypeOK /\ PinInv
  BY DEF IInv
<1>2. faults' \in 0..scope.faults
  BY <1>1, FaultCounts
<1>3. UNCHANGED <<challenge, latest, inbox>>
  BY DEF pins
<1>4. PinOK(r)' /\ tab'[r].at \notin Holding \cup {"wrong"}
  BY DEF PinOK, Holding, DownloadPlaces
<1>5. PinInv'
  BY <1>1, <1>3, <1>4, PinsUntouched
<1>6. PinTypes'
  BY <1>1, TypeParts DEF PinTypes, pins, Drawn
<1> QED
  BY <1>2, <1>5, <1>6 DEF Kept, Only

(***************************************************************************)
(* Sessions are added and claim more and more; what other tabs and logged  *)
(* downloads say of them stays true.                                       *)
(***************************************************************************)
SessionsGoOn ==
    /\ DOMAIN sessions \subseteq DOMAIN sessions'
    /\ \A s \in DOMAIN sessions :
          /\ sessions'[s].pin = sessions[s].pin
          /\ sessions[s].used_file_keys \subseteq sessions'[s].used_file_keys

LEMMA OthersStayOK ==
    ASSUME DownloadInv, NEW r \in Tabs, Only(r), SessionsGoOn,
           UNCHANGED <<scope, delivery, added>>, DownloadOK(r)'
    PROVE  TabsOK'
<1>1. ASSUME NEW s \in Tabs, s # r PROVE DownloadOK(s)'
  <2>1. tab'[s] = tab[s] /\ DownloadOK(s)
    BY <1>1 DEF Only, DownloadInv, TabsOK
  <2> QED
    BY <2>1 DEF DownloadOK, WasAdded, Multi, IsClaimed, SessionsGoOn, DownloadPlaces
<1> QED
  BY <1>1 DEF TabsOK

LEMMA EntriesStayOK ==
    ASSUME DownloadInv, SessionsGoOn, UNCHANGED <<scope, added>>
    PROVE  \A i \in DOMAIN log :
              /\ log[i].session \in DOMAIN sessions'
              /\ \E v \in added' : v.version = log[i].version /\ v.gen = log[i].gen
              /\ Multi' => <<log[i].version, log[i].key>>
                               \in sessions'[log[i].session].used_file_keys
BY DEF DownloadInv, LogOK, EntryOK, WasAdded, IsClaimed, Multi, SessionsGoOn

LEMMA CreateSessionStep ==
    ASSUME IInv, NEW r \in Tabs, CreateSession(r), UNCHANGED <<scope, delivery, added>>
    PROVE  Kept
<1>0. TypeOK /\ PinInv /\ DownloadInv /\ Len(sessions) \in Nat
  BY STypes DEF IInv
<1>1. /\ tab[r].at = "session" /\ NoFault /\ Answer(r)
      /\ sessions' = Append(sessions, NewSession(tab[r].pin))
      /\ cookie' = Len(sessions) + 1
      /\ UNCHANGED <<pins, ended, log, faults>>
  BY DEF CreateSession, NoFault
<1>2. Only(r) /\ tab'[r].at = "idle"
  BY <1>0, <1>1, TabAnswers
<1>p. PICK new \in Session :
          new = NewSession(tab[r].pin) /\ new.pin \in inbox /\ ~new.used /\ new.used_file_keys = {}
  <2>1. tab[r].pin \in inbox
    BY <1>0, <1>1 DEF PinInv, PinsOK, PinOK
  <2>2. tab[r].pin \in Nat
    BY <1>0, TabTypes
  <2>3. /\ NewSession(tab[r].pin) \in Session /\ NewSession(tab[r].pin).pin = tab[r].pin
        /\ ~NewSession(tab[r].pin).used /\ NewSession(tab[r].pin).used_file_keys = {}
    BY <2>2 DEF NewSession, Session
  <2> QED
    BY <2>1, <2>3
<1>n. PICK n \in Nat : n = Len(sessions) + 1
  BY <1>0
<1>3. /\ sessions' \in Seq(Session) /\ Len(sessions') = n
      /\ DOMAIN sessions' = DOMAIN sessions \cup {n} /\ n \notin DOMAIN sessions
      /\ \A s \in DOMAIN sessions : sessions'[s] = sessions[s]
      /\ sessions'[n] = new
  BY <1>0, <1>1, <1>p, <1>n, STypes
<1>4. SessionsGoOn
  BY <1>3 DEF SessionsGoOn
<1>5. UNCHANGED inbox
  BY <1>1 DEF pins
<1>6. TabsOK'
  <2>1. DownloadOK(r)'
    BY <1>2 DEF DownloadOK, DownloadPlaces
  <2> QED
    BY <1>0, <1>2, <1>4, <2>1, OthersStayOK
<1>7. SessionsOK'
  BY <1>0, <1>3, <1>5, <1>p DEF DownloadInv, SessionsOK
<1>8. LogOK'
  BY <1>0, <1>1, <1>4, EntriesStayOK DEF LogOK, EntryOK, WasAdded, IsClaimed
<1>9. AfterClaim' = AfterClaim /\ \A s \in AfterClaim : tab'[s] = tab[s]
  BY <1>1, <1>2 DEF AfterClaim, Only
<1>10. OnceOK'
  BY <1>0, <1>1, <1>9 DEF DownloadInv, OnceOK, ClaimOf, Multi
<1>11. UsedUpOK'
  BY <1>0, <1>3, <1>p DEF DownloadInv, UsedUpOK, Multi
<1>12. LostOK'
  <2>1. Fetched' = Fetched
    BY <1>1 DEF Fetched
  <2>2. Claims' = Claims
    <3>1. \A x : x \in Claims <=> \E s \in DOMAIN sessions : x \in {s} \X sessions[s].used_file_keys
      BY DEF Claims
    <3>2. \A x : x \in Claims'
                    <=> \E s \in DOMAIN sessions' : x \in {s} \X sessions'[s].used_file_keys
      BY DEF Claims
    <3> QED
      BY <1>3, <1>p, <3>1, <3>2
  <2> QED
    BY <1>0, <1>1, <1>9, <2>1, <2>2 DEF DownloadInv, LostOK, Multi
<1>13. DownloadInv'
  BY <1>6, <1>7, <1>8, <1>10, <1>11, <1>12 DEF DownloadInv
<1>14. DownloadTypes'
  <2>1. log \in Seq(Entry) /\ ended \in 0..Len(sessions)
    BY <1>0, TypeParts DEF DownloadTypes
  <2>2. ended \in 0..Len(sessions') /\ cookie' \in 0..Len(sessions')
    BY <1>0, <1>1, <1>3, <1>n, <2>1
  <2> QED
    BY <1>1, <1>3, <2>1, <2>2 DEF DownloadTypes
<1> QED
  BY <1>1, <1>2, <1>13, <1>14, DownloadStepKept

LEMMA OpenDownloadStep ==
    ASSUME IInv, NEW r \in Tabs, OpenDownload(r), UNCHANGED <<scope, delivery, added>>
    PROVE  Kept
<1>0. TypeOK /\ DownloadInv /\ tab[r] \in Tab
  BY TabTypes DEF IInv
<1>1. /\ tab[r].at = "idle" /\ NoFault /\ UNCHANGED <<pins, downloads, faults>>
      /\ cookie > ended
  BY DEF OpenDownload, NoFault
<1>k. PICK key \in Keys :
          tab' = [tab EXCEPT ![r].at = "read", ![r].session = cookie, ![r].key = key]
  BY DEF OpenDownload, Keys
<1> DEFINE t == [tab[r] EXCEPT !.at = "read", !.session = cookie, !.key = key]
<1>2. cookie \in DOMAIN sessions /\ cookie \in Nat
  BY <1>0, <1>1, STypes
<1>3. t \in Tab /\ t.at = "read" /\ t.session = cookie
  BY <1>0, <1>2 DEF Tab, TabPlaces, DownloadPlaces
<1>4. tab' = [tab EXCEPT ![r] = t]
  BY <1>0, <1>k, TabTypes
<1> HIDE DEF t
<1>5. Only(r) /\ tab'[r].at = "read" /\ tab'[r].session = cookie
  BY <1>0, <1>3, <1>4, OneTab
<1>6. UNCHANGED <<sessions, log, inbox>>
  BY <1>1 DEF downloads, pins
<1>7. DownloadOK(r)'
  BY <1>2, <1>5, <1>6 DEF DownloadOK
<1>8. DownloadInv'
  BY <1>0, <1>1, <1>5, <1>6, <1>7, DownloadsUntouched, FaultCounts
<1>9. DownloadTypes'
  BY <1>0, <1>1, TypeParts DEF DownloadTypes, downloads
<1> QED
  BY <1>1, <1>5, <1>8, <1>9, DownloadStepKept DEF DownloadPlaces

LEMMA ReadDeliveryStep ==
    ASSUME IInv, NEW r \in Tabs, ReadDelivery(r), UNCHANGED <<scope, delivery, added>>
    PROVE  Kept
<1>0. TypeOK /\ DownloadInv /\ tab[r] \in Tab /\ DInv
  BY TabTypes DEF IInv
<1>1. tab[r].at = "read" /\ NoFault /\ UNCHANGED <<pins, downloads, faults>>
  BY DEF ReadDelivery, NoFault
<1>2. tab[r].session \in DOMAIN sessions
  BY <1>0, <1>1 DEF DownloadInv, TabsOK, DownloadOK, DownloadPlaces
<1>3. UNCHANGED <<sessions, log, inbox>>
  BY <1>1 DEF downloads, pins
<1>4. /\ Only(r) /\ tab'[r].at \in {"idle", "claim", "log"}
      /\ tab'[r].at = "claim" => Multi
      /\ tab'[r].at = "log" => ~Multi
      /\ tab'[r].at # "idle" =>
            /\ tab'[r].session = tab[r].session
            /\ WasAdded(tab'[r].version, tab'[r].gen)
            /\ tab'[r].version \in Numbers(delivery.versions)
  <2>1. CASE ~Accessible \/ ~HasCurrent(delivery)
    BY <1>0, <2>1, TabAnswers DEF ReadDelivery
  <2>2. CASE HasCurrent(delivery) /\ ~(~Accessible \/ ~HasCurrent(delivery))
    <3> DEFINE place == IF Multi THEN "claim" ELSE "log"
               v == get_current_version(delivery)
               t == [tab[r] EXCEPT !.at = place, !.version = delivery.current_version,
                                   !.gen = v.gen]
    <3>1. PICK i \in DOMAIN delivery.versions :
              v = delivery.versions[i] /\ v.version = delivery.current_version
      <4>1. \E j \in DOMAIN delivery.versions :
                delivery.versions[j].version = delivery.current_version
        BY <2>2 DEF HasCurrent, Numbers
      <4> QED
        BY <4>1 DEF get_current_version
    <3>2. v \in added
      BY <1>0, <3>1 DEF DInv, DocumentOK, ListOK
    <3>3. delivery.current_version \in Nat /\ v.gen \in Nat
      <4>1. v \in Version
        BY <1>0, <3>2 DEF DInv, DeliveryTypeOK
      <4>2. delivery \in Delivery
        BY <1>0 DEF DInv, DeliveryTypeOK
      <4> QED
        BY <4>1, <4>2 DEF Version, Delivery
    <3>4. tab' = [tab EXCEPT ![r] = t]
      BY <1>0, <2>2, TabTypes DEF ReadDelivery, Multi
    <3>5. place \in TabPlaces
      BY DEF TabPlaces, DownloadPlaces
    <3>6. place \in {"claim", "log"} /\ (place = "claim" => Multi) /\ (place = "log" => ~Multi)
      OBVIOUS
    <3>7. WasAdded(delivery.current_version, v.gen)
      BY <3>1, <3>2 DEF WasAdded
    <3> HIDE DEF place, v
    <3>8. t \in Tab /\ t.at = place /\ t.session = tab[r].session
          /\ t.version = delivery.current_version /\ t.gen = v.gen
      BY <1>0, <3>3, <3>5 DEF Tab
    <3> HIDE DEF t
    <3>9. Only(r) /\ tab'[r] = t
      BY <1>0, <3>4, <3>8, OneTab
    <3> QED
      BY <2>2, <3>6, <3>7, <3>8, <3>9 DEF HasCurrent
  <2> QED
    BY <2>1, <2>2
<1>5. DownloadOK(r)'
  <2>1. Multi' = Multi /\ delivery' = delivery /\ added' = added /\ sessions' = sessions
    BY <1>3 DEF Multi
  <2> QED
    BY <1>2, <1>4, <2>1 DEF DownloadOK, WasAdded, DownloadPlaces
<1>6. DownloadInv'
  BY <1>0, <1>1, <1>3, <1>4, <1>5, DownloadsUntouched, FaultCounts
<1>7. DownloadTypes'
  BY <1>0, <1>1, TypeParts DEF DownloadTypes, downloads
<1> QED
  BY <1>1, <1>4, <1>6, <1>7, DownloadStepKept DEF DownloadPlaces

LEMMA TabFailsStep ==
    ASSUME IInv, NEW r \in Tabs, TabFails(r), UNCHANGED <<scope, delivery, added>>
    PROVE  Kept
<1>0. TypeOK /\ DownloadInv
  BY DEF IInv
<1>1. Fault /\ Answer(r) /\ UNCHANGED <<pins, downloads>>
  BY DEF TabFails
<1>2. faults' = faults + 1 /\ faults \in Nat
  BY <1>0, <1>1, FaultCounts
<1>3. Only(r) /\ tab'[r].at = "idle"
  BY <1>0, <1>1, TabAnswers
<1>4. DownloadOK(r)'
  BY <1>3 DEF DownloadOK, DownloadPlaces
<1>5. UNCHANGED <<sessions, log, inbox>>
  BY <1>1 DEF downloads, pins
<1>6. DownloadInv'
  BY <1>0, <1>2, <1>3, <1>4, <1>5, DownloadsUntouched
<1>7. DownloadTypes'
  BY <1>0, <1>1, TypeParts DEF DownloadTypes, downloads
<1> QED
  BY <1>1, <1>3, <1>6, <1>7, DownloadStepKept

(***************************************************************************)
(* A refused claim answers; one that succeeds adds one claim, which no     *)
(* download has and no other tab holds, and one tab that is to log it.     *)
(***************************************************************************)
LEMMA ClaimRefusedStep ==
    ASSUME IInv, NEW r \in Tabs, Answer(r), NoFault, tab[r].at # "log",
           UNCHANGED <<pins, downloads, scope, delivery, added>>
    PROVE  Kept
<1>0. TypeOK /\ DownloadInv
  BY DEF IInv
<1>1. Only(r) /\ tab'[r].at = "idle"
  BY <1>0, TabAnswers
<1>2. DownloadOK(r)'
  BY <1>1 DEF DownloadOK, DownloadPlaces
<1>3. UNCHANGED <<sessions, log, inbox, faults>>
  BY DEF downloads, pins, NoFault
<1>4. DownloadInv'
  BY <1>0, <1>1, <1>2, <1>3, DownloadsUntouched, FaultCounts
<1>5. DownloadTypes'
  BY <1>0, TypeParts DEF DownloadTypes, downloads
<1> QED
  BY <1>1, <1>4, <1>5, DownloadStepKept

LEMMA ClaimStep ==
    ASSUME IInv, NEW r \in Tabs, Claim(r), UNCHANGED <<scope, delivery, added>>
    PROVE  Kept
<1>0. TypeOK /\ DownloadInv
  BY DEF IInv
<1>1. tab[r].at = "claim" /\ NoFault /\ UNCHANGED <<pins, ended, cookie, log, faults>>
  BY DEF Claim, NoFault
<1>2. DownloadOK(r)
  BY <1>0 DEF DownloadInv, TabsOK
<1>3. PICK n \in DOMAIN sessions, version \in Nat, key \in Keys :
          n = tab[r].session /\ version = tab[r].version /\ key = tab[r].key
  BY <1>0, <1>1, <1>2, TabTypes DEF DownloadOK, DownloadPlaces
<1>4. Multi /\ WasAdded(version, tab[r].gen) /\ version \in Numbers(delivery.versions)
  BY <1>1, <1>2, <1>3 DEF DownloadOK
<1>c. PICK claim \in ClaimKey : claim = <<version, key>>
  BY DEF ClaimKey
<1>5. CASE ~MayClaim(sessions[n], claim)
  <2>1. Answer(r) /\ UNCHANGED sessions
    BY <1>3, <1>5, <1>c DEF Claim
  <2> QED
    BY <1>1, <2>1, ClaimRefusedStep DEF downloads
<1>6. CASE MayClaim(sessions[n], claim)
  <2> DEFINE s == sessions[n]
             used == AllClaims(version) \subseteq s.used_file_keys \cup {claim}
             new == Claimed(s, claim, AllClaims(version))
  <2>1. sessions' = [sessions EXCEPT ![n] = new] /\ Goto(r, "log")
    BY <1>3, <1>6, <1>c DEF Claim
  <2>2. s \in Session /\ claim \notin s.used_file_keys
    BY <1>0, <1>6, STypes DEF MayClaim
  <2>3. new \in Session /\ new.pin = s.pin /\ new.used_file_keys = s.used_file_keys \cup {claim}
        /\ new.used = used
    BY <2>2 DEF Claimed, Session
  <2> HIDE DEF new
  <2>4. /\ sessions' \in Seq(Session) /\ Len(sessions') = Len(sessions)
        /\ DOMAIN sessions' = DOMAIN sessions
        /\ \A m \in DOMAIN sessions : sessions'[m] = IF m = n THEN new ELSE sessions[m]
    BY <1>0, <2>1, <2>3, STypes
  <2>5. SessionsGoOn
    BY <2>3, <2>4 DEF SessionsGoOn
  <2>6. /\ Only(r) /\ tab'[r].at = "log" /\ tab'[r].session = n /\ tab'[r].version = version
        /\ tab'[r].gen = tab[r].gen /\ tab'[r].key = key
    <3>1. "log" \in TabPlaces
      BY DEF TabPlaces, DownloadPlaces
    <3> QED
      BY <1>0, <1>3, <2>1, <3>1, TabGoes
  <2>7. Multi' /\ UNCHANGED inbox
    BY <1>1, <1>4 DEF Multi, pins
  <2>8. TabsOK'
    <3>1. IsClaimed(tab[r])'
      BY <1>c, <2>3, <2>4, <2>6 DEF IsClaimed
    <3>2. DownloadOK(r)'
      BY <1>4, <2>4, <2>6, <3>1 DEF DownloadOK, DownloadPlaces, WasAdded
    <3> QED
      BY <1>0, <2>5, <2>6, <3>2, OthersStayOK
  <2>9. SessionsOK'
    BY <1>0, <2>3, <2>4, <2>7 DEF DownloadInv, SessionsOK
  <2>10. LogOK'
    BY <1>0, <1>1, <2>5, EntriesStayOK DEF LogOK, EntryOK, WasAdded, IsClaimed
  <2>11. /\ AfterClaim' = AfterClaim \cup {r} /\ r \notin AfterClaim
         /\ \A x \in AfterClaim : tab'[x] = tab[x]
    BY <1>1, <2>6 DEF AfterClaim, Only
  <2>12. OnceOK'
    <3>1. ClaimOf(tab'[r]) = <<n, claim>>
      BY <1>c, <2>6 DEF ClaimOf
    <3>2. \A i \in DOMAIN log : ClaimOf(log[i]) # <<n, claim>>
      BY <1>0, <1>4, <2>2 DEF ClaimOf, DownloadInv, LogOK, EntryOK, IsClaimed
    <3>3. \A x \in AfterClaim : ClaimOf(tab[x]) # <<n, claim>>
      BY <1>0, <1>4, <2>2 DEF ClaimOf, DownloadInv, TabsOK, DownloadOK, IsClaimed, AfterClaim
    <3>4. OnceOK
      BY <1>0 DEF DownloadInv
    <3>5. \A i, j \in DOMAIN log : ClaimOf(log'[i]) = ClaimOf(log'[j]) => i = j
      BY <1>1, <1>4, <3>4 DEF OnceOK
    <3>6. \A x \in AfterClaim', i \in DOMAIN log : ClaimOf(tab'[x]) # ClaimOf(log'[i])
      BY <1>1, <1>4, <2>11, <3>1, <3>2, <3>4 DEF OnceOK
    <3>7. \A x, y \in AfterClaim' : ClaimOf(tab'[x]) = ClaimOf(tab'[y]) => x = y
      BY <1>4, <2>11, <3>1, <3>3, <3>4 DEF OnceOK
    <3> QED
      BY <1>1, <3>5, <3>6, <3>7 DEF OnceOK, ClaimOf
  <2>13. UsedUpOK'
    <3>1. ASSUME NEW m \in DOMAIN sessions, sessions'[m].used
          PROVE  \E k \in Numbers(delivery.versions) :
                    AllClaims(k) \subseteq sessions'[m].used_file_keys
      <4>1. CASE m = n
        BY <1>4, <2>3, <2>4, <3>1, <4>1
      <4>2. CASE m # n
        BY <1>0, <1>4, <2>4, <3>1, <4>2 DEF DownloadInv, UsedUpOK
      <4> QED
        BY <4>1, <4>2
    <3> QED
      BY <2>4, <3>1 DEF UsedUpOK, AllClaims
  <2>14. LostOK'
    <3> DEFINE x == <<n, claim>>
               lost == Claims \ Fetched
    <3>1. Fetched' = Fetched
      BY <1>1 DEF Fetched
    <3>2. Claims' \subseteq Claims \cup {<<n, claim>>}
      <4>1. ASSUME NEW m \in DOMAIN sessions, NEW f \in sessions'[m].used_file_keys
            PROVE  f \in sessions[m].used_file_keys \/ <<m, f>> = <<n, claim>>
        BY <2>3, <2>4
      <4>2. ASSUME NEW y \in Claims' PROVE y \in Claims \cup {<<n, claim>>}
        <5>1. PICK m \in DOMAIN sessions : \E f \in sessions'[m].used_file_keys : y = <<m, f>>
          BY <2>4, <4>2 DEF Claims
        <5> QED
          BY <4>1, <5>1 DEF Claims
      <4> QED
        BY <4>2
    <3>3. Claims' \ Fetched' \in SUBSET (lost \cup {x})
      BY <3>1, <3>2
    <3>4. IsFiniteSet(lost) /\ Cardinality(lost) <= Cardinality(AfterClaim) + faults
      BY <1>0, <1>4 DEF DownloadInv, LostOK
    <3>5. IsFiniteSet(AfterClaim) /\ Cardinality(AfterClaim) \in Nat
      <4>1. AfterClaim \in SUBSET Tabs
        BY DEF AfterClaim
      <4> QED
        BY <4>1, FinitelyManyTabs, FS_Subset, FS_CardinalityType
    <3>6. Cardinality(AfterClaim') = Cardinality(AfterClaim) + 1
      BY <2>11, <3>5, FS_AddElement
    <3> HIDE DEF lost, x
    <3>7. /\ IsFiniteSet(lost \cup {x}) /\ Cardinality(lost) \in Nat
          /\ Cardinality(lost \cup {x}) <= Cardinality(lost) + 1
      <4>1. Cardinality(lost) \in Nat
        BY <3>4, FS_CardinalityType
      <4>2. /\ IsFiniteSet(lost \cup {x})
            /\ Cardinality(lost \cup {x}) = IF x \in lost THEN Cardinality(lost)
                                            ELSE Cardinality(lost) + 1
        BY <3>4, FS_AddElement
      <4> QED
        BY <4>1, <4>2
    <3>8. IsFiniteSet(Claims' \ Fetched') /\ Cardinality(Claims' \ Fetched') \in Nat
          /\ Cardinality(Claims' \ Fetched') <= Cardinality(lost \cup {x})
      <4> DEFINE S == lost \cup {x}
                 T == Claims' \ Fetched'
      <4> HIDE DEF S, T
      <4>1. IsFiniteSet(S) /\ T \in SUBSET S
        BY <3>3, <3>7 DEF S, T
      <4>2. IsFiniteSet(T) /\ Cardinality(T) <= Cardinality(S) /\ Cardinality(T) \in Nat
        BY <4>1, FS_Subset, FS_CardinalityType
      <4> QED
        BY <4>2 DEF S, T
    <3>9. faults \in Nat /\ Cardinality(lost \cup {x}) \in Nat
      BY <1>0, <3>7, FaultCounts, FS_CardinalityType
    <3>10. Cardinality(Claims' \ Fetched') <= Cardinality(AfterClaim') + faults'
      BY <1>1, <3>4, <3>5, <3>6, <3>7, <3>8, <3>9
    <3> QED
      BY <3>8, <3>10 DEF LostOK
  <2>15. DownloadInv'
    BY <2>8, <2>9, <2>10, <2>12, <2>13, <2>14 DEF DownloadInv
  <2>16. DownloadTypes'
    BY <1>0, <1>1, <2>4, TypeParts DEF DownloadTypes
  <2> QED
    BY <1>1, <2>6, <2>15, <2>16, DownloadStepKept DEF DownloadPlaces
<1> QED
  BY <1>5, <1>6

(***************************************************************************)
(* The log of a multi-file download adds the tab's claim to what was       *)
(* fetched; a single file's has no claim.                                  *)
(***************************************************************************)
LEMMA WriteLogStep ==
    ASSUME IInv, NEW r \in Tabs, WriteLog(r), UNCHANGED <<scope, delivery, added>>
    PROVE  Kept
<1>0. TypeOK /\ DownloadInv /\ log \in Seq(Entry)
  BY STypes DEF IInv
<1>1. /\ tab[r].at = "log" /\ NoFault /\ UNCHANGED <<pins, sessions, ended, cookie, faults>>
      /\ IF Multi THEN Answer(r) ELSE Goto(r, "mark")
  BY DEF WriteLog, NoFault, Multi
<1>2. DownloadOK(r)
  BY <1>0 DEF DownloadInv, TabsOK
<1>e. PICK e \in Entry :
          /\ log' = Append(log, e)
          /\ e.session = tab[r].session /\ e.version = tab[r].version
          /\ e.gen = tab[r].gen /\ e.key = tab[r].key
  <2> DEFINE d == [session |-> tab[r].session, version |-> tab[r].version,
                   gen |-> tab[r].gen, key |-> tab[r].key]
  <2>1. d \in Entry /\ d.session = tab[r].session /\ d.version = tab[r].version
        /\ d.gen = tab[r].gen /\ d.key = tab[r].key
    BY <1>0, TabTypes DEF Entry
  <2>2. log' = Append(log, d)
    BY DEF WriteLog
  <2> QED
    BY <2>1, <2>2
<1>n. PICK n \in Nat : n = Len(log) + 1
  BY <1>0
<1>3. /\ log' \in Seq(Entry) /\ DOMAIN log' = DOMAIN log \cup {n} /\ n \notin DOMAIN log
      /\ \A i \in DOMAIN log : log'[i] = log[i]
      /\ log'[n] = e
  BY <1>0, <1>e, <1>n
<1>4. /\ Only(r) /\ tab'[r].at \in {"idle", "mark"}
      /\ tab'[r].at = "mark" => ~Multi /\ tab'[r].session = tab[r].session
  <2>1. "mark" \in TabPlaces
    BY DEF TabPlaces, DownloadPlaces
  <2>2. CASE Multi
    BY <1>0, <1>1, <2>2, TabAnswers
  <2>3. CASE ~Multi
    BY <1>0, <1>1, <2>1, <2>3, TabGoes
  <2> QED
    BY <2>2, <2>3
<1>5. SessionsGoOn /\ UNCHANGED inbox /\ (Multi' <=> Multi)
  BY <1>1 DEF SessionsGoOn, pins, Multi
<1>6. EntryOK(e)
  BY <1>1, <1>2, <1>e DEF DownloadOK, EntryOK, IsClaimed, WasAdded, DownloadPlaces
<1>7. TabsOK'
  <2>1. DownloadOK(r)'
    BY <1>1, <1>2, <1>4, <1>5 DEF DownloadOK, DownloadPlaces
  <2> QED
    BY <1>0, <1>4, <1>5, <2>1, OthersStayOK
<1>8. SessionsOK'
  BY <1>0, <1>1, <1>5 DEF DownloadInv, SessionsOK
<1>9. LogOK'
  <2>1. \A i \in DOMAIN log : EntryOK(log[i])
    BY <1>0 DEF DownloadInv, LogOK
  <2>2. ASSUME NEW i \in DOMAIN log'
        PROVE  /\ log'[i].session \in DOMAIN sessions
               /\ WasAdded(log'[i].version, log'[i].gen)
               /\ Multi => IsClaimed(log'[i])
    BY <1>3, <1>6, <2>1 DEF EntryOK
  <2> QED
    BY <1>1, <1>5, <2>2 DEF LogOK, EntryOK, WasAdded, IsClaimed
<1>10. ASSUME Multi
       PROVE  /\ AfterClaim' = AfterClaim \ {r} /\ r \in AfterClaim
              /\ \A x \in AfterClaim' : tab'[x] = tab[x]
              /\ IsFiniteSet(AfterClaim) /\ Cardinality(AfterClaim) \in Nat
              /\ Cardinality(AfterClaim') = Cardinality(AfterClaim) - 1
  <2>1. tab'[r].at # "log"
    BY <1>4
  <2>2. r \in AfterClaim /\ \A x \in Tabs : x # r => tab'[x] = tab[x]
    BY <1>1, <1>4 DEF AfterClaim, Only
  <2>3. /\ AfterClaim' = AfterClaim \ {r}
        /\ IsFiniteSet(AfterClaim) /\ Cardinality(AfterClaim) \in Nat
        /\ Cardinality(AfterClaim') = Cardinality(AfterClaim) - 1
    BY <1>1, <1>4, <2>1, AfterClaimShrinks
  <2>4. \A x \in AfterClaim' : tab'[x] = tab[x]
    BY <2>2, <2>3 DEF AfterClaim
  <2> QED
    BY <2>2, <2>3, <2>4
<1>11. ASSUME Multi PROVE \A i \in DOMAIN log : ClaimOf(e) # ClaimOf(log[i])
  <2>1. ClaimOf(e) = ClaimOf(tab[r])
    BY <1>e DEF ClaimOf
  <2> QED
    BY <1>0, <1>10, <1>11, <2>1 DEF DownloadInv, OnceOK
<1>12. OnceOK'
  <2>1. ASSUME Multi
        PROVE  /\ \A i, j \in DOMAIN log' : ClaimOf(log'[i]) = ClaimOf(log'[j]) => i = j
               /\ \A x \in AfterClaim', i \in DOMAIN log' : ClaimOf(tab'[x]) # ClaimOf(log'[i])
               /\ \A x, y \in AfterClaim' : ClaimOf(tab'[x]) = ClaimOf(tab'[y]) => x = y
    <3>1. /\ \A i, j \in DOMAIN log : ClaimOf(log[i]) = ClaimOf(log[j]) => i = j
          /\ \A x \in AfterClaim, i \in DOMAIN log : ClaimOf(tab[x]) # ClaimOf(log[i])
          /\ \A x, y \in AfterClaim : ClaimOf(tab[x]) = ClaimOf(tab[y]) => x = y
      BY <1>0, <2>1 DEF DownloadInv, OnceOK
    <3>2. ClaimOf(tab[r]) = ClaimOf(e)
      BY <1>e DEF ClaimOf
    <3>3. \A x \in AfterClaim' : x \in AfterClaim /\ x # r /\ tab'[x] = tab[x]
      BY <1>10, <2>1
    <3>4. \A x \in AfterClaim' : ClaimOf(tab'[x]) # ClaimOf(e)
      BY <1>10, <2>1, <3>1, <3>2, <3>3
    <3>5. \A i, j \in DOMAIN log' : ClaimOf(log'[i]) = ClaimOf(log'[j]) => i = j
      BY <1>3, <1>11, <2>1, <3>1
    <3>6. \A x \in AfterClaim', i \in DOMAIN log' : ClaimOf(tab'[x]) # ClaimOf(log'[i])
      BY <1>3, <3>1, <3>3, <3>4
    <3> QED
      BY <3>1, <3>3, <3>5, <3>6
  <2> QED
    BY <1>5, <2>1 DEF OnceOK, ClaimOf
<1>13. UsedUpOK'
  BY <1>0, <1>1, <1>5 DEF DownloadInv, UsedUpOK
<1>14. LostOK'
  <2>1. ASSUME Multi
        PROVE  /\ IsFiniteSet(Claims' \ Fetched')
               /\ Cardinality(Claims' \ Fetched') <= Cardinality(AfterClaim') + faults'
    <3> DEFINE lost == Claims \ Fetched
               c == ClaimOf(e)
    <3>1. Claims' = Claims
      BY <1>1 DEF Claims
    <3>2. \A i \in DOMAIN log :
              <<log[i].session, <<log[i].version, log[i].key>> >> = ClaimOf(log[i])
      BY DEF ClaimOf
    <3>3. Fetched' = Fetched \cup {c}
      <4>1. \A x : x \in Fetched <=> \E i \in DOMAIN log : x = ClaimOf(log[i])
        BY DEF Fetched, ClaimOf
      <4>2. \A x : x \in Fetched' <=> \E i \in DOMAIN log' : x = ClaimOf(log'[i])
        BY DEF Fetched, ClaimOf
      <4> QED
        BY <1>3, <4>1, <4>2
    <3>4. c \in lost
      <4>1. c \in Claims
        BY <1>6, <2>1 DEF EntryOK, IsClaimed, ClaimOf, Claims
      <4>2. c \notin Fetched
        BY <1>11, <2>1, <3>2 DEF Fetched
      <4> QED
        BY <4>1, <4>2
    <3>5. Claims' \ Fetched' = lost \ {c}
      BY <3>1, <3>3
    <3>6. IsFiniteSet(lost) /\ Cardinality(lost) <= Cardinality(AfterClaim) + faults
      BY <1>0, <2>1 DEF DownloadInv, LostOK
    <3> HIDE DEF lost, c
    <3>7. Cardinality(lost) \in Nat /\ faults \in Nat
      BY <1>0, <3>6, FaultCounts, FS_CardinalityType
    <3>8. IsFiniteSet(lost \ {c}) /\ Cardinality(lost \ {c}) = Cardinality(lost) - 1
      BY <3>4, <3>6, FS_RemoveElement
    <3>9. Cardinality(lost \ {c}) <= Cardinality(AfterClaim') + faults'
      BY <1>1, <1>10, <2>1, <3>6, <3>7, <3>8
    <3> QED
      BY <3>5, <3>8, <3>9
  <2> QED
    BY <1>5, <2>1 DEF LostOK
<1>15. DownloadInv'
  BY <1>7, <1>8, <1>9, <1>12, <1>13, <1>14 DEF DownloadInv
<1>16. DownloadTypes'
  BY <1>0, <1>1, <1>3, TypeParts DEF DownloadTypes
<1> QED
  BY <1>1, <1>4, <1>15, <1>16, DownloadStepKept DEF DownloadPlaces

LEMMA MarkUsedStep ==
    ASSUME IInv, NEW r \in Tabs, MarkUsed(r), UNCHANGED <<scope, delivery, added>>
    PROVE  Kept
<1>0. TypeOK /\ DownloadInv
  BY DEF IInv
<1>1. /\ tab[r].at = "mark" /\ NoFault /\ Answer(r)
      /\ sessions' = [sessions EXCEPT ![tab[r].session].used = TRUE]
      /\ UNCHANGED <<pins, ended, cookie, log, faults>>
  BY DEF MarkUsed, NoFault
<1>2. ~Multi /\ tab[r].session \in DOMAIN sessions
  BY <1>0, <1>1 DEF DownloadInv, TabsOK, DownloadOK, DownloadPlaces
<1>n. PICK n \in DOMAIN sessions : n = tab[r].session
  BY <1>2
<1> DEFINE new == [sessions[n] EXCEPT !.used = TRUE]
<1>3. sessions' = [sessions EXCEPT ![n] = new]
  BY <1>1, <1>n
<1>4. new \in Session /\ new.pin = sessions[n].pin
      /\ new.used_file_keys = sessions[n].used_file_keys
  BY <1>0, STypes DEF Session
<1> HIDE DEF new
<1>5. /\ sessions' \in Seq(Session) /\ Len(sessions') = Len(sessions)
      /\ DOMAIN sessions' = DOMAIN sessions
      /\ \A m \in DOMAIN sessions : sessions'[m] = IF m = n THEN new ELSE sessions[m]
  BY <1>0, <1>3, <1>4, STypes
<1>6. SessionsGoOn
  BY <1>4, <1>5 DEF SessionsGoOn
<1>7. Only(r) /\ tab'[r].at = "idle"
  BY <1>0, <1>1, TabAnswers
<1>8. ~Multi' /\ UNCHANGED inbox
  BY <1>1, <1>2 DEF Multi, pins
<1>9. TabsOK'
  <2>1. DownloadOK(r)'
    BY <1>7 DEF DownloadOK, DownloadPlaces
  <2> QED
    BY <1>0, <1>6, <1>7, <2>1, OthersStayOK
<1>10. SessionsOK'
  BY <1>0, <1>4, <1>5, <1>8 DEF DownloadInv, SessionsOK
<1>11. LogOK'
  BY <1>0, <1>1, <1>6, <1>8, EntriesStayOK DEF LogOK, EntryOK, WasAdded
<1>12. OnceOK' /\ UsedUpOK' /\ LostOK'
  BY <1>8 DEF OnceOK, UsedUpOK, LostOK
<1>13. DownloadInv'
  BY <1>9, <1>10, <1>11, <1>12 DEF DownloadInv
<1>14. DownloadTypes'
  BY <1>0, <1>1, <1>5, TypeParts DEF DownloadTypes
<1> QED
  BY <1>1, <1>7, <1>13, <1>14, DownloadStepKept

-----------------------------------------------------------------------------
(* The initial states, time, and the delivery's own steps *)

LEMMA InitIInv ==
    ASSUME Init
    PROVE  IInv
<1>1. /\ DInv /\ faults = 0
      /\ challenge = <<>> /\ aged = 0 /\ lapsed = 0 /\ latest = 0
      /\ count = [c \in DOMAIN Limit |-> 0] /\ inbox = {}
      /\ sessions = <<>> /\ ended = 0 /\ cookie = 0 /\ log = <<>>
      /\ tab = [r \in Tabs |-> NoTab]
  BY DInitInv DEF Init, DInit
<1>2. tab \in [Tabs -> Tab] /\ \A r \in Tabs : tab[r].at = "idle"
  BY <1>1, NoTabType
<1>3. PinTypes
  BY <1>1, LimitsAreNumbers DEF PinTypes
<1>4. DownloadTypes
  BY <1>1 DEF DownloadTypes
<1>5. TypeOK
  BY <1>1, <1>2, <1>3, <1>4, TypeParts DEF DInv
<1>6. PinInv
  BY <1>1, <1>2 DEF PinInv, PinsOK, PinOK, Holding, LatestPinStands, AttemptsOK, Drawn
<1>7. TabsOK /\ SessionsOK /\ LogOK /\ UsedUpOK
  BY <1>1, <1>2 DEF TabsOK, DownloadOK, DownloadPlaces, SessionsOK, LogOK, UsedUpOK
<1>8. AfterClaim = {}
  BY <1>2 DEF AfterClaim
<1>9. OnceOK
  BY <1>1, <1>8 DEF OnceOK
<1>10. LostOK
  <2>1. Claims \ Fetched = {}
    BY <1>1 DEF Claims
  <2>2. IsFiniteSet(Claims \ Fetched) /\ Cardinality(Claims \ Fetched) = 0
    BY <2>1, FS_EmptySet
  <2>3. Cardinality(AfterClaim) = 0
    BY <1>8, FS_EmptySet
  <2> QED
    BY <1>1, <2>2, <2>3 DEF LostOK
<1> QED
  BY <1>1, <1>5, <1>6, <1>7, <1>9, <1>10 DEF IInv, DownloadInv

LEMMA TabStep ==
    ASSUME IInv, NEW r \in Tabs, Request(r) \/ Verify(r) \/ Download(r) \/ TabFails(r),
           UNCHANGED <<scope, delivery, added>>
    PROVE  Kept
<1>1. CASE Request(r)
  BY <1>1, RequestPinStep, CheckRateStep, DrawPinStep, QueryOpenStep, RevokeStep, StoreStep,
     SendSteps DEF Request
<1>2. CASE Verify(r)
  BY <1>2, EnterPinStep, WrongPinStep, RightPinStep, CreateSessionStep DEF Verify
<1>3. CASE Download(r)
  BY <1>3, OpenDownloadStep, ReadDeliveryStep, ClaimStep, WriteLogStep, MarkUsedStep
  DEF Download
<1> QED
  BY <1>1, <1>2, <1>3, TabFailsStep

LEMMA TimePassesStep ==
    ASSUME IInv, TimePasses, UNCHANGED <<scope, delivery, added>>
    PROVE  Kept
<1>1. TypeOK /\ PinTypes /\ DownloadTypes /\ PinInv /\ DownloadInv
  BY TypeParts DEF IInv
<1>2. UNCHANGED <<tab, faults, challenge, latest, inbox, sessions, cookie, log>>
  BY DEF TimePasses, IntervalPasses, PinsLapse, SessionsEnd, WindowTurns, pins, downloads
<1>3. PinInv'
  BY <1>1, <1>2 DEF PinInv, PinsOK, PinOK, LatestPinStands, AttemptsOK, WrongTabs, Stored, Drawn
<1>4. DownloadInv'
  <2>1. TabsOK' /\ SessionsOK' /\ LogOK'
    BY <1>1, <1>2
    DEF DownloadInv, TabsOK, DownloadOK, SessionsOK, LogOK, EntryOK, WasAdded, IsClaimed, Multi
  <2>2. OnceOK'
    BY <1>1, <1>2 DEF DownloadInv, OnceOK, ClaimOf, AfterClaim, Multi
  <2>3. UsedUpOK' /\ LostOK'
    BY <1>1, <1>2 DEF DownloadInv, UsedUpOK, LostOK, Claims, Fetched, AfterClaim, Multi
  <2> QED
    BY <2>1, <2>2, <2>3 DEF DownloadInv
<1>5. /\ Len(challenge) \in Nat /\ Len(sessions) \in Nat /\ aged \in Nat /\ lapsed \in Nat
      /\ ended \in Nat /\ \A c \in DOMAIN Limit : Limit[c] \in Nat
  BY <1>1, LimitsAreNumbers, PTypes, STypes
<1>6. PinTypes' /\ DownloadTypes'
  <2>1. CASE IntervalPasses
    <3>1. aged' \in aged + 1 .. Len(challenge) /\ UNCHANGED <<lapsed, count, ended>>
      BY <2>1 DEF IntervalPasses, downloads
    <3>2. aged' \in 0..Len(challenge) /\ lapsed \in 0..aged'
      BY <1>1, <1>5, <3>1 DEF PinTypes
    <3> QED
      BY <1>1, <1>2, <3>1, <3>2 DEF PinTypes, DownloadTypes, Drawn
  <2>2. CASE PinsLapse
    <3>1. lapsed' \in lapsed + 1 .. aged /\ UNCHANGED <<aged, count, ended>>
      BY <2>2 DEF PinsLapse, downloads
    <3>2. lapsed' \in 0..aged
      BY <1>5, <3>1
    <3> QED
      BY <1>1, <1>2, <3>1, <3>2 DEF PinTypes, DownloadTypes, Drawn
  <2>3. CASE SessionsEnd
    <3>1. ended' \in ended + 1 .. Len(sessions) /\ UNCHANGED <<aged, lapsed, count>>
      BY <2>3 DEF SessionsEnd, pins
    <3>2. ended' \in 0..Len(sessions)
      BY <1>5, <3>1
    <3> QED
      BY <1>1, <1>2, <3>1, <3>2 DEF PinTypes, DownloadTypes, Drawn
  <2>4. CASE WindowTurns
    <3>1. PICK turned : count' = [c \in DOMAIN Limit |-> IF c \in turned THEN 0 ELSE count[c]]
      BY <2>4 DEF WindowTurns
    <3>2. UNCHANGED <<aged, lapsed, ended>>
      BY <2>4 DEF WindowTurns, downloads
    <3>3. /\ count' \in [DOMAIN Limit -> Nat]
          /\ \A c \in DOMAIN Limit : count'[c] <= Limit[c]
      BY <1>1, <1>5, <3>1 DEF PinTypes
    <3> QED
      BY <1>1, <1>2, <3>2, <3>3 DEF PinTypes, DownloadTypes, Drawn
  <2> QED
    BY <2>1, <2>2, <2>3, <2>4 DEF TimePasses
<1>7. faults' \in 0..scope.faults
  BY <1>1, <1>2, FaultCounts
<1>8. tab' \in [Tabs -> Tab]
  BY <1>1, <1>2, TabTypes
<1> QED
  BY <1>3, <1>4, <1>6, <1>7, <1>8 DEF Kept

LEMMA DeliveryStep ==
    ASSUME IInv, DNext, UNCHANGED <<pins, downloads, tab>>
    PROVE  IInv'
<1>1. TypeOK /\ PinTypes /\ DownloadTypes /\ PinInv /\ DownloadInv /\ DInv
  BY TypeParts DEF IInv
<1>2. /\ DInv' /\ scope' = scope /\ added \subseteq added'
      /\ Multi => Numbers(delivery.versions) \subseteq Numbers(delivery'.versions)
      /\ faults' \in Nat /\ faults' >= faults
  BY <1>1, DNextInv DEF Multi
<1>3. UNCHANGED <<challenge, aged, lapsed, latest, count, inbox, sessions, ended, cookie, log, tab>>
  BY DEF pins, downloads
<1>4. PinInv'
  BY <1>1, <1>3 DEF PinInv, PinsOK, PinOK, LatestPinStands, AttemptsOK, WrongTabs, Stored, Drawn
<1>5. TabsOK' /\ SessionsOK' /\ LogOK'
  BY <1>1, <1>2, <1>3
  DEF DownloadInv, TabsOK, DownloadOK, SessionsOK, LogOK, EntryOK, WasAdded, IsClaimed, Multi
<1>6. OnceOK'
  BY <1>1, <1>2, <1>3 DEF DownloadInv, OnceOK, ClaimOf, AfterClaim, Multi
<1>7. UsedUpOK'
  BY <1>1, <1>2, <1>3 DEF DownloadInv, UsedUpOK, Multi, AllClaims
<1>8. LostOK'
  <2>1. Claims' = Claims /\ Fetched' = Fetched /\ AfterClaim' = AfterClaim /\ (Multi' <=> Multi)
    BY <1>2, <1>3 DEF Claims, Fetched, AfterClaim, Multi
  <2>2. faults \in Nat
    BY <1>1, FaultCounts
  <2>3. IsFiniteSet(AfterClaim) /\ Cardinality(AfterClaim) \in Nat
    <3>1. AfterClaim \in SUBSET Tabs
      BY DEF AfterClaim
    <3> QED
      BY <3>1, FinitelyManyTabs, FS_Subset, FS_CardinalityType
  <2>4. ASSUME Multi
        PROVE  /\ IsFiniteSet(Claims \ Fetched)
               /\ Cardinality(Claims \ Fetched) <= Cardinality(AfterClaim) + faults'
    <3>1. /\ IsFiniteSet(Claims \ Fetched)
          /\ Cardinality(Claims \ Fetched) <= Cardinality(AfterClaim) + faults
      BY <1>1, <2>4 DEF DownloadInv, LostOK
    <3>2. Cardinality(Claims \ Fetched) \in Nat
      BY <3>1, FS_CardinalityType
    <3> QED
      BY <1>2, <2>2, <2>3, <3>1, <3>2
  <2> QED
    BY <2>1, <2>4 DEF LostOK
<1>9. PinTypes' /\ DownloadTypes' /\ tab' \in [Tabs -> Tab]
  BY <1>1, <1>3, TabTypes DEF PinTypes, DownloadTypes, Drawn
<1>10. TypeOK'
  BY <1>2, <1>9 DEF TypeOK, PinTypes, DownloadTypes, DInv
<1> QED
  BY <1>2, <1>4, <1>5, <1>6, <1>7, <1>8, <1>10 DEF IInv, DownloadInv

LEMMA RecipientStepInv ==
    ASSUME IInv, RecipientStep
    PROVE  IInv'
<1>1. UNCHANGED <<scope, store, generation, admins, task>> /\ UNCHANGED <<delivery, added>>
  BY DEF RecipientStep, store
<1>2. Kept
  BY <1>1, TabStep, TimePassesStep DEF RecipientStep
<1>3. ticks' \in Nat
  <2>1. ticks \in Nat
    BY DEF IInv, TypeOK, DeliveryTypeOK
  <2> QED
    BY <2>1 DEF RecipientStep, TimePasses, Tick
<1>4. DInv'
  BY <1>1, <1>2, <1>3, RecipientKeepsDInv DEF IInv, Kept
<1>5. TypeOK'
  BY <1>2, <1>4 DEF Kept, TypeOK, PinTypes, DownloadTypes, DInv
<1> QED
  BY <1>2, <1>4, <1>5 DEF IInv, Kept

LEMMA StutterInv ==
    ASSUME IInv, UNCHANGED vars
    PROVE  IInv'
<1>1. UNCHANGED <<scope, store, bounds, task, pins, downloads, tab>>
  BY DEF vars, dvars
<1>2. /\ UNCHANGED <<delivery, expired, object, added, overlapped>>
      /\ UNCHANGED <<generation, admins, ticks, faults>>
      /\ UNCHANGED <<challenge, aged, lapsed, latest, count, inbox>>
      /\ UNCHANGED <<sessions, ended, cookie, log>>
  BY <1>1 DEF store, bounds, pins, downloads
<1>3. DInv'
  BY <1>1, <1>2
  DEF IInv, DInv, DeliveryTypeOK, DocumentOK, TasksOK, TaskOK, ListOK, Numbered, Filed,
      ListSound, VersionsHaveFiles, NothingLost, HasCurrent, Numbers
<1>4. TypeOK'
  BY <1>1, <1>2, <1>3 DEF IInv, TypeOK, DInv, Drawn
<1>5. PinInv'
  BY <1>1, <1>2
  DEF IInv, PinInv, PinsOK, PinOK, LatestPinStands, AttemptsOK, WrongTabs, Stored, Drawn
<1>6. TabsOK' /\ SessionsOK' /\ LogOK'
  BY <1>1, <1>2 DEF IInv, DownloadInv, TabsOK, DownloadOK, SessionsOK, LogOK, EntryOK,
                    WasAdded, IsClaimed, Multi
<1>7. OnceOK' /\ UsedUpOK' /\ LostOK'
  BY <1>1, <1>2 DEF IInv, DownloadInv, OnceOK, UsedUpOK, LostOK, ClaimOf, Claims, Fetched,
                    AfterClaim, Multi
<1> QED
  BY <1>3, <1>4, <1>5, <1>6, <1>7 DEF IInv, DownloadInv

-----------------------------------------------------------------------------
(* Theorems *)

LEMMA NextInv ==
    ASSUME IInv, [Next]_vars
    PROVE  IInv'
BY RecipientStepInv, DeliveryStep, StutterInv DEF Next

(***************************************************************************)
(* The invariant is inductive: it holds initially, and no step of an       *)
(* administrator, a rerun, an expiry, a tab or the clock breaks it.        *)
(***************************************************************************)
THEOREM Invariance == Spec => []IInv
<1>1. Init => IInv
  BY InitIInv
<1>2. IInv /\ [Next]_vars => IInv'
  BY NextInv
<1> QED
  BY <1>1, <1>2, PTL DEF Spec

(***************************************************************************)
(* Every variable keeps its type; the counts of a rate limit never exceed  *)
(* it, and only PINs that were drawn are mailed.                           *)
(***************************************************************************)
THEOREM TypeCorrect == Spec => []TypeOK
<1>1. IInv => TypeOK
  BY DEF IInv
<1> QED
  BY <1>1, Invariance, PTL

(***************************************************************************)
(* add_version, the cleanup, a rerun and the downloads together: every     *)
(* listed version has its file, and no version is lost but by two          *)
(* add_version requests that overlap.                                      *)
(***************************************************************************)
THEOREM VersionListSound == Spec => []ListSound
<1>1. IInv => ListSound
  BY DEF IInv, DInv
<1> QED
  BY <1>1, Invariance, PTL

(***************************************************************************)
(* The cleanup never takes away a delivery that has not expired, however   *)
(* long it waits between its query and its batch.                          *)
(***************************************************************************)
THEOREM CleanupIsSafe == Spec => CleanupSparesValid
<1>1. ASSUME IInv, [Next]_vars
      PROVE  [~expired /\ delivery.active /\ ~delivery'.active
                  => \E a \in Admin : Disabling(a)]_dvars
  <2>1. CASE DNext
    BY <1>1, <2>1, SparesValidStep DEF IInv
  <2>2. CASE RecipientStep
    BY <2>2 DEF RecipientStep, store
  <2>3. CASE UNCHANGED vars
    BY <2>3 DEF vars
  <2> QED
    BY <1>1, <2>1, <2>2, <2>3 DEF Next
<1> QED
  BY <1>1, Invariance, PTL DEF Spec, CleanupSparesValid

(***************************************************************************)
(* However many requests overlap in _issue_pin, the challenge stored last  *)
(* is revoked only while a PIN drawn is still to be stored, or its request *)
(* died.                                                                   *)
(***************************************************************************)
THEOREM LatestPinIsUsable == Spec => []LatestPinStands
<1>1. IInv => LatestPinStands
  BY DEF IInv, PinInv
<1> QED
  BY <1>1, Invariance, PTL

(***************************************************************************)
(* A challenge takes at most one wrong PIN per overlapping request beyond  *)
(* OTP_MAX_ATTEMPTS, for any number of tabs.                               *)
(***************************************************************************)
THEOREM AttemptsAreLimited == Spec => []AttemptLimit
<1>1. ASSUME IInv PROVE AttemptLimit
  <2>1. ASSUME NEW p \in Drawn
        PROVE  challenge[p].attempts < MaxAttempts + Cardinality(Tabs)
    <3>1. challenge[p].attempts + Cardinality(WrongTabs(p)) < MaxAttempts + Cardinality(Tabs)
      BY <1>1 DEF IInv, PinInv, AttemptsOK
    <3>2. challenge[p].attempts \in Nat
      BY <1>1, PTypes DEF IInv
    <3>3. MaxAttempts \in Nat /\ Cardinality(WrongTabs(p)) \in Nat /\ Cardinality(Tabs) \in Nat
      BY WrongTabsFinite, LimitsAreNumbers
    <3> QED
      BY <3>1, <3>2, <3>3
  <2> QED
    BY <2>1 DEF AttemptLimit
<1> QED
  BY <1>1, Invariance, PTL

(***************************************************************************)
(* Every logged download is of a version that was added, in a session      *)
(* opened with a PIN that had been mailed.                                 *)
(***************************************************************************)
THEOREM DownloadsEntitled == Spec => []DownloadsAreEntitled
<1>1. ASSUME IInv PROVE DownloadsAreEntitled
  BY <1>1 DEF IInv, DownloadInv, LogOK, EntryOK, WasAdded, SessionsOK, DownloadsAreEntitled
<1> QED
  BY <1>1, Invariance, PTL

(***************************************************************************)
(* One session fetches one file of one version once, however its tabs and  *)
(* the reruns of the delivery interleave.                                  *)
(***************************************************************************)
THEOREM FileFetchedOnce == Spec => []FetchedOnce
<1>1. ASSUME IInv PROVE FetchedOnce
  BY <1>1 DEF IInv, DownloadInv, OnceOK, ClaimOf, Multi, FetchedOnce
<1> QED
  BY <1>1, Invariance, PTL

(***************************************************************************)
(* A session is used up only by claiming every file of one listed version, *)
(* and claims without a download number at most the requests under way and *)
(* the faults.                                                             *)
(***************************************************************************)
THEOREM FailureCostsOneFile == Spec => []UsedUpMeansFetched
<1>1. ASSUME IInv PROVE UsedUpMeansFetched
  BY <1>1 DEF IInv, DownloadInv, UsedUpOK, LostOK, Multi, UsedUpMeansFetched
<1> QED
  BY <1>1, Invariance, PTL
=============================================================================
