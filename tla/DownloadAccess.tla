---------------------------- MODULE DownloadAccess ----------------------------
(***************************************************************************)
(* How a recipient gets the files of one delivery (app.py, /d/<token>):    *)
(* a PIN is drawn and mailed, the PIN opens a download session, a session  *)
(* fetches the file, or each file of a multi-file delivery once.  The      *)
(* delivery changes under it as DeliveryVersions says.                     *)
(*                                                                         *)
(* One recipient of one delivery: the queries select by token and e-mail,  *)
(* so recipients share nothing but the rate limit of an address.  PINs are *)
(* numbered in the order of their created_at; a PIN and its challenge      *)
(* share the number.                                                       *)
(***************************************************************************)
EXTENDS DeliveryVersions

CONSTANTS
    Tabs,           \* request slots of the recipient's browser, sharing its cookie
    FileKeys,       \* file keys of a multi-file version
    Checks,         \* the rate limits in the order they are checked
    Limit,          \* per check, its limit
    LongChecks,     \* the checks whose window is ten minutes
    MaxAttempts,    \* OTP_MAX_ATTEMPTS
    MaxMails        \* attempts of send_otp_pin_email

ASSUME LimitsAreNumbers ==
    /\ MaxAttempts \in Nat /\ MaxMails \in Nat \ {0}
    /\ Checks \in Seq(STRING) /\ Checks # <<>>
    /\ Limit \in [{Checks[k] : k \in DOMAIN Checks} -> Nat]
    /\ LongChecks \subseteq DOMAIN Limit
ASSUME FinitelyManyTabs == IsFiniteSet(Tabs)

VARIABLES
    challenge,  \* the challenges, in the order of their created_at
    aged,       \* PINs up to this one were drawn longer than the resend interval ago
    lapsed,     \* PINs up to this one have outlived OTP_PIN_TTL_MINUTES
    latest,     \* the challenge stored last, 0 without one
    count,      \* per check, the count of its current window
    inbox,      \* PINs that were mailed to the recipient
    sessions,   \* the download sessions, in order of creation
    ended,      \* sessions up to this one have outlived DOWNLOAD_SESSION_TTL_MINUTES
    cookie,     \* the session in the browser's cookie, 0 without one
    log,        \* the download log
    tab         \* per slot of Tabs, where its request is and its locals

pins == <<challenge, aged, lapsed, latest, count, inbox>>
downloads == <<sessions, ended, cookie, log>>
vars == <<dvars, pins, downloads, tab>>

(***************************************************************************)
(* A challenge is absent from the time its PIN is drawn until it is        *)
(* stored; "revoked" and "verified" both have `used` set.                  *)
(***************************************************************************)
Statuses == {"absent", "open", "verified", "revoked"}
Challenge == [status : Statuses, attempts : Nat]
NoChallenge == [status |-> "absent", attempts |-> 0]

Drawn == DOMAIN challenge
Stored == {p \in Drawn : challenge[p].status # "absent"}
Open == {p \in Drawn : challenge[p].status = "open"}

(***************************************************************************)
(* A file is claimed by its version's number and its key                   *)
(* (_session_file_claim_key).                                              *)
(***************************************************************************)
TheFile == "file"
Keys == FileKeys \cup {TheFile}
ClaimKey == Nat \X Keys

Session == [pin : Nat, used : BOOLEAN, used_file_keys : SUBSET ClaimKey]
NewSession(p) == [pin |-> p, used |-> FALSE, used_file_keys |-> {}]

Entry == [session : Nat, version : Nat, gen : Nat, key : Keys]

RequestPlaces == {"rate", "draw", "query", "revoke", "store", "send"}
VerifyPlaces == {"wrong", "right", "session"}
DownloadPlaces == {"read", "claim", "log", "mark"}
TabPlaces == {"idle"} \cup RequestPlaces \cup VerifyPlaces \cup DownloadPlaces

(***************************************************************************)
(* Locals: the PIN drawn or found, the challenges to revoke, the check or  *)
(* mail attempt under way, the session, version and file key of a          *)
(* download.                                                               *)
(***************************************************************************)
Tab == [at : TabPlaces, pin : Nat, revoke : SUBSET Nat, n : Nat,
        session : Nat, version : Nat, gen : Nat, key : Keys]

NoTab == [at |-> "idle", pin |-> 0, revoke |-> {}, n |-> 0,
          session |-> 0, version |-> 0, gen |-> 0, key |-> TheFile]

Init ==
    /\ DInit
    /\ challenge = <<>>
    /\ aged = 0 /\ lapsed = 0 /\ latest = 0
    /\ count = [c \in DOMAIN Limit |-> 0]
    /\ inbox = {}
    /\ sessions = <<>>
    /\ ended = 0
    /\ cookie = 0
    /\ log = <<>>
    /\ tab = [r \in Tabs |-> NoTab]

-----------------------------------------------------------------------------
(* Helpers *)

Goto(r, place) == tab' = [tab EXCEPT ![r].at = place]

Answer(r) == tab' = [tab EXCEPT ![r] = NoTab]

NoFault == UNCHANGED faults

(***************************************************************************)
(* validate_delivery_access for a recipient on the allowlist.              *)
(***************************************************************************)
Accessible == delivery.active /\ ~expired

-----------------------------------------------------------------------------
(* request_download_pin.  A refusal that changes nothing is not a step,    *)
(* and reads that no later step looks at again are one step with the next. *)

(***************************************************************************)
(* _check_pin_resend_interval: the newest stored challenge, used or not.   *)
(***************************************************************************)
ResendAllowed == \A p \in Stored : p <= aged

RequestPin(r) ==
    /\ tab[r].at = "idle"
    /\ Accessible
    /\ ResendAllowed
    /\ Len(challenge) < scope.pins
    /\ tab' = [tab EXCEPT ![r].at = "rate", ![r].n = 1]
    /\ NoFault /\ UNCHANGED <<pins, downloads>>

(***************************************************************************)
(* _check_pin_request_rate_limits: one transaction per check; a refusal    *)
(* leaves the counts of the checks before it.                              *)
(***************************************************************************)
OverLimit_OneMore(c) == count[c] > Limit[c]

OverLimit(c) == count[c] >= Limit[c]

CheckRate(r) ==
    LET c == Checks[tab[r].n]
    IN  /\ tab[r].at = "rate"
        /\ IF OverLimit(c)
           THEN Answer(r) /\ UNCHANGED count
           ELSE /\ count' = [count EXCEPT ![c] = @ + 1]
                /\ IF tab[r].n < Len(Checks)
                   THEN tab' = [tab EXCEPT ![r].n = @ + 1]
                   ELSE tab' = [tab EXCEPT ![r].at = "draw", ![r].n = 0]
        /\ NoFault /\ UNCHANGED <<challenge, aged, lapsed, latest, inbox, downloads>>

(***************************************************************************)
(* _issue_pin: the PIN and its created_at are drawn first, then the open   *)
(* challenges are queried, revoked in a batch, and the new one is stored.  *)
(***************************************************************************)
DrawPin(r) ==
    /\ tab[r].at = "draw"
    /\ challenge' = Append(challenge, NoChallenge)
    /\ tab' = [tab EXCEPT ![r].at = "query", ![r].pin = Len(challenge) + 1]
    /\ NoFault /\ UNCHANGED <<aged, lapsed, latest, count, inbox, downloads>>

QueryOpen(r) ==
    /\ tab[r].at = "query"
    /\ tab' = [tab EXCEPT ![r].at = "revoke", ![r].revoke = Open]
    /\ NoFault /\ UNCHANGED <<pins, downloads>>

Revoke(r) ==
    /\ tab[r].at = "revoke"
    /\ challenge' = [p \in Drawn |-> IF p \in tab[r].revoke
                                     THEN [challenge[p] EXCEPT !.status = "revoked"]
                                     ELSE challenge[p]]
    /\ tab' = [tab EXCEPT ![r].at = "store", ![r].revoke = {}]
    /\ NoFault /\ UNCHANGED <<aged, lapsed, latest, count, inbox, downloads>>

Store_ThenRevokes(r) ==
    /\ tab[r].at = "store"
    /\ challenge' = [p \in Drawn |-> IF p \in Open \cup {tab[r].pin}
                                     THEN [challenge[p] EXCEPT !.status = "revoked"]
                                     ELSE challenge[p]]
    /\ latest' = tab[r].pin
    /\ tab' = [tab EXCEPT ![r].at = "send", ![r].n = 1]
    /\ NoFault /\ UNCHANGED <<aged, lapsed, count, inbox, downloads>>

Store(r) ==
    /\ tab[r].at = "store"
    /\ challenge' = [challenge EXCEPT ![tab[r].pin].status = "open"]
    /\ latest' = tab[r].pin
    /\ tab' = [tab EXCEPT ![r].at = "send", ![r].n = 1]
    /\ NoFault /\ UNCHANGED <<aged, lapsed, count, inbox, downloads>>

(***************************************************************************)
(* send_otp_pin_email: an attempt that raises may have been accepted       *)
(* unconfirmed, and is repeated with the same PIN if it may be.            *)
(***************************************************************************)
Mailed(r) == inbox' = inbox \cup {tab[r].pin}

Send(r) ==
    /\ tab[r].at = "send"
    /\ Mailed(r)
    /\ Answer(r)
    /\ NoFault /\ UNCHANGED <<challenge, aged, lapsed, latest, count, downloads>>

SendFails(r) ==
    /\ tab[r].at = "send"
    /\ Fault
    /\ Mailed(r) \/ UNCHANGED inbox
    /\ \/ Answer(r)
       \/ tab[r].n < MaxMails /\ tab' = [tab EXCEPT ![r].n = @ + 1]
    /\ UNCHANGED <<challenge, aged, lapsed, latest, count, downloads>>

-----------------------------------------------------------------------------
(* verify_download_pin *)

(***************************************************************************)
(* _find_valid_challenge takes the newest that can still be used; the PIN  *)
(* typed must be that one's.                                               *)
(***************************************************************************)
Valid_WhateverAttempts == {p \in Open : p > lapsed}

Valid == {p \in Open : p > lapsed /\ challenge[p].attempts < MaxAttempts}

Compare_AnyPin(typed) == "right"

Compare(typed) == IF typed = Max(Valid) THEN "right" ELSE "wrong"

EnterPin(r) ==
    /\ tab[r].at = "idle"
    /\ Accessible
    /\ Valid # {}
    /\ \E typed \in inbox \cup {0} :
          /\ IF typed = 0 THEN Fault ELSE NoFault
          /\ tab' = [tab EXCEPT ![r].at = Compare(typed), ![r].pin = Max(Valid)]
    /\ UNCHANGED <<pins, downloads>>

WrongPin(r) ==
    /\ tab[r].at = "wrong"
    /\ challenge' = [challenge EXCEPT ![tab[r].pin].attempts = @ + 1]
    /\ Answer(r)
    /\ NoFault /\ UNCHANGED <<aged, lapsed, latest, count, inbox, downloads>>

RightPin(r) ==
    /\ tab[r].at = "right"
    /\ challenge' = [challenge EXCEPT ![tab[r].pin].status = "verified"]
    /\ Goto(r, "session")
    /\ NoFault /\ UNCHANGED <<aged, lapsed, latest, count, inbox, downloads>>

CreateSession(r) ==
    /\ tab[r].at = "session"
    /\ sessions' = Append(sessions, NewSession(tab[r].pin))
    /\ cookie' = Len(sessions) + 1
    /\ Answer(r)
    /\ NoFault /\ UNCHANGED <<pins, ended, log>>

-----------------------------------------------------------------------------
(* download_file and download_multi_file_item *)

(***************************************************************************)
(* _find_download_session for the cookie's session.  The page that lists   *)
(* the files of a multi-file delivery changes nothing.                     *)
(***************************************************************************)
OpenDownload(r) ==
    /\ tab[r].at = "idle"
    /\ cookie > ended /\ ~sessions[cookie].used
    /\ \E key \in IF scope.kind = "multi" THEN FileKeys ELSE {TheFile} :
          tab' = [tab EXCEPT ![r].at = "read", ![r].session = cookie, ![r].key = key]
    /\ NoFault /\ UNCHANGED <<pins, downloads>>

ReadDelivery(r) ==
    /\ tab[r].at = "read"
    /\ IF ~Accessible \/ ~HasCurrent(delivery) THEN Answer(r)
       ELSE tab' = [tab EXCEPT ![r].at = IF scope.kind = "multi" THEN "claim" ELSE "log",
                               ![r].version = delivery.current_version,
                               ![r].gen = get_current_version(delivery).gen]
    /\ NoFault /\ UNCHANGED <<pins, downloads>>

(***************************************************************************)
(* _plan_session_file_claim, in the transaction of                         *)
(* _claim_download_session_file.                                           *)
(***************************************************************************)
MayClaim_AnyOfUnused(s, claim) == ~s.used

MayClaim(s, claim) == ~s.used /\ claim \notin s.used_file_keys

AllClaims(version) == {version} \X FileKeys

Claimed_UsedAtOnce(s, claim, all) ==
    [s EXCEPT !.used_file_keys = @ \cup {claim}, !.used = TRUE]

Claimed(s, claim, all) ==
    [s EXCEPT !.used_file_keys = @ \cup {claim},
              !.used = all \subseteq s.used_file_keys \cup {claim}]

Claim(r) ==
    LET t     == tab[r]
        claim == <<t.version, t.key>>
        s     == sessions[t.session]
    IN  /\ t.at = "claim"
        /\ IF MayClaim(s, claim)
           THEN /\ sessions' = [sessions EXCEPT
                                    ![t.session] = Claimed(s, claim, AllClaims(t.version))]
                /\ Goto(r, "log")
           ELSE Answer(r) /\ UNCHANGED sessions
        /\ NoFault /\ UNCHANGED <<pins, ended, cookie, log>>

(***************************************************************************)
(* The URL is signed, log_download logs it, and the redirect is answered;  *)
(* a single file marks its session used before that.                       *)
(***************************************************************************)
WriteLog(r) ==
    LET t == tab[r]
    IN  /\ t.at = "log"
        /\ log' = Append(log, [session |-> t.session, version |-> t.version,
                               gen |-> t.gen, key |-> t.key])
        /\ IF scope.kind = "multi" THEN Answer(r) ELSE Goto(r, "mark")
        /\ NoFault /\ UNCHANGED <<pins, sessions, ended, cookie>>

MarkUsed(r) ==
    /\ tab[r].at = "mark"
    /\ sessions' = [sessions EXCEPT ![tab[r].session].used = TRUE]
    /\ Answer(r)
    /\ NoFault /\ UNCHANGED <<pins, ended, cookie, log>>

(***************************************************************************)
(* A call raises or the instance dies.                                     *)
(***************************************************************************)
TabFails(r) ==
    /\ tab[r].at # "idle"
    /\ Fault
    /\ Answer(r)
    /\ UNCHANGED <<pins, downloads>>

-----------------------------------------------------------------------------
(* Time *)

IntervalPasses ==
    /\ \E p \in aged + 1 .. Len(challenge) : aged' = p
    /\ UNCHANGED <<challenge, lapsed, latest, count, inbox, downloads>>

PinsLapse ==
    /\ \E p \in lapsed + 1 .. aged : lapsed' = p
    /\ UNCHANGED <<challenge, aged, latest, count, inbox, downloads>>

SessionsEnd ==
    /\ \E n \in ended + 1 .. Len(sessions) : ended' = n
    /\ UNCHANGED <<pins, sessions, cookie, log>>

(***************************************************************************)
(* The next bucket of the one-minute windows, perhaps of the others too.   *)
(***************************************************************************)
WindowTurns ==
    /\ \E turned \in {DOMAIN Limit \ LongChecks, DOMAIN Limit} :
          /\ \E c \in turned : count[c] > 0
          /\ count' = [c \in DOMAIN Limit |-> IF c \in turned THEN 0 ELSE count[c]]
    /\ UNCHANGED <<challenge, aged, lapsed, latest, inbox, downloads>>

-----------------------------------------------------------------------------
Request(r) ==
    \/ RequestPin(r) \/ CheckRate(r) \/ DrawPin(r) \/ QueryOpen(r)
    \/ Revoke(r) \/ Store(r) \/ Send(r) \/ SendFails(r)

Verify(r) ==
    \/ EnterPin(r) \/ WrongPin(r) \/ RightPin(r) \/ CreateSession(r)

Download(r) ==
    \/ OpenDownload(r) \/ ReadDelivery(r) \/ Claim(r) \/ WriteLog(r) \/ MarkUsed(r)

TimePasses ==
    /\ Tick
    /\ IntervalPasses \/ PinsLapse \/ SessionsEnd \/ WindowTurns
    /\ UNCHANGED <<faults, tab>>

RecipientStep ==
    /\ \/ /\ \E r \in Tabs : Request(r) \/ Verify(r) \/ Download(r) \/ TabFails(r)
          /\ UNCHANGED ticks
       \/ TimePasses
    /\ UNCHANGED <<scope, store, generation, admins, task>>

Next == RecipientStep \/ (DNext /\ UNCHANGED <<pins, downloads, tab>>)

Spec == Init /\ [][Next]_vars

-----------------------------------------------------------------------------
(* Properties *)

TypeOK ==
    /\ DeliveryTypeOK
    /\ challenge \in Seq(Challenge)
    /\ aged \in 0..Len(challenge) /\ lapsed \in 0..aged
    /\ latest \in 0..Len(challenge)
    /\ count \in [DOMAIN Limit -> Nat]
    /\ \A c \in DOMAIN Limit : count[c] <= Limit[c]
    /\ inbox \subseteq Drawn
    /\ sessions \in Seq(Session)
    /\ ended \in 0..Len(sessions) /\ cookie \in 0..Len(sessions)
    /\ log \in Seq(Entry)
    /\ tab \in [Tabs -> Tab]

(***************************************************************************)
(* Two requests of a recipient each revoke what they see.  Whatever their  *)
(* order, the challenge stored last is superseded only by a PIN that was   *)
(* drawn and is still to be stored (or whose request died): when the dust  *)
(* has settled the recipient is never left with revoked PINs alone.        *)
(***************************************************************************)
LatestPinStands ==
    latest > 0 /\ challenge[latest].status = "revoked" =>
        \E p \in Drawn : challenge[p].status = "absent"

(***************************************************************************)
(* Overlapping verifications read attempt_count before they add to it: a   *)
(* challenge takes at most one wrong PIN per overlapping request beyond    *)
(* max_attempts.                                                           *)
(***************************************************************************)
AttemptLimit ==
    \A p \in Drawn : challenge[p].attempts < MaxAttempts + Cardinality(Tabs)

(***************************************************************************)
(* From end to end: a logged download was of a version that had been added *)
(* to the delivery, in a session opened with a PIN that had been mailed to *)
(* the recipient, whatever was revoked, rerun, lost or overwritten since.  *)
(***************************************************************************)
DownloadsAreEntitled ==
    \A i \in DOMAIN log :
        /\ log[i].session \in DOMAIN sessions
        /\ sessions[log[i].session].pin \in inbox
        /\ \E v \in added : v.version = log[i].version /\ v.gen = log[i].gen

(***************************************************************************)
(* "each file can be fetched once per PIN verification"                    *)
(* (_plan_session_file_claim): two tabs of one session, or a rerun between *)
(* two downloads, never fetch one file of one version twice.               *)
(***************************************************************************)
FetchedOnce ==
    scope.kind = "multi" =>
        \A i, j \in DOMAIN log : i # j => log[i] # log[j]

(***************************************************************************)
(* A session of a multi-file delivery is used up only when all files of    *)
(* one version were claimed on it, and a claim without a download is a     *)
(* request under way or one that failed: a failure costs one file at most, *)
(* and a rerun in between costs none.                                      *)
(***************************************************************************)
Claims == UNION {{s} \X sessions[s].used_file_keys : s \in DOMAIN sessions}
Fetched == {<<log[i].session, <<log[i].version, log[i].key>> >> : i \in DOMAIN log}
AfterClaim == {r \in Tabs : tab[r].at = "log"}

UsedUpMeansFetched ==
    scope.kind = "multi" =>
        /\ \A s \in DOMAIN sessions :
              sessions[s].used => \E n \in Numbers(delivery.versions) :
                                      AllClaims(n) \subseteq sessions[s].used_file_keys
        /\ Cardinality(Claims \ Fetched) <= Cardinality(AfterClaim) + faults
=============================================================================
