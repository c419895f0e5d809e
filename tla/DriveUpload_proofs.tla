-------------------------- MODULE DriveUpload_proofs --------------------------
(***************************************************************************)
(* Proofs about DriveUpload: its safety properties and that it implements  *)
(* UploadPromise, for files of any length, any chunk size and any limits.  *)
(*                                                                         *)
(* The argument: at most one session can still receive anything (the       *)
(* others have expired), and neither the uploader nor a request it gave up *)
(* on is ever ahead of what that session holds.                            *)
(***************************************************************************)
EXTENDS DriveUpload, TLAPS

SessionsOK ==
    \A s \in Sessions :
        /\ s < cur => session[s].state = "expired"
        /\ s > cur => session[s] = NoSession
        /\ s = cur => session[s].state # "none"
        /\ session[s].mark <= file_size_bytes
        /\ ~session[s].gap

RequestsOK ==
    \A p \in late : /\ p.from <= session[p.session].mark
                    /\ p.upto <= file_size_bytes

UploaderOK ==
    /\ pc \in {"put", "query"} => /\ cur \in Sessions
                                  /\ offset <= session[cur].mark
    /\ pc = "open" => /\ cur + 1 \in Sessions
                      /\ cur \in Sessions => session[cur].state = "expired"
    /\ answer # "none" => pc = "end"

IInv == TypeOK /\ SessionsOK /\ RequestsOK /\ UploaderOK /\ AnswerMeansStored

LEMMA InitIInv == Init => IInv
<1> SUFFICES ASSUME Init PROVE IInv
    OBVIOUS
<1> USE FileSizes, Limits, Bounds DEF Init, Sessions, NoSession
<1>1. TypeOK
    BY DEF TypeOK, SessionState
<1>2. SessionsOK /\ RequestsOK /\ UploaderOK /\ AnswerMeansStored
    BY DEF SessionsOK, RequestsOK, UploaderOK, AnswerMeansStored
<1> QED
    BY <1>1, <1>2 DEF IInv

(***************************************************************************)
(* What a session that is open holds after a request that starts no        *)
(* further than it is.                                                     *)
(***************************************************************************)
LEMMA ReceiveEffect ==
    ASSUME IInv, NEW s \in Sessions, Open(s), NEW from \in Nat, NEW upto \in Nat,
           from <= session[s].mark, upto <= file_size_bytes, Receive(s, from, upto)
    PROVE  /\ s = cur
           /\ session' \in [Sessions -> SessionState]
           /\ \A t \in Sessions : t # s => session'[t] = session[t]
           /\ session'[s].state \in {"open", "complete"}
           /\ ~session'[s].gap
           /\ session'[s].mark >= session[s].mark
           /\ session'[s].mark >= upto
           /\ session'[s].mark <= file_size_bytes
<1> USE FileSizes
<1>1. /\ session \in [Sessions -> SessionState]
      /\ file_size_bytes \in Nat /\ cur \in Nat /\ s \in Nat
    BY Limits DEF IInv, TypeOK, Sessions
<1>2. s = cur
    BY <1>1 DEF IInv, SessionsOK, Open, NoSession
<1>3. /\ ~session[s].gap /\ session[s].mark \in Nat
      /\ session[s].mark <= file_size_bytes
    BY <1>1 DEF IInv, SessionsOK, SessionState
<1>4. session' = [session EXCEPT ![s] = Received(session[s], from, upto)]
    BY DEF Receive
<1>5. /\ Received(session[s], from, upto) \in SessionState
      /\ Received(session[s], from, upto).state \in {"open", "complete"}
      /\ ~Received(session[s], from, upto).gap
      /\ Received(session[s], from, upto).mark >= session[s].mark
      /\ Received(session[s], from, upto).mark >= upto
      /\ Received(session[s], from, upto).mark <= file_size_bytes
    BY <1>1, <1>3 DEF Received, SessionState
<1> QED
    BY <1>1, <1>2, <1>4, <1>5

(***************************************************************************)
(* What every step of Drive, and every chunk, does to the sessions: only   *)
(* the last one changes, it loses nothing, and its end is final.           *)
(***************************************************************************)
Grows ==
    /\ session' \in [Sessions -> SessionState]
    /\ \A t \in Sessions :
          /\ t # cur => session'[t] = session[t]
          /\ session'[t].mark >= session[t].mark
          /\ session'[t].mark <= file_size_bytes
          /\ ~session'[t].gap
          /\ session[t].state \in {"expired", "complete"}
                => session'[t].state = session[t].state
          /\ session[t].state # "none" => session'[t].state # "none"

LEMMA SameGrows == ASSUME IInv, UNCHANGED session PROVE Grows
BY FileSizes DEF IInv, TypeOK, SessionsOK, Grows, SessionState

LEMMA ReceiveGrows ==
    ASSUME IInv, NEW s \in Sessions, Open(s), NEW from \in Nat, NEW upto \in Nat,
           from <= session[s].mark, upto <= file_size_bytes, Receive(s, from, upto)
    PROVE  Grows
<1>1. /\ s = cur
      /\ session' \in [Sessions -> SessionState]
      /\ \A t \in Sessions : t # s => session'[t] = session[t]
      /\ session'[s].state \in {"open", "complete"}
      /\ ~session'[s].gap
      /\ session'[s].mark >= session[s].mark
      /\ session'[s].mark <= file_size_bytes
    BY ReceiveEffect
<1>2. \A t \in Sessions : /\ session[t].mark >= session[t].mark
                          /\ session[t].mark <= file_size_bytes
                          /\ ~session[t].gap
    BY FileSizes DEF IInv, TypeOK, SessionsOK, SessionState
<1> QED
    BY <1>1, <1>2 DEF Grows, Open

LEMMA ExpireGrows ==
    ASSUME IInv, NEW s \in Sessions, Expire(s)
    PROVE  Grows
<1>1. /\ session \in [Sessions -> SessionState]
      /\ session' = [session EXCEPT ![s].state = "expired"]
      /\ session[s].state = "open"
    BY DEF IInv, TypeOK, Expire, Open
<1>2. s = cur
    BY <1>1, Limits DEF IInv, TypeOK, SessionsOK, NoSession, Sessions
<1>3. /\ session' \in [Sessions -> SessionState]
      /\ session'[s] = [session[s] EXCEPT !.state = "expired"]
    BY <1>1 DEF SessionState
<1>4. \A t \in Sessions : session[t].mark \in Nat
    BY <1>1 DEF SessionState
<1> QED
    BY <1>1, <1>2, <1>3, <1>4 DEF Grows, IInv, SessionsOK, SessionState

(***************************************************************************)
(* Grows carries the parts of the invariant that do not depend on where    *)
(* the uploader is.                                                        *)
(***************************************************************************)
LEMMA GrowsKeeps ==
    ASSUME IInv, Grows, cur' = cur, file_size_bytes' = file_size_bytes,
           late' \subseteq Request,
           \A p \in late' : p \in late \/ ( /\ p.from <= session[p.session].mark
                                         /\ p.upto <= file_size_bytes)
    PROVE  SessionsOK' /\ RequestsOK' /\ Stored \subseteq Stored'
<1>1. /\ session \in [Sessions -> SessionState]
      /\ session' \in [Sessions -> SessionState]
    BY DEF IInv, TypeOK, Grows
<1>2. SessionsOK'
    BY Limits DEF Grows, IInv, SessionsOK, TypeOK, Sessions, NoSession
<1>3. RequestsOK'
  <2> SUFFICES ASSUME NEW p \in late'
               PROVE  p.from <= session'[p.session].mark /\ p.upto <= file_size_bytes
      BY DEF RequestsOK
  <2>1. p.session \in Sessions /\ p.from \in Nat
      BY DEF Request
  <2>2. p.from <= session[p.session].mark /\ p.upto <= file_size_bytes
      BY DEF IInv, RequestsOK
  <2>3. session[p.session].mark \in Nat /\ session'[p.session].mark \in Nat
      BY <1>1, <2>1 DEF SessionState
  <2> QED
      BY <2>1, <2>2, <2>3 DEF Grows
<1>4. Stored \subseteq Stored'
    BY DEF Grows, Stored
<1> QED
    BY <1>2, <1>3, <1>4

-----------------------------------------------------------------------------
(* The actions of Drive *)

LEMMA DriveStep ==
    ASSUME IInv, Drive PROVE Grows /\ IInv'
<1> SUFFICES Grows /\ late' \subseteq late /\ UNCHANGED <<file_size_bytes, uploader>> /\ odd' = odd
  <2>1. /\ TypeOK
        /\ late' \subseteq Request
      BY DEF IInv, TypeOK
  <2>2. SessionsOK' /\ RequestsOK' /\ Stored \subseteq Stored'
      BY <2>1, GrowsKeeps DEF uploader
  <2>3. TypeOK'
      BY <2>1 DEF TypeOK, Grows, uploader
  <2>4. UploaderOK'
    <3>1. \A t \in Sessions : session[t].mark \in Nat /\ session'[t].mark \in Nat
        BY <2>1 DEF TypeOK, Grows, SessionState
    <3> QED
        BY <2>1, <3>1 DEF IInv, UploaderOK, TypeOK, Grows, uploader
  <2>5. AnswerMeansStored'
      BY <2>2 DEF IInv, AnswerMeansStored, uploader
  <2> QED
      BY <2>2, <2>3, <2>4, <2>5 DEF IInv
<1>1. ASSUME NEW p \in late, Arrive(p)
      PROVE  Grows /\ late' \subseteq late /\ UNCHANGED uploader /\ odd' = odd
  <2>1. PICK upto \in (p.from + 1)..p.upto : Receive(p.session, p.from, upto)
      BY <1>1 DEF Arrive
  <2>2. p.session \in Sessions /\ p.from \in Nat /\ p.upto \in Nat
      BY DEF IInv, TypeOK, Request
  <2>3. p.from <= session[p.session].mark /\ p.upto <= file_size_bytes
      BY DEF IInv, RequestsOK
  <2>4. upto \in Nat /\ upto <= file_size_bytes
      BY <2>2, <2>3, FileSizes DEF IInv, TypeOK
  <2> QED
      BY <1>1, <2>1, <2>2, <2>3, <2>4, ReceiveGrows DEF Arrive
<1>2. ASSUME NEW p \in late, Lose(p)
      PROVE  Grows /\ late' \subseteq late /\ UNCHANGED uploader /\ odd' = odd
    BY <1>2, SameGrows DEF Lose
<1>3. ASSUME NEW s \in Sessions, Expire(s)
      PROVE  Grows /\ late' \subseteq late /\ UNCHANGED uploader /\ odd' = odd
    BY <1>3, ExpireGrows DEF Expire
<1> QED
    BY <1>1, <1>2, <1>3 DEF Drive

-----------------------------------------------------------------------------
(* The actions of the uploader: the ways a step can go on *)

LEMMA Ends ==
    ASSUME IInv, Grows, late' = late, odd' \in 0..MaxOdd,
           UNCHANGED file_size_bytes, NEW a \in {"ok", "unread", "failed"}, End(a),
           a # "failed" => Stored' # {}
    PROVE  IInv'
<1>1. SessionsOK' /\ RequestsOK'
    BY GrowsKeeps DEF IInv, TypeOK, End
<1>2. TypeOK'
    BY DEF IInv, TypeOK, Grows, End
<1>3. UploaderOK' /\ AnswerMeansStored'
    BY DEF UploaderOK, AnswerMeansStored, End
<1> QED
    BY <1>1, <1>2, <1>3 DEF IInv

LEMMA Resumes ==
    ASSUME IInv, Grows, late' = late, odd' \in 0..MaxOdd, UNCHANGED file_size_bytes,
           pc \in {"put", "query"}, NEW next \in Nat, Resume(next),
           next <= session'[cur].mark, recover_attempts' \in 0..MaxRecover
    PROVE  IInv'
<1>1. SessionsOK' /\ RequestsOK'
    BY GrowsKeeps DEF IInv, TypeOK, Resume
<1>2. cur \in Sessions /\ answer = "none"
    BY DEF IInv, UploaderOK
<1>3. session'[cur].mark \in Nat /\ session'[cur].mark <= file_size_bytes
    BY <1>2 DEF Grows, SessionState
<1>4. next \in 0..file_size_bytes
    BY <1>3, FileSizes DEF IInv, TypeOK
<1>5. TypeOK'
    BY <1>4 DEF IInv, TypeOK, Grows, Resume
<1>6. UploaderOK' /\ AnswerMeansStored'
    BY <1>2 DEF UploaderOK, AnswerMeansStored, Resume
<1> QED
    BY <1>1, <1>5, <1>6 DEF IInv

LEMMA Recovers ==
    ASSUME IInv, Grows, late' \subseteq Request, UNCHANGED <<file_size_bytes, odd>>,
           \A p \in late' : p \in late \/ ( /\ p.from <= session[p.session].mark
                                         /\ p.upto <= file_size_bytes),
           Sending, Recover
    PROVE  IInv'
<1>1. cur' = cur
    BY DEF Recover, End
<1>2. SessionsOK' /\ RequestsOK'
    BY <1>1, GrowsKeeps
<1>3. cur \in Sessions /\ answer = "none" /\ offset <= session[cur].mark
    BY DEF IInv, UploaderOK, Sending
<1>4. TypeOK'
    BY Limits DEF IInv, TypeOK, Grows, Recover, End
<1>5. session[cur].mark \in Nat /\ session'[cur].mark \in Nat /\ offset \in Nat
    BY <1>3, FileSizes DEF IInv, TypeOK, Grows, SessionState
<1>6. UploaderOK' /\ AnswerMeansStored'
    BY <1>3, <1>5 DEF UploaderOK, AnswerMeansStored, Recover, End, Grows
<1> QED
    BY <1>2, <1>4, <1>6 DEF IInv

(***************************************************************************)
(* What a chunk is sent from and to.                                       *)
(***************************************************************************)
LEMMA ChunkBounds ==
    ASSUME IInv, Sending
    PROVE  /\ cur \in Sessions
           /\ offset \in Nat /\ ChunkEnd \in Nat
           /\ offset <= session[cur].mark
           /\ offset < ChunkEnd /\ ChunkEnd <= file_size_bytes
BY FileSizes, ChunkSize DEF IInv, TypeOK, UploaderOK, Sending, ChunkEnd

(***************************************************************************)
(* A chunk, wholly or partly kept.                                         *)
(***************************************************************************)
LEMMA ChunkGrows ==
    ASSUME IInv, Sending, Open(cur), NEW upto \in offset..ChunkEnd,
           IF upto = offset THEN UNCHANGED session ELSE Receive(cur, offset, upto)
    PROVE  Grows
<1>1. /\ cur \in Sessions
      /\ offset \in Nat /\ ChunkEnd \in Nat
      /\ offset <= session[cur].mark
      /\ ChunkEnd <= file_size_bytes
    BY ChunkBounds
<1>2. upto \in Nat /\ upto <= file_size_bytes
    BY <1>1, FileSizes DEF IInv, TypeOK
<1> QED
    BY <1>1, <1>2, ReceiveGrows, SameGrows

-----------------------------------------------------------------------------
(* The actions of the uploader *)

LEMMA OpenSessionStep ==
    ASSUME IInv, OpenSession, UNCHANGED file_size_bytes
    PROVE  IInv' /\ Stored' = Stored
<1>1. /\ cur + 1 \in Sessions /\ cur \in Nat /\ cur' = cur + 1
      /\ cur \in Sessions => session[cur].state = "expired"
      /\ session \in [Sessions -> SessionState]
    BY DEF IInv, TypeOK, UploaderOK, OpenSession
<1>2. session[cur + 1] = NoSession
    BY <1>1 DEF IInv, SessionsOK, Sessions
<1>3. /\ session' \in [Sessions -> SessionState]
      /\ session'[cur + 1] = [NoSession EXCEPT !.state = "open"]
      /\ \A t \in Sessions : t # cur + 1 => session'[t] = session[t]
    BY <1>1, <1>2 DEF OpenSession, SessionState, NoSession
<1>4. TypeOK'
  <2>1. 0 \in 0..file_size_bytes
      BY FileSizes DEF IInv, TypeOK
  <2> QED
      BY <1>1, <1>3, <2>1, Limits DEF IInv, TypeOK, OpenSession, Sessions
<1>5. SessionsOK'
  <2>1. session'[cur + 1].mark = 0 /\ ~session'[cur + 1].gap
        /\ session'[cur + 1].state # "none"
      BY <1>3 DEF NoSession
  <2>2. file_size_bytes \in Nat
      BY FileSizes DEF IInv, TypeOK
  <2>3. \A t \in Sessions : t \in Int
      BY DEF Sessions
  <2>4. SessionsOK
      BY DEF IInv
  <2>5. ASSUME NEW t \in Sessions, t # cur + 1
        PROVE  /\ t < cur' => session'[t].state = "expired"
               /\ t > cur' => session'[t] = NoSession
               /\ session'[t].mark <= file_size_bytes
               /\ ~session'[t].gap
    <3>1. session'[t] = session[t] /\ t \in Int
        BY <1>3, <2>3, <2>5
    <3>2. t < cur' => t = cur \/ t < cur
        BY <1>1, <3>1, <2>5
    <3>3. t > cur' => t > cur
        BY <1>1, <3>1
    <3> QED
        BY <1>1, <2>4, <3>1, <3>2, <3>3 DEF SessionsOK
  <2>6. ~(cur + 1 < cur') /\ ~(cur + 1 > cur')
      BY <1>1
  <2> QED
      BY <1>1, <2>1, <2>2, <2>5, <2>6 DEF SessionsOK, OpenSession
<1>6. RequestsOK'
  <2> SUFFICES ASSUME NEW p \in late
               PROVE  p.from <= session'[p.session].mark /\ p.upto <= file_size_bytes
      BY DEF RequestsOK, OpenSession
  <2>1. p.session \in Sessions /\ p.from \in Nat
      BY DEF IInv, TypeOK, Request
  <2>2. p.from <= session[p.session].mark /\ p.upto <= file_size_bytes
      BY DEF IInv, RequestsOK
  <2>3. session'[p.session].mark = session[p.session].mark
      BY <1>1, <1>2, <1>3, <2>1 DEF NoSession
  <2> QED
      BY <2>2, <2>3
<1>7. UploaderOK'
    BY <1>1, <1>3 DEF IInv, UploaderOK, OpenSession, NoSession
<1>8. Stored' = Stored
    BY <1>1, <1>2, <1>3 DEF Stored, NoSession
<1>9. AnswerMeansStored'
    BY <1>8 DEF IInv, AnswerMeansStored, OpenSession
<1> QED
    BY <1>4, <1>5, <1>6, <1>7, <1>8, <1>9 DEF IInv

LEMMA GiveUpStep ==
    ASSUME IInv, OpenFails \/ NothingToSend \/ QueryUnknown, UNCHANGED file_size_bytes
    PROVE  Grows /\ IInv'
BY SameGrows, Ends DEF OpenFails, NothingToSend, QueryUnknown, IInv, TypeOK

LEMMA PutKeptStep ==
    ASSUME IInv, PutKept, UNCHANGED file_size_bytes
    PROVE  Grows /\ IInv'
<1>1. PICK upto \in (offset + 1)..ChunkEnd : Receive(cur, offset, upto)
    BY DEF PutKept
<1>2. /\ cur \in Sessions /\ offset \in Nat /\ ChunkEnd \in Nat
      /\ offset <= session[cur].mark /\ ChunkEnd <= file_size_bytes
    BY ChunkBounds DEF PutKept
<1>3. upto \in Nat /\ upto <= file_size_bytes
    BY <1>1, <1>2, FileSizes DEF IInv, TypeOK
<1>4. Grows
    BY <1>1, <1>2, <1>3, ReceiveGrows DEF PutKept
<1>5. odd' \in 0..MaxOdd /\ late' = late
    BY DEF PutKept, Usual, IInv, TypeOK
<1>6. CASE session'[cur].state = "complete"
  <2>1. Stored' # {}
      BY <1>2, <1>6 DEF Stored
  <2> QED
      BY <1>4, <1>5, <1>6, <2>1, Ends DEF PutKept
<1>7. CASE session'[cur].state # "complete"
  <2>1. session'[cur].mark \in Nat
      BY <1>2, <1>4 DEF Grows, SessionState
  <2> QED
      BY <1>4, <1>5, <1>7, <2>1, Resumes, Limits DEF PutKept, Sending
<1> QED
    BY <1>4, <1>6, <1>7

LEMMA PutIgnoredStep ==
    ASSUME IInv, PutIgnored, UNCHANGED file_size_bytes
    PROVE  Grows /\ IInv'
<1>1. cur \in Sessions /\ session[cur].mark \in Nat
    BY ChunkBounds DEF PutIgnored, IInv, TypeOK, SessionState
<1>2. odd' \in 0..MaxOdd
    BY Bounds DEF PutIgnored, Odd, IInv, TypeOK
<1> QED
    BY <1>1, <1>2, SameGrows, Resumes, Limits DEF PutIgnored, Sending

LEMMA PutAgainStep ==
    ASSUME IInv, PutAgain, UNCHANGED file_size_bytes
    PROVE  Grows /\ IInv'
<1>1. cur \in Sessions
    BY ChunkBounds DEF PutAgain
<1>2. Stored' # {}
    BY <1>1 DEF PutAgain, Stored
<1> QED
    BY <1>2, SameGrows, Ends DEF PutAgain, IInv, TypeOK

LEMMA PutUnclearStep ==
    ASSUME IInv, PutUnclear, UNCHANGED file_size_bytes
    PROVE  Grows /\ IInv'
<1>1. Grows
    BY ChunkGrows DEF PutUnclear
<1> QED
    BY <1>1, Recovers DEF PutUnclear, IInv, TypeOK

LEMMA PutRefusedStep ==
    ASSUME IInv, PutRefused, UNCHANGED file_size_bytes
    PROVE  Grows /\ IInv'
BY SameGrows, Recovers DEF PutRefused, IInv, TypeOK

LEMMA PutLateStep ==
    ASSUME IInv, PutLate, UNCHANGED file_size_bytes
    PROVE  Grows /\ IInv'
<1> DEFINE r == [session |-> cur, from |-> offset, upto |-> ChunkEnd]
<1>1. /\ cur \in Sessions /\ offset \in Nat /\ ChunkEnd \in Nat
      /\ offset <= session[cur].mark /\ ChunkEnd <= file_size_bytes
    BY ChunkBounds DEF PutLate
<1>2. late' = late \cup {r} /\ late \subseteq Request /\ r \in Request
    BY <1>1 DEF PutLate, IInv, TypeOK, Request
<1>3. \A p \in late' : p \in late \/ ( /\ p.from <= session[p.session].mark
                                     /\ p.upto <= file_size_bytes)
    BY <1>1, <1>2
<1> QED
    BY <1>2, <1>3, SameGrows, Recovers DEF PutLate

LEMMA QueryIncompleteStep ==
    ASSUME IInv, QueryIncomplete, UNCHANGED file_size_bytes
    PROVE  Grows /\ IInv'
<1>1. cur \in Sessions /\ session[cur].mark \in Nat
    BY DEF QueryIncomplete, IInv, TypeOK, UploaderOK, SessionState
<1>2. odd' \in 0..MaxOdd /\ recover_attempts' \in 0..MaxRecover
    BY Bounds DEF QueryIncomplete, Odd, Usual, IInv, TypeOK
<1>3. PICK next \in {session[cur].mark, 0} : Resume(next)
    BY DEF QueryIncomplete
<1>4. Grows /\ session'[cur].mark = session[cur].mark
    BY SameGrows DEF QueryIncomplete
<1> QED
    BY <1>1, <1>2, <1>3, <1>4, Resumes DEF QueryIncomplete

LEMMA QueryCompleteStep ==
    ASSUME IInv, QueryComplete, UNCHANGED file_size_bytes
    PROVE  Grows /\ IInv'
<1>1. Stored' # {}
    BY DEF QueryComplete, Stored, IInv, UploaderOK
<1> QED
    BY <1>1, SameGrows, Ends DEF QueryComplete, IInv, TypeOK

LEMMA QueryExpiredStep ==
    ASSUME IInv, QueryExpired, UNCHANGED file_size_bytes
    PROVE  Grows /\ IInv'
<1>1. Grows
    BY SameGrows DEF QueryExpired
<1>2. CASE session_restarts < MaxRestarts
  <2>1. /\ pc' = "open"
        /\ UNCHANGED <<session, late, odd, cur, offset, recover_attempts, answer>>
      BY <1>2 DEF QueryExpired
  <2>2. cur \in Sessions /\ session[cur].state = "expired" /\ answer = "none"
      BY DEF QueryExpired, IInv, UploaderOK
  <2>3. cur + 1 \in Sessions
      BY <1>2, <2>2, Limits DEF session_restarts, Sessions
  <2>4. TypeOK' /\ UploaderOK' /\ AnswerMeansStored'
      BY <2>1, <2>2, <2>3 DEF IInv, TypeOK, UploaderOK, AnswerMeansStored, Stored
  <2>5. SessionsOK' /\ RequestsOK'
      BY <2>1 DEF IInv, SessionsOK, RequestsOK
  <2> QED
      BY <1>1, <2>4, <2>5 DEF IInv
<1>3. CASE ~(session_restarts < MaxRestarts)
    BY <1>1, <1>3, Ends DEF QueryExpired, IInv, TypeOK
<1> QED
    BY <1>2, <1>3

-----------------------------------------------------------------------------
LEMMA UploadStep ==
    ASSUME IInv, Upload
    PROVE  IInv' /\ (Grows \/ OpenSession)
BY OpenSessionStep, GiveUpStep, PutKeptStep, PutIgnoredStep, PutAgainStep,
   PutUnclearStep, PutRefusedStep, PutLateStep, QueryIncompleteStep,
   QueryCompleteStep, QueryExpiredStep DEF Upload

LEMMA StutterStep == ASSUME IInv, UNCHANGED vars PROVE IInv'
BY DEF IInv, TypeOK, SessionsOK, RequestsOK, UploaderOK, AnswerMeansStored, Stored,
       vars, uploader

(***************************************************************************)
(* The inductive invariant holds throughout.                               *)
(***************************************************************************)
THEOREM Invariance == Spec => []IInv
<1>1. Init => IInv
    BY InitIInv
<1>2. IInv /\ [Next]_vars => IInv'
    BY DriveStep, UploadStep, StutterStep DEF Next
<1> QED
    BY <1>1, <1>2, PTL DEF Spec

(***************************************************************************)
(* Every variable keeps its type; in particular the recovery attempts stay *)
(* within _UPLOAD_MAX_RECOVER_ATTEMPTS.                                    *)
(***************************************************************************)
THEOREM TypeCorrect == Spec => []TypeOK
<1>1. IInv => TypeOK
    BY DEF IInv
<1> QED
    BY <1>1, Invariance, PTL

(***************************************************************************)
(* No file that Drive completes has bytes missing.                         *)
(***************************************************************************)
THEOREM AlwaysWhole == Spec => []WholeFile
<1>1. IInv => WholeFile
    BY DEF IInv, SessionsOK, WholeFile, Stored
<1> QED
    BY <1>1, Invariance, PTL

LEMMA StoredIsCurrent == IInv => Stored \subseteq {cur}
BY Limits DEF IInv, TypeOK, SessionsOK, Stored, NoSession, Sessions

(***************************************************************************)
(* One call never leaves two files.                                        *)
(***************************************************************************)
THEOREM NeverTwice == Spec => []OneCopy
<1>1. IInv => OneCopy
    BY StoredIsCurrent DEF OneCopy
<1> QED
    BY <1>1, Invariance, PTL

-----------------------------------------------------------------------------
(* The promise *)

(***************************************************************************)
(* Only an answered step of the uploader changes what the caller was told, *)
(* and only once; "unread" comes of a query, which changes no session.     *)
(***************************************************************************)
LEMMA AnswerOnce ==
    ASSUME IInv, Upload, ~OpenSession
    PROVE  /\ cur' = cur
           /\ \/ answer' = answer
              \/ /\ answer = "none"
                 /\ answer' \in {"ok", "unread", "failed"}
                 /\ answer' = "unread" => UNCHANGED session
<1>1. pc \in {"open", "put", "query"} => answer = "none"
    BY DEF IInv, UploaderOK
<1> QED
    BY <1>1 DEF Upload, OpenFails, NothingToSend, PutKept, PutIgnored, PutAgain,
        PutUnclear, PutRefused, PutLate, QueryIncomplete, QueryComplete,
        QueryExpired, QueryUnknown, Sending, Recover, Resume, End

LEMMA GrowsPromise ==
    ASSUME IInv, IInv', Grows, cur' = cur,
           \/ answer' = answer
           \/ /\ answer = "none"
              /\ answer' \in {"ok", "unread", "failed"}
              /\ answer' = "unread" => Stored' = Stored
    PROVE  [Promise!Store \/ Promise!Answer]_<<Stored, answer>>
<1>1. Stored \subseteq {cur} /\ Stored' \subseteq {cur}
  <2>1. Stored \subseteq {cur}
      BY StoredIsCurrent
  <2>2. (Stored \subseteq {cur})'
      BY Limits DEF IInv, TypeOK, SessionsOK, Stored, NoSession, Sessions
  <2> QED
      BY <2>1, <2>2
<1>2. Stored \subseteq Stored'
    BY DEF Grows, Stored
<1>3. CASE Stored' = Stored
  <2>1. answer' = answer \/ answer' = "failed" \/ Stored' # {}
      BY DEF IInv, AnswerMeansStored
  <2> QED
      BY <1>3, <2>1 DEF Promise!Answer
<1>4. CASE Stored' # Stored
  <2>1. Stored = {} /\ Stored' = {cur} /\ cur \in Sessions
      BY <1>1, <1>2, <1>4 DEF Stored
  <2>2. answer \in {"none", "failed"}
      BY <2>1 DEF IInv, TypeOK, AnswerMeansStored
  <2> QED
      BY <1>4, <2>1, <2>2 DEF Promise!Store
<1> QED
    BY <1>3, <1>4

LEMMA NextPromise ==
    ASSUME IInv, IInv', [Next]_vars
    PROVE  [Promise!Store \/ Promise!Answer]_<<Stored, answer>>
<1>1. CASE Drive
  <2>1. Grows /\ UNCHANGED uploader
      BY <1>1, DriveStep DEF Drive, Arrive, Lose, Expire
  <2> QED
      BY <2>1, GrowsPromise DEF uploader
<1>2. CASE Upload /\ ~OpenSession
  <2>1. Grows
      BY <1>2, UploadStep
  <2>2. UNCHANGED session => Stored' = Stored
      BY DEF Stored
  <2> QED
      BY <1>2, <2>1, <2>2, AnswerOnce, GrowsPromise
<1>3. CASE Upload /\ OpenSession
    BY <1>3, OpenSessionStep DEF Upload, OpenSession
<1>4. CASE UNCHANGED vars
    BY <1>4 DEF vars, uploader, Stored
<1> QED
    BY <1>1, <1>2, <1>3, <1>4 DEF Next

(***************************************************************************)
(* DriveUpload implements UploadPromise: whatever Drive does, the caller   *)
(* gets one whole file or none, and is told of a file only when it exists. *)
(***************************************************************************)
THEOREM PromiseKept == Spec => KeepsUploadPromise
<1>1. Init => Promise!Init
    BY DEF Init, Promise!Init, Stored, NoSession
<1>2. IInv /\ IInv' /\ [Next]_vars => [Promise!Store \/ Promise!Answer]_<<Stored, answer>>
    BY NextPromise
<1> QED
    BY <1>1, <1>2, Invariance, PTL DEF Spec, Promise!Spec, KeepsUploadPromise
=============================================================================
