----------------------------- MODULE DriveUpload -----------------------------
(***************************************************************************)
(* One call of _upload_xlsx_authorized_session (drive_io.py): the file is  *)
(* sent to Drive in chunks over a resumable session, every unclear answer  *)
(* is settled by asking the session what it has, and an expired session is *)
(* replaced by a new one a bounded number of times.                        *)
(*                                                                         *)
(* Bytes are counted in units of the smallest part Drive keeps of a chunk. *)
(* Drive is the environment: it may keep any part of a chunk, answer with  *)
(* an error though it kept it, answer nothing, or receive a chunk long     *)
(* after the uploader gave up waiting for it.                              *)
(*                                                                         *)
(* A definition named D_X is a faulty variant of D, a change that a        *)
(* property must notice; nothing uses it.                                  *)
(***************************************************************************)
EXTENDS Integers, FiniteSets

CONSTANTS
    Sizes,          \* the lengths a file may have
    Chunk,          \* drive_upload_chunk_size()
    MaxRecover,     \* _UPLOAD_MAX_RECOVER_ATTEMPTS
    MaxRestarts,    \* _UPLOAD_MAX_SESSION_RESTARTS
    MaxLate,        \* bound: chunk requests still on their way at a time
    MaxOdd,         \* bound: answers that make no progress (Odd below)
    OddForever      \* whether they may go on without end instead

ASSUME FileSizes == Sizes \subseteq Nat
ASSUME ChunkSize == Chunk \in Nat \ {0}
ASSUME Limits == MaxRecover \in Nat /\ MaxRestarts \in Nat
ASSUME Bounds == MaxLate \in Nat /\ MaxOdd \in Nat /\ OddForever \in BOOLEAN

VARIABLES
    file_size_bytes,    \* length of the file, which no step changes
    session,            \* Drive's resumable sessions in the order of their opening
    late,               \* chunk requests the uploader gave up on
    odd,                \* answers so far that make no progress
    pc,                 \* the uploader: "open" POST, "put" a chunk, "query", "end"
    cur,                \* the session of session_url
    offset,
    recover_attempts,
    answer              \* what the caller was given

uploader == <<pc, cur, offset, recover_attempts, answer>>
vars == <<file_size_bytes, session, late, odd, uploader>>

Sessions == 1..(MaxRestarts + 1)
session_restarts == cur - 1

(***************************************************************************)
(* `mark` is the first byte after all those Drive has been sent, what the  *)
(* Range header tells; `gap` says that some byte before it never came.     *)
(***************************************************************************)
SessionState == [state : {"none", "open", "expired", "complete"},
                 mark : Nat, gap : BOOLEAN]
NoSession == [state |-> "none", mark |-> 0, gap |-> FALSE]
Request == [session : Sessions, from : Nat, upto : Nat]

Init ==
    /\ file_size_bytes \in Sizes
    /\ session = [s \in Sessions |-> NoSession]
    /\ late = {}
    /\ odd = 0
    /\ pc = "open" /\ cur = 0
    /\ offset = 0
    /\ recover_attempts = 0
    /\ answer = "none"

-----------------------------------------------------------------------------
(* Drive *)

(***************************************************************************)
(* A session after the bytes from..upto-1; the last byte completes it.     *)
(***************************************************************************)
Received(r, from, upto) ==
    LET mark == IF upto > r.mark THEN upto ELSE r.mark
    IN  [state |-> IF mark = file_size_bytes THEN "complete" ELSE "open",
         mark |-> mark,
         gap |-> r.gap \/ from > r.mark]

Receive(s, from, upto) ==
    session' = [session EXCEPT ![s] = Received(@, from, upto)]

Open(s) == session[s].state = "open"

(***************************************************************************)
(* A request that the uploader timed out on arrives at last, or is lost.   *)
(***************************************************************************)
Arrive(p) ==
    /\ p \in late
    /\ Open(p.session)
    /\ \E upto \in (p.from + 1)..p.upto : Receive(p.session, p.from, upto)
    /\ late' = late \ {p}
    /\ UNCHANGED <<odd, uploader>>

Lose(p) ==
    /\ p \in late
    /\ late' = late \ {p}
    /\ UNCHANGED <<session, odd, uploader>>

Expire(s) ==
    /\ Open(s)
    /\ session' = [session EXCEPT ![s].state = "expired"]
    /\ UNCHANGED <<late, odd, uploader>>

Odd == \/ OddForever /\ UNCHANGED odd
       \/ ~OddForever /\ odd < MaxOdd /\ odd' = odd + 1
Usual == UNCHANGED odd

-----------------------------------------------------------------------------
(* The uploader *)

End(a) ==
    /\ pc' = "end"
    /\ answer' = a
    /\ UNCHANGED <<cur, offset, recover_attempts>>

Resume(next) ==
    /\ pc' = "put"
    /\ offset' = next
    /\ UNCHANGED <<cur, answer>>

(***************************************************************************)
(* _open_resumable_session, at the start and for an expired session.       *)
(***************************************************************************)
OpenSession ==
    /\ pc = "open"
    /\ cur' = cur + 1
    /\ session' = [session EXCEPT ![cur + 1].state = "open"]
    /\ pc' = "put"
    /\ offset' = 0
    /\ UNCHANGED <<late, odd, recover_attempts, answer>>

OpenFails ==
    /\ pc = "open"
    /\ End("failed")
    /\ UNCHANGED <<session, late, odd>>

(***************************************************************************)
(* The loop ends without a 200: the file is empty.                         *)
(***************************************************************************)
NothingToSend ==
    /\ pc = "put" /\ offset >= file_size_bytes
    /\ End("failed")
    /\ UNCHANGED <<session, late, odd>>

ChunkEnd == IF offset + Chunk < file_size_bytes THEN offset + Chunk ELSE file_size_bytes

Sending == pc = "put" /\ offset < file_size_bytes

(***************************************************************************)
(* A transport error, a 308 without a Range header or an unexpected        *)
(* status: the attempt is counted and the session is asked.                *)
(***************************************************************************)
Recover_OneMore ==
    IF recover_attempts > MaxRecover
    THEN End("failed")
    ELSE /\ pc' = "query"
         /\ recover_attempts' = recover_attempts + 1
         /\ UNCHANGED <<cur, offset, answer>>

Recover_Uncounted ==
    /\ pc' = "query"
    /\ UNCHANGED <<cur, offset, recover_attempts, answer>>

Recover ==
    IF recover_attempts + 1 > MaxRecover
    THEN End("failed")
    ELSE /\ pc' = "query"
         /\ recover_attempts' = recover_attempts + 1
         /\ UNCHANGED <<cur, offset, answer>>

(***************************************************************************)
(* The chunk is kept, in part at least, and Drive says so: a 308 with the  *)
(* Range header, or a 200 after the last byte.  response.json() of a 200   *)
(* is not guarded: an unreadable body is a failure.                        *)
(***************************************************************************)
PutKept ==
    /\ Sending /\ Open(cur)
    /\ \E upto \in (offset + 1)..ChunkEnd : Receive(cur, offset, upto)
    /\ IF session'[cur].state = "complete"
       THEN \E a \in {"ok", "failed"} : End(a)
       ELSE Resume(session'[cur].mark) /\ recover_attempts' = 0
    /\ Usual
    /\ UNCHANGED late

(***************************************************************************)
(* A 308 whose Range header tells of no new byte.                          *)
(***************************************************************************)
PutIgnored ==
    /\ Sending /\ Open(cur) /\ session[cur].mark > 0
    /\ Resume(session[cur].mark) /\ recover_attempts' = 0
    /\ Odd
    /\ UNCHANGED <<session, late>>

(***************************************************************************)
(* A session that a late request completed answers 200 once more.          *)
(***************************************************************************)
PutAgain ==
    /\ Sending /\ session[cur].state = "complete"
    /\ \E a \in {"ok", "failed"} : End(a)
    /\ UNCHANGED <<session, late, odd>>

(***************************************************************************)
(* No clear answer: whatever part of the chunk Drive kept.                 *)
(***************************************************************************)
PutUnclear_Guesses ==
    /\ Sending /\ Open(cur)
    /\ \E upto \in offset..ChunkEnd :
          IF upto = offset THEN UNCHANGED session ELSE Receive(cur, offset, upto)
    /\ Resume(ChunkEnd) /\ recover_attempts' = 0
    /\ UNCHANGED <<late, odd>>

PutUnclear ==
    /\ Sending /\ Open(cur)
    /\ \E upto \in offset..ChunkEnd :
          IF upto = offset THEN UNCHANGED session ELSE Receive(cur, offset, upto)
    /\ Recover
    /\ UNCHANGED <<late, odd>>

PutRefused ==
    /\ Sending /\ ~Open(cur)
    /\ Recover
    /\ UNCHANGED <<session, late, odd>>

(***************************************************************************)
(* The request times out while it is still on its way.                     *)
(***************************************************************************)
PutLate ==
    /\ Sending /\ Cardinality(late) < MaxLate
    /\ late' = late \cup {[session |-> cur, from |-> offset, upto |-> ChunkEnd]}
    /\ Recover
    /\ UNCHANGED <<session, odd>>

(***************************************************************************)
(* _query_upload_status and _recover_upload.                               *)
(***************************************************************************)
QueryIncomplete ==
    /\ pc = "query" /\ Open(cur)
    /\ \/ Resume(session[cur].mark) /\ Usual
       \/ Resume(0) /\ Odd          \* a Range header that cannot be parsed
    /\ UNCHANGED <<session, late, recover_attempts>>

QueryComplete ==
    /\ pc = "query" /\ session[cur].state = "complete"
    /\ \E a \in {"ok", "unread"} : End(a)
    /\ UNCHANGED <<session, late, odd>>

QueryExpired_IsDone ==
    /\ pc = "query" /\ session[cur].state = "expired"
    /\ End("ok")
    /\ UNCHANGED <<session, late, odd>>

QueryExpired ==
    /\ pc = "query" /\ session[cur].state = "expired"
    /\ IF session_restarts < MaxRestarts
       THEN pc' = "open" /\ UNCHANGED <<cur, offset, recover_attempts, answer>>
       ELSE End("failed")
    /\ UNCHANGED <<session, late, odd>>

QueryUnknown_Restarts ==
    /\ pc = "query"
    /\ IF session_restarts < MaxRestarts
       THEN pc' = "open" /\ UNCHANGED <<cur, offset, recover_attempts, answer>>
       ELSE End("failed")
    /\ UNCHANGED <<session, late, odd>>

QueryUnknown ==
    /\ pc = "query"
    /\ End("failed")
    /\ UNCHANGED <<session, late, odd>>

-----------------------------------------------------------------------------
Upload ==
    /\ \/ OpenSession \/ OpenFails \/ NothingToSend
       \/ PutKept \/ PutIgnored \/ PutAgain \/ PutUnclear \/ PutRefused \/ PutLate
       \/ QueryIncomplete \/ QueryComplete \/ QueryExpired \/ QueryUnknown
    /\ UNCHANGED file_size_bytes

Drive ==
    /\ \/ \E p \in late : Arrive(p) \/ Lose(p)
       \/ \E s \in Sessions : Expire(s)
    /\ UNCHANGED file_size_bytes

Next == Upload \/ Drive

Spec == Init /\ [][Next]_vars

(***************************************************************************)
(* The thread of the upload keeps running: every call has a timeout.       *)
(***************************************************************************)
FairSpec == Spec /\ WF_vars(Upload)

-----------------------------------------------------------------------------
(* Properties *)

TypeOK ==
    /\ file_size_bytes \in Sizes
    /\ session \in [Sessions -> SessionState]
    /\ late \subseteq Request
    /\ odd \in 0..MaxOdd
    /\ pc \in {"open", "put", "query", "end"}
    /\ cur \in 0..(MaxRestarts + 1)
    /\ offset \in 0..file_size_bytes
    /\ recover_attempts \in 0..MaxRecover
    /\ answer \in {"none", "ok", "unread", "failed"}

Stored == {s \in Sessions : session[s].state = "complete"}

(***************************************************************************)
(* Drive never completes a file with bytes missing: the uploader sends     *)
(* from where the session says it is and never from where it hopes.        *)
(***************************************************************************)
WholeFile == \A s \in Stored : ~session[s].gap

(***************************************************************************)
(* One call leaves at most one file, retries, restarts and late requests   *)
(* included.                                                               *)
(***************************************************************************)
OneCopy == \A s, t \in Stored : s = t

(***************************************************************************)
(* The caller is told of a file only when it is in the folder.             *)
(***************************************************************************)
AnswerMeansStored == answer \in {"ok", "unread"} => Stored # {}

(***************************************************************************)
(* Recovery is bounded ("no unlimited retry"): however Drive fails, the    *)
(* call ends.  It does if only finitely many answers tell of no progress.  *)
(***************************************************************************)
Terminates == <>(pc = "end")

Promise == INSTANCE UploadPromise WITH Copies <- Sessions, stored <- Stored

(***************************************************************************)
(* The call keeps the promise the report pipelines rely on.                *)
(***************************************************************************)
KeepsUploadPromise == Promise!Spec
=============================================================================
