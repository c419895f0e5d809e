----------------------------- MODULE UploadPromise -----------------------------
(***************************************************************************)
(* What a caller of upload_xlsx_to_drive may rely on: at most one copy of  *)
(* the file ever appears in the folder, it is whole when it appears, and   *)
(* an answer other than a failure is given only when it is there.  After a *)
(* failure the copy may be there all the same, or appear later.            *)
(***************************************************************************)
CONSTANTS Copies        \* the copies that could be made

VARIABLES stored,       \* the copies in the folder
          answer        \* what the caller was told

Init == stored = {} /\ answer = "none"

Store ==
    /\ stored = {}
    /\ \E c \in Copies : stored' = {c}
    /\ answer' \in {answer, "ok", "failed"}
    /\ answer # "none" => answer' = answer
    /\ answer \in {"none", "failed"}

Answer ==
    /\ answer = "none"
    /\ answer' \in {"ok", "unread", "failed"}
    /\ answer' # "failed" => stored # {}
    /\ UNCHANGED stored

Spec == Init /\ [][Store \/ Answer]_<<stored, answer>>
=============================================================================
