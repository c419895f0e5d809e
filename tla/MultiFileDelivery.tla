-------------------------- MODULE MultiFileDelivery --------------------------
(***************************************************************************)
(* The multi-file delivery document of one bespoke report and one month    *)
(* (distribution.py): what the transaction of upsert_multi_file_delivery   *)
(* decides and writes.  The document's id is derived from report and month *)
(* (multi_file_delivery_id), so there is one document and this module      *)
(* describes its value.                                                    *)
(*                                                                         *)
(* A version keeps the number the code gives it, the set of files it       *)
(* points at (`files`, identified by the run that uploaded them), the      *)
(* idempotency key it was written under and the note.  Labels, file names, *)
(* the allowlist and the dates are left out: no decision reads them.       *)
(*                                                                         *)
(* A definition named D_X is a faulty variant of D, a change that a        *)
(* property must notice; nothing uses it.                                  *)
(***************************************************************************)
EXTENDS Integers, Sequences, FiniteSetsExt

NoKey == ""             \* idempotency_key None, stored as ""
ScheduledKey == "scheduled"  \* f"scheduled:{month}" of this month
Keys == {NoKey, ScheduledKey}

(***************************************************************************)
(* A version and a delivery document.  `token` stands for the public URL.  *)
(***************************************************************************)
Version == [version : Nat, files : Nat, full : BOOLEAN, idempotency_key : Keys]

Delivery == [exists : BOOLEAN, token : Nat, current_version : Nat,
             active : BOOLEAN, versions : Seq(Version)]

NoDelivery == [exists |-> FALSE, token |-> 0, current_version |-> 0,
               active |-> FALSE, versions |-> <<>>]

VersionNumbers(vs) == {vs[i].version : i \in DOMAIN vs}

NextVersion_Repeats(vs) == IF vs = <<>> THEN 1 ELSE Max(VersionNumbers(vs))

NextVersion(vs) == IF vs = <<>> THEN 1 ELSE Max(VersionNumbers(vs)) + 1

(***************************************************************************)
(* find_multi_file_version_by_idempotency_key, and the same search inside  *)
(* plan_multi_file_delivery_write.                                         *)
(***************************************************************************)
HasKey_AnyVersion(d, key) == d.exists

HasKey(d, key) == \E i \in DOMAIN d.versions : d.versions[i].idempotency_key = key

(***************************************************************************)
(* plan_multi_file_delivery_write applied by the transaction: the document *)
(* after one upsert of the file set `files` under `key`.  A key that is    *)
(* already there is the "noop" case.                                       *)
(***************************************************************************)
IsNoop_Never(d, key) == FALSE

IsNoop(d, key) == d.exists /\ key # NoKey /\ HasKey(d, key)

NewVersion(n, files, full, key) ==
    [version |-> n, files |-> files, full |-> full, idempotency_key |-> key]

Created(files, full, key, token) ==
    [exists |-> TRUE, token |-> token, current_version |-> 1, active |-> TRUE,
     versions |-> <<NewVersion(1, files, full, key)>>]

Appended_Replaces(d, files, full, key) ==
    LET next == NextVersion(d.versions)
    IN  [d EXCEPT !.versions = <<NewVersion(next, files, full, key)>>,
                  !.current_version = next]

Appended(d, files, full, key) ==
    LET next == NextVersion(d.versions)
    IN  [d EXCEPT !.versions = Append(@, NewVersion(next, files, full, key)),
                  !.current_version = next]

Upserted_NewUrl(d, files, full, key, token) ==
    IF IsNoop(d, key) THEN d
    ELSE [Appended(d, files, full, key) EXCEPT !.exists = TRUE, !.token = token,
                                               !.active = TRUE]

Upserted(d, files, full, key, token) ==
    IF ~d.exists THEN Created(files, full, key, token)
    ELSE IF IsNoop(d, key) THEN d
    ELSE Appended(d, files, full, key)
=============================================================================
