---------------------------- MODULE DeliveryPromise ----------------------------
(***************************************************************************)
(* What the recipients of one report and month are promised, whatever      *)
(* retries, races and failures happen behind it: one public URL that never *)
(* changes once it was sent out, a list of published file sets that only   *)
(* grows and whose newest entry is the one on offer, and the scheduled     *)
(* publication in that list at most once.                                  *)
(***************************************************************************)
EXTENDS Integers, Sequences

CONSTANTS Url,          \* the URLs a delivery may be given
          NoUrl,        \* before the first publication
          Scheduled,    \* the key of the scheduled publication
          FileSets,     \* what a publication may point at
          PublicationKeys

VARIABLES url,          \* the public URL
          published     \* the publications in order

Publication == [files : FileSets, key : PublicationKeys]

HasScheduled(ps) == \E i \in DOMAIN ps : ps[i].key = Scheduled

Init == url = NoUrl /\ published = <<>>

(***************************************************************************)
(* One more publication.  The first fixes the URL, the others keep it.     *)
(***************************************************************************)
New == published'[Len(published')]

Publish ==
    /\ Len(published') = Len(published) + 1
    /\ published' = Append(published, New)
    /\ New \in Publication
    /\ New.key = Scheduled => ~HasScheduled(published)
    /\ IF published = <<>> THEN url' \in Url ELSE UNCHANGED url

Spec == Init /\ [][Publish]_<<url, published>>
=============================================================================
