---------------------------- MODULE MCDriveUpload ----------------------------
(***************************************************************************)
(* An instance of DriveUpload for TLC: an empty file and one of three      *)
(* chunks, of which the last is shorter.                                   *)
(***************************************************************************)
EXTENDS DriveUpload

EmptyOrFive == {0, 5}
=============================================================================
