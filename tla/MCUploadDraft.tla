---------------------------- MODULE MCUploadDraft ----------------------------
(* Instances of UploadDraft for TLC. *)
EXTENDS UploadDraft, TLC

(* The last of the rows the parser cannot use. *)
NoBadRow == {}
SecondRow == {2}
=============================================================================
