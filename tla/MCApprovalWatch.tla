--------------------------- MODULE MCApprovalWatch ---------------------------
(* Instances of ApprovalWatch for TLC. *)
EXTENDS ApprovalWatch, TLC
=============================================================================
