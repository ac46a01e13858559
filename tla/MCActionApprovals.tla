-------------------------- MODULE MCActionApprovals --------------------------
(* Instances of ActionApprovals for TLC: the kinds of entry and the bounds *)
(* are in the configurations.                                              *)
EXTENDS ActionApprovals

=============================================================================
