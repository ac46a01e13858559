-------------------------- MODULE MCDaemonSingleton --------------------------
(* Instances of DaemonSingleton for TLC. *)
EXTENDS DaemonSingleton
=============================================================================
