--------------------------- MODULE SingleUsePermit ---------------------------
(***************************************************************************)
(* What the gates of the daemon promise in common: an effect needs a       *)
(* permit, a permit is issued once by the user or by policy, and each use  *)
(* spends it.  A gate may hand a spent permit out again only through a     *)
(* fault that the implementing module names and counts: a record that did  *)
(* not reach the journal, or a read that raced the write that spends it.   *)
(***************************************************************************)
EXTENDS Naturals

CONSTANT Subjects    \* what permits are issued for

VARIABLES issued,    \* subjects a permit was ever issued for
          spare,     \* permits not yet used, per subject
          used       \* effects entered, per subject

pvars == <<issued, spare, used>>

Init ==
  /\ issued = {}
  /\ spare = [s \in Subjects |-> 0]
  /\ used = [s \in Subjects |-> 0]

Issue(s) ==
  /\ s \notin issued
  /\ issued' = issued \cup {s}
  /\ spare' = [spare EXCEPT ![s] = 1]
  /\ UNCHANGED used

Use(s) ==
  /\ spare[s] > 0
  /\ spare' = [spare EXCEPT ![s] = @ - 1]
  /\ used' = [used EXCEPT ![s] = @ + 1]
  /\ UNCHANGED issued

(* The fault. *)
Reissue(s) ==
  /\ s \in issued
  /\ spare' = [spare EXCEPT ![s] = @ + 1]
  /\ UNCHANGED <<issued, used>>

Next == \E s \in Subjects : Issue(s) \/ Use(s) \/ Reissue(s)

Spec == Init /\ [][Next]_pvars
=============================================================================
