--------------------------- MODULE MCFlightPlanRuns ---------------------------
(* Instances of FlightPlanRuns for TLC.  Each plan has a seam before its    *)
(* first gated action: only a seam's response tells the agent the run id.  *)
EXTENDS FlightPlanRuns

(* A seam, a gated action, a read and another gated action. *)
Mixed == <<"seam", "gated", "read", "gated">>
MixedRefs == <<"-", "a", "r", "b">>

(* The smallest plan with an effect that can be resumed. *)
Short == <<"seam", "gated">>
ShortRefs == <<"-", "a">>
=============================================================================
