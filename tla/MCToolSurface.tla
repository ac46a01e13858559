---------------------------- MODULE MCToolSurface ----------------------------
(* Instances of ToolSurface for TLC: the actions a-b and a_b and the plans *)
(* p and p_ have one tool name; the plan q has that of a built-in.         *)
EXTENDS ToolSurface, TLC

CONSTANTS ab, a_b, p, p_, q, n, builtin

MCToolName == ab :> n @@ a_b :> n @@ p :> n @@ p_ :> n @@ q :> builtin
MCRank == ab :> 1 @@ a_b :> 2 @@ p :> 1 @@ p_ :> 2 @@ q :> 3
MCStarts == {[enabled |-> {}, installed |-> {p, p_}],
             [enabled |-> {ab}, installed |-> {p}],
             [enabled |-> {}, installed |-> {}]}
=============================================================================
