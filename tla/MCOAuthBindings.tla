--------------------------- MODULE MCOAuthBindings ---------------------------
(* Instances of OAuthBindings for TLC. *)
EXTENDS OAuthBindings, TLC

HandlerSymmetry == Permutations(Handlers)
=============================================================================
