----------------------------- MODULE MCInstalls -----------------------------
(* Instances of Installs for TLC: one connector published twice under the  *)
(* same version (h1, h2), a second in a subdirectory (h3), asked for       *)
(* without a hash or, by mistake, with the first one's; two manifests of   *)
(* one action, one pinned to h2, the other to h1; the user may copy in the *)
(* first, or remove the file.                                              *)
EXTENDS Installs, TLC

CONSTANTS h1, h2, h3, r1, r2, owner, repo, sub, c1, c2, act

MCRefOf == h1 :> r1 @@ h2 :> r1 @@ h3 :> r2
MCFqnOf == r1 :> repo @@ r2 :> sub
MCAuthOf == r1 :> repo @@ r2 :> repo
MCOwnerOf == repo :> owner @@ sub :> owner @@ owner :> owner
MCNameOf == c1 :> act @@ c2 :> act
MCDeps == c1 :> {[ref |-> r1, hash |-> h2]} @@ c2 :> {[ref |-> r1, hash |-> h1]}
MCSigner == c1 :> repo @@ c2 :> Unsigned
MCAsks == {[ref |-> r2, hash |-> NoHash], [ref |-> r2, hash |-> h1]}
MCDrafts == {c1, Missing}
MCSymmetry == Permutations(Jobs)
=============================================================================
