----------------------------- MODULE MCDesktop -----------------------------
(***************************************************************************)
(* Two copies of the program with one thread each, or two threads in one,  *)
(* and two versions: the second knows a permission the first does not.     *)
(***************************************************************************)
EXTENDS Desktop, TLC

CONSTANTS p1, p2, t1, t2, admin, clerk, post, reset

MCDefaults == <<[r \in {admin, clerk} |-> {post}],
                (admin :> {post, reset} @@ clerk :> {post})>>

Symmetry == Permutations({p1, p2}) \union Permutations({t1, t2})
=============================================================================
