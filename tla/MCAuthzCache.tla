---------------------------- MODULE MCAuthzCache -----------------------------
(* One list request and one administrator at a time, served by two processes. *)
EXTENDS AuthzCache, TLC

CONSTANTS p1, p2, r1, a1, u1, ga, gb, s1

Symmetry  == Permutations({p1, p2})
MCPersona == r1 :> u1
MCGrants0 == (ga :> {s1}) @@ (gb :> {})
MCMember0 == u1 :> {ga}
=============================================================================
