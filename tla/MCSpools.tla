------------------------------ MODULE MCSpools -------------------------------
(* A device and its gateway were imported; two requests, a second device and gateway. *)
EXTENDS Spools, TLC

CONSTANTS d1, d2, g1, g2, i1, i2, q1, q2, k1, v1, v2, e1, e2

MCField == {"serial", "contracts"}
Signed  == [f \in MCField |-> v1]
Plain   == [f \in MCField |-> IF f = "serial" THEN v2 ELSE None]
MCInfo  == {Signed, Plain}

MCDevice0  == (d1 :> [ip |-> i1, gw |-> g1, info |-> Signed]) @@ (d2 :> None)
MCGateway0 == (g1 :> [ip |-> q1, psk |-> k1, mode |-> "customer"]) @@ (g2 :> None)

Symmetry == Permutations({e1, e2})
=============================================================================
