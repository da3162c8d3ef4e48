---------------------------- MODULE MCDevicesPage ----------------------------
(* Two devices, two attempts and two loads at a time. *)
EXTENDS DevicesPage, TLC

CONSTANTS d1, d2, y1, y2, i1, i2, a1, a2, l1, l2, p1

MCAddressOf == (d1 :> i1) @@ (d2 :> i2)
Symmetry    == Permutations({y1, y2}) \cup Permutations({a1, a2}) \cup Permutations({l1, l2})
=============================================================================
