--------------------------- MODULE MCClientSlots ---------------------------
(* Runs of ClientSlots: two requests compete for the slots; the tunnel of  *)
(* the first has two ports.                                                *)
EXTENDS ClientSlots, TLC

CONSTANTS r1, r2

MCPlans == (r1 :> {{"guac", "tunnel"}}) @@ (r2 :> {{}, {"ssh"}})
MCPorts == (r1 :> 2) @@ (r2 :> 1)
=============================================================================
