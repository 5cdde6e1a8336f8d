------------------------------ MODULE MCAgent ------------------------------
(* Agent with one other device that may serve as an exit. *)
EXTENDS Agent

CONSTANTS g, me

Gateways == {g}
Failing(f, n) == [k \in Fault |-> IF k = f THEN n ELSE 0]
OneKind == {Failing("disk", 1), Failing("dns", 1), Failing("network", 1),
            Failing("platform", 2)}
NoFaults == {Failing("disk", 0)}

=============================================================================
