--------------------------- MODULE MCRendezvous ---------------------------
(***************************************************************************)
(* Two devices.  Either both are members and the first is removed, or the  *)
(* first is removed, the second, new, gets its address, and the service    *)
(* restarts.                                                               *)
(***************************************************************************)
EXTENDS Rendezvous, TLC

CONSTANTS a, b

Removed == [roster |-> [e \in 0..1 |-> IF e = 0 THEN {a, b} ELSE {b}],
            address |-> [d \in {a, b} |-> {d}],
            restarts |-> 0]
Replaced == [roster |-> [e \in 0..1 |-> IF e = 0 THEN {a} ELSE {b}],
             address |-> [d \in {a, b} |-> {a}],
             restarts |-> 1]
Worlds == {Removed, Replaced}

\* A clock that runs ahead keeps a registration acceptable for longest.
Ahead == {-Skew}

Nonces == Permutations(Nonce)

============================================================================
