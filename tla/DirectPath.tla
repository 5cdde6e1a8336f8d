----------------------------- MODULE DirectPath ------------------------------
(***************************************************************************)
(* Direct paths between two devices: candidates learned from a relay or a  *)
(* root, punched every five seconds, scored, and preferred to a relay      *)
(* while they are fresh.  A path joins one endpoint of each device; each   *)
(* of its directions works or does not, and that changes as the devices    *)
(* move or a NAT forgets them.                                             *)
(***************************************************************************)
EXTENDS Integers, FiniteSets

CONSTANTS
    Paths,          \* pairs of endpoints of the two devices
    Worlds,         \* sets of one-way links <<device, path>> that can be up together
    Samples,        \* round-trip times, in steps of 250 ms
    MaxCandidates,  \* 16 in the code
    Fresh,          \* 45 s, in probe intervals
    MaxFailures,    \* bound on consecutive_failures (255 in the code)
    MaxChanges,     \* changes of the links
    None

Device == {"a", "b"}
Peer(d) == IF d = "a" THEN "b" ELSE "a"

VARIABLES
    route,    \* route[d][x]: PeerCandidate of the peer's endpoint of x
    up,       \* the links that work
    flight,   \* punches on their way: [to, path, ack]
    changes

vars == <<route, up, flight, changes>>

Unknown == [known |-> FALSE, probe |-> "none", age |-> Fresh, rtt |-> None, failures |-> 0]
New == [Unknown EXCEPT !.known = TRUE]

Init ==
    /\ route = [d \in Device |-> [x \in Paths |-> Unknown]]
    /\ up \in Worlds
    /\ flight = {} /\ changes = 0

Candidates(d) == {x \in Paths : route[d][x].known}

\* what d sends on the paths of a set: one punch counts for three
Sent(d, paths, ack) ==
    {[to |-> Peer(d), path |-> x, ack |-> ack] : x \in {y \in paths : <<d, y>> \in up}}

Default == 2

score(c) == (IF c.rtt = None THEN Default ELSE c.rtt) + c.failures

\* A bug: a candidate that answered once stays usable
best_ever(d) ==
    LET usable == {x \in Candidates(d) : route[d][x].rtt # None}
        best == {x \in usable : \A y \in usable : score(route[d][x]) <= score(route[d][y])}
    IN  IF best = {} THEN None ELSE CHOOSE x \in best : TRUE

\* The path data is sent on; None is the relay.
best_candidate(d) ==
    LET usable == {x \in Candidates(d) : route[d][x].age < Fresh}
        best == {x \in usable : \A y \in usable : score(route[d][x]) <= score(route[d][y])}
    IN  IF best = {} THEN None ELSE CHOOSE x \in best : TRUE

-----------------------------------------------------------------------------
add_candidate(d, x) ==
    IF route[d][x].known \/ Cardinality(Candidates(d)) >= MaxCandidates
    THEN route[d][x] ELSE New

\* RELAY_PEER or a root's directory: the candidate is added if there is room,
\* its probe is noted if it is in the list, and it is punched either way.
\* "late": less than three seconds before the next round of probes.
Announced(d, x) ==
    \E probe \in {"sent", "late"} :
        /\ route' = [route EXCEPT ![d][x] =
                        IF add_candidate(d, x).known
                        THEN [add_candidate(d, x) EXCEPT !.probe = probe]
                        ELSE @]
        /\ flight' = flight \cup Sent(d, {x}, FALSE)
        /\ UNCHANGED <<up, changes>>

mark_success(c) ==
    {[c EXCEPT !.probe = "none", !.age = 0, !.failures = 0, !.rtt = rtt]
     : rtt \in IF c.probe = "none" THEN {c.rtt} ELSE Samples}

\* RELAY_PUNCH or RELAY_PUNCH_ACK; from an endpoint that is no candidate it
\* is ignored, and an ACK is not answered.
Punched(m) ==
    LET d == m.to
    IN  /\ m \in flight
        /\ \/ /\ ~route[d][m.path].known
              /\ flight' = flight \ {m}
              /\ UNCHANGED route
           \/ /\ route[d][m.path].known
              /\ \E c \in mark_success(route[d][m.path]) :
                    route' = [route EXCEPT ![d][m.path] = c]
              /\ flight' = (flight \ {m})
                           \cup (IF m.ack THEN {} ELSE Sent(d, {m.path}, TRUE))
        /\ UNCHANGED <<up, changes>>

Capped(n) == IF n > MaxFailures THEN MaxFailures ELSE n

expire_probes(c) ==
    IF c.probe = "sent" THEN [c EXCEPT !.failures = Capped(@ + 1)] ELSE c

\* A round of probes of both devices, five seconds after the last.  A punch
\* arrives before the next round or never.
Probe ==
    /\ flight = {}
    /\ route' = [d \in Device |-> [x \in Paths |->
          IF ~route[d][x].known THEN route[d][x]
          ELSE [expire_probes(route[d][x]) EXCEPT
                   !.probe = "sent", !.age = IF @ < Fresh THEN @ + 1 ELSE @]]]
    /\ flight' = UNION {Sent(d, Candidates(d), FALSE) : d \in Device}
    /\ UNCHANGED <<up, changes>>

\* The devices move, or a mapping comes or goes.
Change ==
    /\ changes < MaxChanges
    /\ changes' = changes + 1
    /\ up' \in Worlds \ {up}
    /\ UNCHANGED <<route, flight>>

\* An announcement is repeated with every registration of the peer.
Announce(d) == \E x \in Paths : ~route[d][x].known /\ Announced(d, x)

Next ==
    \/ \E d \in Device, x \in Paths : flight = {} /\ Announced(d, x)
    \/ \E m \in flight : Punched(m)
    \/ Probe
    \/ Change

Spec == Init /\ [][Next]_vars

\* The worker's loop receives and ticks without end, and the peers register
\* again and again.
Fairness ==
    /\ WF_vars(\E m \in flight : Punched(m))
    /\ SF_vars(Probe)
    /\ \A d \in Device : SF_vars(flight = {} /\ Announce(d))

FairSpec == Spec /\ Fairness

-----------------------------------------------------------------------------
(* Properties *)

Works(x) == \A d \in Device : <<d, x>> \in up

\* Once the links stay as they are, both devices come to send their data on a
\* path that works in both directions, if one exists, and through the relay
\* if none does: no dead path is kept and no living one forgotten.
PathSettles ==
    <>[](\A d \in Device :
            IF \E x \in Paths : Works(x)
            THEN best_candidate(d) # None /\ Works(best_candidate(d))
            ELSE best_candidate(d) = None)
=============================================================================
