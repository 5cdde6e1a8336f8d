-------------------------- MODULE RendezvousProofs --------------------------
(***************************************************************************)
(* The three properties of registration, for any devices, nonces, epochs   *)
(* and rosters, and for any deadlines that DeadlineAssumption relates.     *)
(***************************************************************************)
EXTENDS Rendezvous, TLAPS

Registrations == [device : Device, nonce : Nonce, lag : -Skew..Skew, lease : Int]
Responses == [device : Device, nonce : Nonce, ok : BOOLEAN, found : SUBSET Device, left : Int]

\* The types that the arithmetic needs.
Typed ==
    /\ epoch \in Int /\ known \in [Device -> Int]
    /\ lease \in [Device -> Int]
    /\ health \in [Device -> Int]
    /\ transaction \in [Device -> [nonce : Nonce \cup {None}, left : Int]]
    /\ directory \in [Device -> [Device -> Int]]
    /\ peers \in [Device -> [left : Int, by : {"lease", "age"}]]
    /\ gone \in [Device -> {"never", "restart", "lease", "age"}]
    /\ seen \in [Nonce -> Int]
    /\ applied \in [Nonce -> Int]
    /\ registrations \subseteq Registrations
    /\ responses \subseteq Responses

\* A registration that was entered and may still arrive is remembered for
\* longer than it stays fresh.
Remembered ==
    \A m \in registrations : applied[m.nonce] >= 1 => seen[m.nonce] > Skew - m.lag

\* The record of a device is gone for a reason that HealthyIsHeld admits, or
\* will go for such a reason: with the manifest it came with.
Excused(d) ==
    IF Registered(d) THEN peers[d].by = "lease" ELSE gone[d] \in {"restart", "lease"}

\* A relay keeps the record of a device for as long as the device takes it for
\* healthy, and an answer that is awaited can still be relied upon for as long
\* as it would make the relay healthy.
HeldFor(d) ==
    /\ Healthy(d) => Excused(d) \/ health[d] <= peers[d].left
    /\ \A r \in responses :
          r.ok /\ r.device = d /\ r.nonce = transaction[d].nonce /\ transaction[d].left > 0
          => Excused(d) \/ PeerTtl + 1 <= peers[d].left + TransactionTtl - transaction[d].left
    /\ transaction[d].left <= TransactionTtl
    /\ health[d] <= HealthTtl
Held == kind = "relay" => \A d \in Device : HeldFor(d)

IInv == Typed /\ Remembered /\ EnteredOnce /\ Held /\ DirectoryAuthorized

-----------------------------------------------------------------------------
(* Types *)

\* The types of the deadlines.
LEMMA ConstantTypes ==
  /\ Skew \in Nat /\ NonceTtl \in Nat /\ PeerTtl \in Nat /\ Lease \in Nat /\ DirectoryTtl \in Nat
  /\ TransactionTtl \in Nat \ {0} /\ HealthTtl \in Nat \ {0} /\ RootTtl \in Nat \ {0}
  /\ AckLife \in Nat \ {0} /\ ClockError \subseteq -Skew..Skew
  BY RendezvousAssumption

\* Nothing is registered, awaited or known at the start.
LEMMA InitIInv == Init => IInv
<1> SUFFICES ASSUME Init PROVE IInv
  OBVIOUS
<1>1. Typed
  BY ConstantTypes DEF Init, Typed, NoTransaction, NoPeers, NoRecord
<1>2. Remembered /\ EnteredOnce
  BY DEF Init, Remembered, EnteredOnce
<1>3. Held
  BY ConstantTypes DEF Init, Held, HeldFor, Healthy, NoTransaction
<1>4. DirectoryAuthorized
  BY DEF Init, DirectoryAuthorized, NoPeers
<1> QED
  BY <1>1, <1>2, <1>3, <1>4 DEF IInv

\* What a directory becomes when an agent learns of peers: its type, and who is
\* in it (update_peer_membership).
LEMMA LearnType ==
  ASSUME Typed, NEW d \in Device, NEW found, Learn(d, found)
  PROVE  /\ directory' \in [Device -> [Device -> Int]]
         /\ \A c, e \in Device : directory'[c][e] > 0 =>
                directory[c][e] > 0 \/ (c = d /\ Admits(d, e))
  BY ConstantTypes DEF Typed, Learn

\* What the passing of time does to each variable.
LEMMA TickEffect ==
  ASSUME Tick
  PROVE  /\ lease' = [d \in Device |-> Down(lease[d])]
         /\ transaction' = [d \in Device |->
                IF transaction[d].left <= 1 THEN NoTransaction
                ELSE [transaction[d] EXCEPT !.left = @ - 1]]
         /\ health' = [d \in Device |-> Down(health[d])]
         /\ directory' = [d \in Device |->
                IF lease'[d] = 0 THEN NoPeers ELSE [e \in Device |-> Down(directory[d][e])]]
         /\ peers' = [d \in Device |->
                IF peers[d].left <= 1 THEN NoRecord ELSE [peers[d] EXCEPT !.left = @ - 1]]
         /\ gone' = [d \in Device |-> IF peers[d].left = 1 THEN peers[d].by ELSE gone[d]]
         /\ seen' = [n \in Nonce |-> Down(seen[n])]
         /\ applied' = [n \in Nonce |->
                IF \E m \in registrations' : m.nonce = n THEN applied[n] ELSE 0]
  BY Zenon DEF Tick

\* The datagrams that are left are those from before, a tick older.
LEMMA TickMessages ==
  ASSUME Typed, Tick
  PROVE  /\ registrations' \subseteq Registrations
         /\ responses' \subseteq Responses
         /\ \A x \in registrations' : \E m \in registrations :
                m.nonce = x.nonce /\ m.lag = x.lag - 1
         /\ \A x \in responses' : \E r \in responses :
                r.ok = x.ok /\ r.device = x.device /\ r.nonce = x.nonce
<1>1. registrations' = {[m EXCEPT !.lag = @ + 1, !.lease = @ - 1] :
           m \in {m \in registrations : m.lag < Skew /\ m.lease > 1}}
  BY Zenon DEF Tick
<1>2. responses' = {[r EXCEPT !.left = @ - 1] : r \in {r \in responses : r.left > 1}}
  BY Zenon DEF Tick
<1>3. ASSUME NEW x \in registrations'
      PROVE  x \in Registrations /\ \E m \in registrations : m.nonce = x.nonce /\ m.lag = x.lag - 1
  <2>1. PICK m \in registrations :
            m.lag < Skew /\ m.lease > 1 /\ x = [m EXCEPT !.lag = @ + 1, !.lease = @ - 1]
    BY <1>1, <1>3
  <2>2. m \in Registrations
    BY DEF Typed
  <2>3. x = [device |-> m.device, nonce |-> m.nonce, lag |-> m.lag + 1, lease |-> m.lease - 1]
    BY <2>1, <2>2 DEF Registrations
  <2>4. /\ m.device \in Device /\ m.nonce \in Nonce /\ m.lag + 1 \in -Skew..Skew
        /\ m.lease - 1 \in Int /\ m.lag \in Int
    BY <2>1, <2>2, ConstantTypes DEF Registrations
  <2>5. x \in Registrations
    BY <2>3, <2>4 DEF Registrations
  <2>6. m.nonce = x.nonce /\ m.lag = x.lag - 1
    BY <2>3, <2>4
  <2> QED
    BY Zenon, <2>5, <2>6
<1>4. ASSUME NEW x \in responses'
      PROVE  /\ x \in Responses
             /\ \E r \in responses : r.ok = x.ok /\ r.device = x.device /\ r.nonce = x.nonce
  <2>1. PICK r \in responses : x = [r EXCEPT !.left = @ - 1]
    BY <1>2, <1>4
  <2>2. r \in Responses
    BY DEF Typed
  <2> QED
    BY <2>1, <2>2 DEF Responses
<1> QED
  BY <1>3, <1>4

\* Every step of an agent, of the service and of time keeps the types.
LEMMA TypedStep ==
  ASSUME Typed, [Next]_vars PROVE Typed'
<1> USE ConstantTypes
<1>1. ASSUME NEW d \in Device, TimeOut(d) PROVE Typed'
  BY <1>1 DEF Typed, TimeOut, service, network
<1>2. ASSUME NEW d \in Device, Register(d) PROVE Typed'
  <2>1. PICK n \in Fresh, lag \in ClockError :
          /\ transaction' = [transaction EXCEPT ![d] = [nonce |-> n, left |-> TransactionTtl]]
          /\ registrations' = registrations \cup
                {[device |-> d, nonce |-> n, lag |-> lag, lease |-> lease[d]]}
          /\ applied' = [applied EXCEPT ![n] = 0]
    BY <1>2 DEF Register
  <2>2. n \in Nonce /\ lag \in -Skew..Skew /\ lease[d] \in Int
    BY DEF Fresh, Typed
  <2>3. [device |-> d, nonce |-> n, lag |-> lag, lease |-> lease[d]] \in Registrations
    BY <2>2 DEF Registrations
  <2> QED
    BY <1>2, <2>1, <2>2, <2>3 DEF Typed, Register
<1>3. ASSUME NEW d \in Device, RegisterFails(d) PROVE Typed'
  BY <1>3 DEF Typed, RegisterFails, service, network, NoTransaction
<1>4. ASSUME NEW d \in Device, NEW r \in responses, Answered(d, r) PROVE Typed'
  <2>1. directory' \in [Device -> [Device -> Int]]
    BY <1>4, LearnType DEF Answered, Typed
  <2>2. transaction' = [transaction EXCEPT ![d] = NoTransaction]
    BY <1>4 DEF Answered
  <2>3. \/ health' = health
        \/ health' = [health EXCEPT ![d] = IF kind = "root" THEN RootTtl ELSE HealthTtl]
    BY <1>4 DEF Answered
  <2>4. UNCHANGED <<epoch, known, lease, service, network>>
    BY <1>4 DEF Answered
  <2> QED
    BY <2>1, <2>2, <2>3, <2>4 DEF Typed, service, network, NoTransaction
<1>5. ASSUME NEW d \in Device, NEW e \in Device, Introduced(d, e) PROVE Typed'
  <2>1. directory' \in [Device -> [Device -> Int]]
    BY <1>5, LearnType DEF Introduced
  <2> QED
    BY <1>5, <2>1 DEF Typed, Introduced, service, network
<1>6. ASSUME NEW d \in Device, Refresh(d) PROVE Typed'
  <2>1. /\ lease' = [lease EXCEPT ![d] = IF d \in Roster[epoch] THEN Lease + 1 ELSE 0]
        /\ known' = [known EXCEPT ![d] = epoch]
        /\ Reload(d) \/ UNCHANGED <<transaction, health, directory>>
        /\ UNCHANGED <<epoch, service, network>>
    BY <1>6 DEF Refresh
  <2>2. lease' \in [Device -> Int] /\ known' \in [Device -> Int]
    BY <2>1 DEF Typed
  <2>3. CASE Reload(d)
    BY <2>1, <2>2, <2>3 DEF Typed, Reload, service, network, NoTransaction, NoPeers
  <2>4. CASE UNCHANGED <<transaction, health, directory>>
    BY <2>1, <2>2, <2>4 DEF Typed, service, network
  <2> QED
    BY <2>1, <2>3, <2>4
<1>7. ASSUME NEW m \in registrations, Receives(m) PROVE Typed'
  <2>m. /\ m.device \in Device /\ m.nonce \in Nonce /\ m.lease \in Int
    BY DEF Typed, Registrations
  <2>1. Others(m.device) \subseteq Device
    BY DEF Others
  <2>2. /\ Response(m, FALSE, {}) \in Responses
        /\ Response(m, TRUE, {}) \in Responses
        /\ Response(m, TRUE, Others(m.device)) \in Responses
    BY <2>m, <2>1 DEF Response, Responses
  <2>3. /\ seen' = [seen EXCEPT ![m.nonce] = SeenFor]
        /\ \/ responses' = responses
           \/ responses' = responses \cup {Response(m, FALSE, {})}
           \/ responses' = responses \cup {Response(m, TRUE, {})}
           \/ responses' = responses \cup {Response(m, TRUE, Others(m.device))}
        /\ Enter(m) \/ UNCHANGED <<peers, applied, gone>>
        /\ UNCHANGED <<epoch, agents, registrations>>
    BY <1>7, Zenon DEF Receives, RootReceives, RelayReceives
  <2>r. responses \subseteq Responses
    BY DEF Typed
  <2>4. responses' \subseteq Responses
    BY <2>2, <2>3, <2>r, Zenon
  <2>5. /\ peers' \in [Device -> [left : Int, by : {"lease", "age"}]]
        /\ gone' \in [Device -> {"never", "restart", "lease", "age"}]
        /\ applied' \in [Nonce -> Int]
    <3>1. CASE UNCHANGED <<peers, applied, gone>>
      BY <3>1 DEF Typed
    <3>2. CASE Enter(m)
      <4>1. [left |-> Least(PeerTtl + 1, m.lease),
             by |-> IF m.lease <= PeerTtl THEN "lease" ELSE "age"]
                \in [left : Int, by : {"lease", "age"}]
        BY <2>m DEF Least
      <4> QED
        BY <2>m, <3>2, <4>1 DEF Typed, Enter
    <3> QED
      BY <2>3, <3>1, <3>2
  <2>6. seen' \in [Nonce -> Int]
    BY <2>m, <2>3 DEF Typed, SeenFor
  <2> QED
    BY <2>3, <2>4, <2>5, <2>6 DEF Typed, agents
<1>8. CASE Restart
  BY <1>8 DEF Typed, Restart, agents, network, NoRecord
<1>9. CASE Publish
  BY <1>9 DEF Typed, Publish, agents, network, service
<1>10. CASE Tick
  <2>0. UNCHANGED <<epoch, known>>
    BY <1>10, Zenon DEF Tick
  <2>1. lease' \in [Device -> Int]
    BY TickEffect, <1>10 DEF Typed, Down
  <2>2. health' \in [Device -> Int]
    BY TickEffect, <1>10 DEF Typed, Down
  <2>3. seen' \in [Nonce -> Int]
    BY TickEffect, <1>10 DEF Typed, Down
  <2>4. transaction' \in [Device -> [nonce : Nonce \cup {None}, left : Int]]
    <3>1. transaction' = [d \in Device |-> IF transaction[d].left <= 1 THEN NoTransaction ELSE [transaction[d] EXCEPT !.left = @ - 1]]
      BY TickEffect, <1>10
    <3>2. ASSUME NEW d \in Device PROVE transaction[d] \in [nonce : Nonce \cup {None}, left : Int] /\ NoTransaction \in [nonce : Nonce \cup {None}, left : Int]
      BY DEF Typed, NoTransaction
    <3>3. ASSUME NEW d \in Device PROVE [transaction[d] EXCEPT !.left = @ - 1] \in [nonce : Nonce \cup {None}, left : Int]
      BY <3>2
    <3> QED
      BY <3>1, <3>2, <3>3
  <2>5. directory' \in [Device -> [Device -> Int]]
    BY TickEffect, <1>10 DEF Typed, Down, NoPeers
  <2>6. peers' \in [Device -> [left : Int, by : {"lease", "age"}]]
    <3>1. peers' = [d \in Device |-> IF peers[d].left <= 1 THEN NoRecord ELSE [peers[d] EXCEPT !.left = @ - 1]]
      BY TickEffect, <1>10
    <3>2. ASSUME NEW d \in Device PROVE peers[d] \in [left : Int, by : {"lease", "age"}] /\ NoRecord \in [left : Int, by : {"lease", "age"}]
      BY DEF Typed, NoRecord
    <3>3. ASSUME NEW d \in Device PROVE [peers[d] EXCEPT !.left = @ - 1] \in [left : Int, by : {"lease", "age"}]
      BY <3>2
    <3> QED
      BY <3>1, <3>2, <3>3
  <2>7. gone' \in [Device -> {"never", "restart", "lease", "age"}]
    <3>1. gone' = [d \in Device |-> IF peers[d].left = 1 THEN peers[d].by ELSE gone[d]]
      BY TickEffect, <1>10
    <3>2. \A d \in Device : peers[d].by \in {"lease", "age"}
      BY DEF Typed
    <3>3. gone \in [Device -> {"never", "restart", "lease", "age"}]
      BY DEF Typed
    <3> QED
      BY <3>1, <3>2, <3>3
  <2>8. applied' \in [Nonce -> Int]
    BY TickEffect, <1>10 DEF Typed
  <2>9. registrations' \subseteq Registrations /\ responses' \subseteq Responses
    BY TickMessages, <1>10
  <2> QED
    BY <2>0, <2>1, <2>2, <2>3, <2>4, <2>5, <2>6, <2>7, <2>8, <2>9 DEF Typed
<1>11. CASE UNCHANGED vars
  BY <1>11 DEF Typed, vars, agents, service, network
<1> QED
  BY <1>1, <1>2, <1>3, <1>4, <1>5, <1>6, <1>7, <1>8, <1>9, <1>10, <1>11 DEF Next

-----------------------------------------------------------------------------
(* A registration is entered once *)

\* Every step keeps the nonces that count, and enters no registration again
\* (process_registration, handle_packet).
LEMMA RememberedStep ==
  ASSUME Typed, Remembered, EnteredOnce, [Next]_vars
  PROVE  Remembered' /\ EnteredOnce'
<1> USE ConstantTypes
<1>m. \A m \in registrations : m.nonce \in Nonce /\ m.lag \in -Skew..Skew
  BY DEF Typed, Registrations
<1>t. seen \in [Nonce -> Int] /\ applied \in [Nonce -> Int]
  BY DEF Typed
\* A nonce that is drawn is that of no datagram.
<1>1. ASSUME NEW d \in Device, Register(d) PROVE Remembered' /\ EnteredOnce'
  <2>1. PICK n \in Fresh, lag \in ClockError :
          /\ registrations' = registrations \cup
                {[device |-> d, nonce |-> n, lag |-> lag, lease |-> lease[d]]}
          /\ applied' = [applied EXCEPT ![n] = 0]
    BY <1>1 DEF Register
  <2>2. seen' = seen /\ n \in Nonce
    BY <1>1 DEF Register, Fresh
  <2>3. applied'[n] = 0 /\ \A k \in Nonce : k # n => applied'[k] = applied[k]
    BY <1>t, <2>1, <2>2
  <2>4. Remembered'
    <3> SUFFICES ASSUME NEW m \in registrations', applied'[m.nonce] >= 1
                 PROVE  seen[m.nonce] > Skew - m.lag
      BY <2>2 DEF Remembered
    <3>1. m.nonce # n
      BY <2>3
    <3>2. m \in registrations
      BY <2>1, <3>1
    <3> QED
      BY <1>m, <2>3, <3>1, <3>2 DEF Remembered
  <2>5. EnteredOnce'
    BY <2>3 DEF EnteredOnce
  <2> QED
    BY <2>4, <2>5
\* The service remembers a nonce, before it enters the registration, for longer
\* than any datagram with it can stay fresh.
<1>2. ASSUME NEW m \in registrations, Receives(m) PROVE Remembered' /\ EnteredOnce'
  <2>1. /\ seen' = [seen EXCEPT ![m.nonce] = NonceTtl + 1]
        /\ UNCHANGED registrations
        /\ \/ UNCHANGED applied
           \/ seen[m.nonce] = 0 /\ applied' = [applied EXCEPT ![m.nonce] = @ + 1]
    BY <1>2 DEF Receives, RootReceives, RelayReceives, Enter, SeenFor
  <2>2. m.nonce \in Nonce /\ m.lag \in -Skew..Skew
    BY <1>m
  <2>3. seen[m.nonce] = 0 => applied[m.nonce] < 1
    <3>1. applied[m.nonce] \in Int /\ seen[m.nonce] \in Int /\ m.lag <= Skew
      BY <1>t, <2>2
    <3> QED
      BY <2>2, <3>1 DEF Remembered
  <2>4. EnteredOnce'
    BY <1>t, <2>1, <2>2, <2>3 DEF EnteredOnce
  <2>5. Remembered'
    <3> SUFFICES ASSUME NEW x \in registrations, applied'[x.nonce] >= 1
                 PROVE  seen'[x.nonce] > Skew - x.lag
      BY <2>1 DEF Remembered
    <3>1. x.nonce \in Nonce /\ x.lag \in -Skew..Skew
      BY <1>m
    <3>2. CASE x.nonce = m.nonce
      BY <1>t, <2>1, <2>2, <3>1, <3>2, DeadlineAssumption
    <3>3. CASE x.nonce # m.nonce
      BY <1>t, <2>1, <2>2, <3>1, <3>3 DEF Remembered
    <3> QED
      BY <3>2, <3>3
  <2> QED
    BY <2>4, <2>5
<1>3. CASE Restart
  BY <1>3 DEF Restart, Remembered, EnteredOnce, network, Typed, Registrations
\* What is remembered and what is fresh grow older together.
<1>4. CASE Tick
  <2>1. /\ seen' = [n \in Nonce |-> Down(seen[n])]
        /\ applied' = [n \in Nonce |->
                IF \E m \in registrations' : m.nonce = n THEN applied[n] ELSE 0]
    BY <1>4, TickEffect
  <2>2. EnteredOnce'
    BY <1>t, <2>1 DEF EnteredOnce
  <2>3. Remembered'
    <3> SUFFICES ASSUME NEW x \in registrations', applied'[x.nonce] >= 1
                 PROVE  seen'[x.nonce] > Skew - x.lag
      BY DEF Remembered
    <3>1. PICK m \in registrations : m.nonce = x.nonce /\ m.lag = x.lag - 1
      BY <1>4, TickMessages
    <3>2. x \in Registrations
      BY <1>4, TickMessages
    <3>3. x.nonce \in Nonce /\ x.lag \in -Skew..Skew /\ m.lag \in -Skew..Skew
      BY <1>m, <3>2 DEF Registrations
    <3>4. applied[m.nonce] >= 1
      BY <1>t, <2>1, <3>1, <3>3
    <3>5. seen[m.nonce] > Skew - m.lag
      BY <3>4 DEF Remembered
    <3>6. seen'[x.nonce] = Down(seen[x.nonce])
      BY <2>1, <3>3
    <3> QED
      BY <1>t, <3>1, <3>3, <3>5, <3>6 DEF Down
  <2> QED
    BY <2>2, <2>3
<1>5. ASSUME UNCHANGED <<registrations, seen, applied>> PROVE Remembered' /\ EnteredOnce'
  BY <1>5 DEF Remembered, EnteredOnce
<1>6. ASSUME NEW d \in Device, TimeOut(d) \/ RegisterFails(d) \/ Refresh(d)
      PROVE  UNCHANGED <<registrations, seen, applied>>
  BY <1>6, Zenon DEF TimeOut, RegisterFails, Refresh, service, network
<1>7. ASSUME NEW d \in Device, NEW r \in responses, Answered(d, r)
      PROVE  UNCHANGED <<registrations, seen, applied>>
  BY <1>7, Zenon DEF Answered, service, network
<1>8. ASSUME NEW d \in Device, NEW e \in Device, Introduced(d, e)
      PROVE  UNCHANGED <<registrations, seen, applied>>
  BY <1>8, Zenon DEF Introduced, service, network
<1>9. ASSUME Publish \/ UNCHANGED vars PROVE UNCHANGED <<registrations, seen, applied>>
  BY <1>9, Zenon DEF Publish, vars, service, network
<1> QED
  BY <1>1, <1>2, <1>3, <1>4, <1>5, <1>6, <1>7, <1>8, <1>9 DEF Next

-----------------------------------------------------------------------------
(* A healthy relay holds the registration *)

\* The types of what belongs to one device.
LEMMA OfDevice ==
  ASSUME Typed, NEW d \in Device
  PROVE  /\ health[d] \in Int /\ peers[d].left \in Int /\ transaction[d].left \in Int
         /\ peers[d] \in [left : Int, by : {"lease", "age"}]
         /\ transaction[d] \in [nonce : Nonce \cup {None}, left : Int]
  BY DEF Typed

\* A step that leaves the service's tables and the answers alone, and of the
\* agent at most clears the transaction or the health.
LEMMA HeldQuiet ==
  ASSUME Typed, NEW d \in Device, HeldFor(d), UNCHANGED <<peers, gone, responses>>,
         transaction'[d] = transaction[d] \/ transaction'[d] = NoTransaction,
         health'[d] = health[d] \/ health'[d] = 0
  PROVE  HeldFor(d)'
<1>1. Excused(d)' = Excused(d)
  BY DEF Excused, Registered
<1>2. transaction'[d] = NoTransaction => transaction'[d].left = 0
  BY DEF NoTransaction
<1> QED
  BY <1>1, <1>2, OfDevice, ConstantTypes DEF HeldFor, Healthy

\* A registration that is entered lasts for PEER_TTL, or as long as its manifest.
LEMMA HeldEnter ==
  ASSUME Typed, NEW m \in registrations, m.lease > 0, Enter(m), UNCHANGED <<health, transaction>>,
         NEW d \in Device, HeldFor(d),
         \A r \in responses' : r \in responses \/ r.device = m.device
  PROVE  HeldFor(d)'
<1>m. m.device \in Device /\ m.lease \in Int
  BY DEF Typed, Registrations
<1>1. CASE d = m.device
  <2>1. /\ peers'[d] = [left |-> Least(PeerTtl + 1, m.lease),
                        by |-> IF m.lease <= PeerTtl THEN "lease" ELSE "age"]
    BY <1>1, <1>m DEF Enter, Typed
  <2>2. CASE m.lease <= PeerTtl
    <3>1. Excused(d)'
      BY <1>m, <2>1, <2>2, ConstantTypes DEF Excused, Registered, Least
    <3> QED
      BY <3>1 DEF HeldFor
  <2>3. CASE ~(m.lease <= PeerTtl)
    <3>1. peers'[d].left = PeerTtl + 1
      BY <1>m, <2>1, <2>3, ConstantTypes DEF Least
    <3>2. HealthTtl <= PeerTtl + 1
      BY ConstantTypes, DeadlineAssumption
    <3> QED
      BY <3>1, <3>2, OfDevice, ConstantTypes DEF HeldFor, Healthy
  <2> QED
    BY <2>2, <2>3
<1>2. CASE d # m.device
  <2>1. peers'[d] = peers[d] /\ gone'[d] = gone[d]
    BY <1>2, <1>m DEF Enter, Typed
  <2>2. Excused(d)' = Excused(d)
    BY <2>1 DEF Excused, Registered
  <2> QED
    BY <1>2, <2>1, <2>2 DEF HeldFor, Healthy
<1> QED
  BY <1>1, <1>2

\* The service restarts: every device that was registered is excused.
LEMMA HeldRestart ==
  ASSUME Typed, NEW d \in Device, HeldFor(d), Restart PROVE HeldFor(d)'
<1>1. /\ peers'[d].left = 0 /\ UNCHANGED <<health, transaction, responses>>
      /\ gone'[d] = IF Registered(d) THEN "restart" ELSE gone[d]
  BY DEF Restart, NoRecord, agents, network
<1>2. ~Registered(d)'
  BY <1>1 DEF Registered
<1>3. CASE Registered(d)
  <2>1. Excused(d)'
    BY <1>1, <1>2, <1>3 DEF Excused
  <2> QED
    BY <1>1, <2>1 DEF HeldFor
<1>4. CASE ~Registered(d)
  <2>1. Excused(d)' = Excused(d)
    BY <1>1, <1>2, <1>4 DEF Excused
  <2>2. peers[d].left <= 0
    BY <1>4, OfDevice DEF Registered
  <2>3. ~Excused(d) => ~Healthy(d)
    BY <2>2, OfDevice DEF HeldFor, Healthy
  <2>4. \A r \in responses :
          r.ok /\ r.device = d /\ r.nonce = transaction[d].nonce /\ transaction[d].left > 0
          => Excused(d)
    <3>1. ~(PeerTtl + 1 <= peers[d].left + TransactionTtl - transaction[d].left)
             \/ ~(transaction[d].left > 0)
      BY <2>2, OfDevice, ConstantTypes, DeadlineAssumption
    <3> QED
      BY <3>1 DEF HeldFor
  <2> QED
    BY <1>1, <2>1, <2>3, <2>4 DEF HeldFor, Healthy
<1> QED
  BY <1>3, <1>4

\* Time passes: a record that is dropped for its age was neither relied upon nor
\* part of an answer that is still awaited.
LEMMA HeldTick ==
  ASSUME Typed, NEW d \in Device, HeldFor(d), Tick PROVE HeldFor(d)'
<1> USE ConstantTypes
<1>o. /\ health[d] \in Int /\ peers[d].left \in Int /\ transaction[d].left \in Int
  BY OfDevice
<1>1. /\ health'[d] = Down(health[d])
      /\ gone'[d] = IF peers[d].left = 1 THEN peers[d].by ELSE gone[d]
  BY TickEffect
<1>2. /\ peers[d].left <= 1 => peers'[d].left = 0
      /\ peers[d].left > 1 => peers'[d].left = peers[d].left - 1 /\ peers'[d].by = peers[d].by
  <2>1. peers'[d] = IF peers[d].left <= 1 THEN NoRecord ELSE [peers[d] EXCEPT !.left = @ - 1]
    BY TickEffect
  <2> QED
    BY <2>1, OfDevice DEF NoRecord
<1>3. /\ transaction[d].left <= 1 => transaction'[d].left = 0
      /\ transaction[d].left > 1 => /\ transaction'[d].left = transaction[d].left - 1
                                    /\ transaction'[d].nonce = transaction[d].nonce
  <2>1. transaction'[d] = IF transaction[d].left <= 1 THEN NoTransaction
                          ELSE [transaction[d] EXCEPT !.left = @ - 1]
    BY TickEffect
  <2> QED
    BY <2>1, OfDevice DEF NoTransaction
<1>4. Excused(d) => Excused(d)'
  <2>1. CASE peers[d].left > 1
    BY <1>o, <1>1, <1>2, <2>1 DEF Excused, Registered
  <2>2. CASE peers[d].left = 1
    BY <1>1, <1>2, <2>2 DEF Excused, Registered
  <2>3. CASE peers[d].left < 1
    BY <1>o, <1>1, <1>2, <2>3 DEF Excused, Registered
  <2> QED
    BY <1>o, <2>1, <2>2, <2>3
<1>5. Healthy(d)' => Excused(d)' \/ health'[d] <= peers'[d].left
  BY <1>o, <1>1, <1>2, <1>4 DEF HeldFor, Healthy, Down
<1>6. ASSUME NEW x \in responses', x.ok, x.device = d, x.nonce = transaction'[d].nonce,
             transaction'[d].left > 0
      PROVE  Excused(d)' \/ PeerTtl + 1 <= peers'[d].left + TransactionTtl - transaction'[d].left
  <2>1. PICK r \in responses : r.ok = x.ok /\ r.device = x.device /\ r.nonce = x.nonce
    BY TickMessages
  <2>2. transaction[d].left > 1
    BY <1>o, <1>3, <1>6
  <2>r. r.ok
    BY <1>6, <2>1, Zenon
  <2>3. Excused(d) \/ PeerTtl + 1 <= peers[d].left + TransactionTtl - transaction[d].left
    <3>1. r.device = d /\ r.nonce = transaction[d].nonce /\ transaction[d].left > 0
      BY <1>o, <1>3, <1>6, <2>1, <2>2
    <3> QED
      BY <2>r, <3>1 DEF HeldFor
  <2>4. CASE Excused(d)
    BY <1>4, <2>4
  <2>5. CASE PeerTtl + 1 <= peers[d].left + TransactionTtl - transaction[d].left
    <3>1. peers[d].left > 1
      BY <1>o, <2>2, <2>5, DeadlineAssumption
    <3> QED
      BY <1>o, <1>2, <1>3, <2>2, <2>5, <3>1
  <2> QED
    BY <2>3, <2>4, <2>5
<1>7. transaction'[d].left <= TransactionTtl /\ health'[d] <= HealthTtl
  BY <1>o, <1>1, <1>3 DEF HeldFor, Down
<1> QED
  BY <1>5, <1>6, <1>7 DEF HeldFor

\* Every step keeps what a relay holds.
LEMMA HeldStep ==
  ASSUME Typed, Held, [Next]_vars PROVE Held'
<1> USE ConstantTypes
<1>k. kind' = kind
  BY Zenon DEF Next, vars, TimeOut, Register, RegisterFails, Answered, Introduced, Refresh,
               Receives, RootReceives, RelayReceives, Restart, Publish, Tick
<1> SUFFICES ASSUME kind = "relay", NEW c \in Device PROVE HeldFor(c)'
  BY <1>k DEF Held
<1>h. HeldFor(c)
  BY DEF Held
<1>q. ASSUME UNCHANGED <<peers, gone, responses, health, transaction>> PROVE HeldFor(c)'
  BY <1>h, <1>q, HeldQuiet
<1>1. ASSUME NEW d \in Device, TimeOut(d) PROVE HeldFor(c)'
  BY <1>1, <1>q DEF TimeOut, service, network
\* The nonce that is drawn is that of no answer.
<1>2. ASSUME NEW d \in Device, Register(d) PROVE HeldFor(c)'
  <2>1. PICK n \in Fresh :
          transaction' = [transaction EXCEPT ![d] = [nonce |-> n, left |-> TransactionTtl]]
    BY <1>2 DEF Register
  <2>2. UNCHANGED <<peers, gone, responses, health>>
    BY <1>2 DEF Register
  <2>3. CASE c # d
    <3>1. transaction'[c] = transaction[c]
      BY <2>1, <2>3 DEF Typed
    <3> QED
      BY <1>h, <2>2, <3>1, HeldQuiet
  <2>4. CASE c = d
    <3>1. transaction'[c] = [nonce |-> n, left |-> TransactionTtl]
      BY <2>1, <2>4 DEF Typed
    <3>2. \A r \in responses : r.nonce # n
      BY DEF Fresh
    <3>3. Excused(c)' = Excused(c)
      BY <2>2 DEF Excused, Registered
    <3> QED
      BY <1>h, <2>2, <3>1, <3>2, <3>3 DEF HeldFor, Healthy
  <2> QED
    BY <2>3, <2>4
<1>3. ASSUME NEW d \in Device, RegisterFails(d) PROVE HeldFor(c)'
  <2>1. /\ transaction' = [transaction EXCEPT ![d] = NoTransaction]
        /\ UNCHANGED <<peers, gone, responses, health>>
    BY <1>3 DEF RegisterFails, service, network
  <2>2. transaction'[c] = transaction[c] \/ transaction'[c] = NoTransaction
    BY <2>1 DEF Typed
  <2> QED
    BY <1>h, <2>1, <2>2, HeldQuiet
\* An answer that comes in time makes the relay healthy for less than the record
\* has left.
<1>4. ASSUME NEW d \in Device, NEW r \in responses, Answered(d, r) PROVE HeldFor(c)'
  <2>1. /\ transaction' = [transaction EXCEPT ![d] = NoTransaction]
        /\ UNCHANGED <<peers, gone, responses>>
    BY <1>4 DEF Answered, service, network
  <2>2. health' = health \/ (r.ok /\ health' = [health EXCEPT ![d] = HealthTtl])
    BY <1>4 DEF Answered
  <2>3. transaction'[c] = transaction[c] \/ transaction'[c] = NoTransaction
    BY <2>1 DEF Typed
  <2>4. CASE health' = health \/ c # d
    <3>1. health'[c] = health[c]
      BY <2>2, <2>4 DEF Typed
    <3> QED
      BY <1>h, <2>1, <2>3, <3>1, HeldQuiet
  <2>5. CASE r.ok /\ health' = [health EXCEPT ![d] = HealthTtl] /\ c = d
    <3>1. health'[c] = HealthTtl /\ transaction'[c] = NoTransaction
      BY <2>1, <2>5 DEF Typed
    <3>2. Excused(c)' = Excused(c)
      BY <2>1 DEF Excused, Registered
    <3>3. r.device = c /\ transaction[c].nonce = r.nonce /\ transaction[c].left > 0
      BY <1>4, <2>5 DEF Answered
    <3>4. Excused(c) \/ PeerTtl + 1 <= peers[c].left + TransactionTtl - transaction[c].left
      BY <1>h, <2>5, <3>3 DEF HeldFor
    <3>5. Excused(c) \/ HealthTtl <= peers[c].left
      BY <3>3, <3>4, OfDevice, DeadlineAssumption
    <3>6. transaction'[c].left = 0
      BY <3>1 DEF NoTransaction
    <3> QED
      BY <2>1, <3>1, <3>2, <3>5, <3>6 DEF HeldFor, Healthy
  <2> QED
    BY <2>2, <2>4, <2>5
<1>5. ASSUME NEW d \in Device, NEW e \in Device, Introduced(d, e) PROVE HeldFor(c)'
  BY <1>5, <1>q DEF Introduced, service, network
<1>6. ASSUME NEW d \in Device, Refresh(d) PROVE HeldFor(c)'
  <2>1. /\ Reload(d) \/ UNCHANGED <<transaction, health, directory>>
        /\ UNCHANGED <<peers, gone, responses>>
    BY <1>6 DEF Refresh, service, network
  <2>2. /\ transaction'[c] = transaction[c] \/ transaction'[c] = NoTransaction
        /\ health'[c] = health[c] \/ health'[c] = 0
    BY <2>1 DEF Reload, Typed
  <2> QED
    BY <1>h, <2>1, <2>2, HeldQuiet
<1>7. ASSUME NEW m \in registrations, Receives(m) PROVE HeldFor(c)'
  <2>1. RelayReceives(m)
    BY <1>7 DEF Receives, RootReceives
  <2>2. m.lease > 0 /\ UNCHANGED <<health, transaction>>
    BY <2>1 DEF RelayReceives, Verified, verify_authorization_set, agents
  <2>3. CASE UNCHANGED <<peers, applied, gone, responses, identities>>
    BY <1>q, <2>2, <2>3
  <2>4. CASE Enter(m) /\ responses' = responses \cup {Response(m, TRUE, {})}
    <3>1. \A r \in responses' : r \in responses \/ r.device = m.device
      BY <2>4 DEF Response
    <3> QED
      BY <1>h, <2>2, <2>4, <3>1, HeldEnter
  <2> QED
    BY <2>1, <2>3, <2>4 DEF RelayReceives
<1>8. CASE Restart
  BY <1>h, <1>8, HeldRestart
<1>9. CASE Publish
  BY <1>9, <1>q DEF Publish, agents, service, network
<1>10. CASE Tick
  BY <1>h, <1>10, HeldTick
<1>11. CASE UNCHANGED vars
  BY <1>11, <1>q DEF vars, agents, service, network
<1> QED
  BY <1>1, <1>2, <1>3, <1>4, <1>5, <1>6, <1>7, <1>8, <1>9, <1>10, <1>11 DEF Next

-----------------------------------------------------------------------------
(* The directory *)

\* What an agent knows of a peer it learnt under the manifest that it holds: a
\* manifest of another epoch reloads the worker and empties the directory.
LEMMA DirectoryStep ==
  ASSUME Typed, DirectoryAuthorized, [Next]_vars
  PROVE  DirectoryAuthorized'
<1>q. ASSUME UNCHANGED <<world, known, directory>> PROVE DirectoryAuthorized'
  BY <1>q DEF DirectoryAuthorized, Roster
<1>l. ASSUME NEW d \in Device, NEW found, Learn(d, found), UNCHANGED <<world, known>>
      PROVE  DirectoryAuthorized'
  BY <1>l, LearnType DEF DirectoryAuthorized, Roster, Admits, Authorized
<1>1. ASSUME NEW d \in Device, TimeOut(d) \/ Register(d) \/ RegisterFails(d)
      PROVE  DirectoryAuthorized'
  <2>1. UNCHANGED <<world, known, directory>>
    BY <1>1, Zenon DEF TimeOut, Register, RegisterFails
  <2> QED
    BY <1>q, <2>1
<1>2. ASSUME NEW d \in Device, NEW r \in responses, Answered(d, r) PROVE DirectoryAuthorized'
  <2>1. UNCHANGED <<world, known>> /\ (Learn(d, r.found) \/ UNCHANGED directory)
    BY <1>2, Zenon DEF Answered
  <2> QED
    BY <1>l, <1>q, <2>1
<1>3. ASSUME NEW d \in Device, NEW e \in Device, Introduced(d, e) PROVE DirectoryAuthorized'
  <2>1. UNCHANGED <<world, known>> /\ Learn(d, {e})
    BY <1>3, Zenon DEF Introduced
  <2> QED
    BY <1>l, <2>1
<1>4. ASSUME NEW d \in Device, Refresh(d) PROVE DirectoryAuthorized'
  <2>1. /\ known' = [known EXCEPT ![d] = epoch] /\ UNCHANGED world
        /\ IF known[d] # epoch \/ d \notin Roster[epoch] THEN Reload(d) ELSE UNCHANGED directory
    BY <1>4 DEF Refresh
  <2>2. CASE known[d] # epoch \/ d \notin Roster[epoch]
    <3>1. directory' = [directory EXCEPT ![d] = NoPeers]
      BY <2>1, <2>2 DEF Reload
    <3> QED
      BY <2>1, <3>1 DEF DirectoryAuthorized, Roster, NoPeers, Typed
  <2>3. CASE ~(known[d] # epoch \/ d \notin Roster[epoch])
    <3>1. UNCHANGED <<world, known, directory>>
      BY <2>1, <2>3 DEF Typed
    <3> QED
      BY <1>q, <3>1
  <2> QED
    BY <2>2, <2>3
<1>5. ASSUME NEW m \in registrations, Receives(m) PROVE DirectoryAuthorized'
  <2>1. UNCHANGED <<world, known, directory>>
    BY <1>5, Zenon DEF Receives, RootReceives, RelayReceives, agents
  <2> QED
    BY <1>q, <2>1
<1>6. ASSUME Restart \/ Publish \/ UNCHANGED vars PROVE DirectoryAuthorized'
  <2>1. UNCHANGED <<world, known, directory>>
    BY <1>6, Zenon DEF Restart, Publish, vars, agents
  <2> QED
    BY <1>q, <2>1
<1>7. CASE Tick
  <2>1. UNCHANGED <<world, known>>
    BY <1>7, Zenon DEF Tick
  <2>2. directory' = [d \in Device |->
                IF lease'[d] = 0 THEN NoPeers ELSE [e \in Device |-> Down(directory[d][e])]]
    BY <1>7, TickEffect
  <2>3. \A d, e \in Device : directory'[d][e] > 0 => directory[d][e] > 0
    BY <2>2 DEF NoPeers, Down, Typed
  <2> QED
    BY <2>1, <2>3 DEF DirectoryAuthorized, Roster
<1> QED
  BY <1>1, <1>2, <1>3, <1>4, <1>5, <1>6, <1>7 DEF Next

-----------------------------------------------------------------------------
\* Every behaviour keeps the invariant.
LEMMA Inductive == Spec => []IInv
<1>1. Init => IInv
  BY InitIInv
<1>2. ASSUME IInv, [Next]_vars PROVE IInv'
  <2>1. Typed /\ Remembered /\ EnteredOnce /\ Held /\ DirectoryAuthorized
    BY <1>2 DEF IInv
  <2>2. Typed'
    BY <1>2, <2>1, TypedStep
  <2>3. Remembered' /\ EnteredOnce'
    BY <1>2, <2>1, RememberedStep
  <2>4. Held'
    BY <1>2, <2>1, HeldStep
  <2>5. DirectoryAuthorized'
    BY <1>2, <2>1, DirectoryStep
  <2> QED
    BY <2>2, <2>3, <2>4, <2>5 DEF IInv
<1> QED
  BY <1>1, <1>2, PTL DEF Spec

\* For any clock skew, and any nonce memory at least twice as long: the Root and
\* the Relay enter a signed registration at most once between two restarts,
\* however often and in whatever order the network delivers it.
THEOREM RegistrationsEnteredOnce == Spec => []EnteredOnce
<1>1. IInv => EnteredOnce
  BY DEF IInv
<1> QED
  BY <1>1, Inductive, PTL

\* For any deadlines with TransactionTtl + HealthTtl <= PeerTtl + 2: a relay that
\* an agent takes for healthy still holds its registration, unless the relay
\* restarted or the manifest in the registration ran out.
THEOREM HealthyRelaysHold == Spec => []HealthyIsHeld
<1>1. IInv => HealthyIsHeld
  <2> SUFFICES ASSUME IInv, kind = "relay", NEW d \in Device, Healthy(d), ~Registered(d)
               PROVE  gone[d] \in {"restart", "lease"}
    BY DEF HealthyIsHeld
  <2>1. Typed /\ HeldFor(d)
    BY DEF IInv, Held
  <2>2. Excused(d)
    BY <2>1, OfDevice DEF HeldFor, Healthy, Registered
  <2> QED
    BY <2>2 DEF Excused
<1> QED
  BY <1>1, Inductive, PTL

\* For any rosters: no answer and no introduction brings a removed member back
\* into the directory of an agent that holds a manifest without it.
THEOREM DirectoriesAuthorized == Spec => []DirectoryAuthorized
<1>1. IInv => DirectoryAuthorized
  BY DEF IInv
<1> QED
  BY <1>1, Inductive, PTL
=============================================================================
