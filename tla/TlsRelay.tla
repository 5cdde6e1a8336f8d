------------------------------ MODULE TlsRelay ------------------------------
(***************************************************************************)
(* One TLS connection of an agent to its relay: the reconnecting client    *)
(* (meshlaked, tls_relay.rs) and the relay's proxy between the stream and  *)
(* its UDP socket (meshlake-relay, proxy_tcp_connection).                  *)
(*                                                                         *)
(* Both ends run one select! loop over "a frame to write" and "a frame     *)
(* read".  A frame travels as a length and a body, each an item of the     *)
(* stream.  A read is a future: what it has taken from the stream is gone  *)
(* when another branch of the select! completes.                           *)
(***************************************************************************)
EXTENDS Integers, Sequences

CONSTANTS
    Frames,             \* [End -> Nat], frames that each end has to send
    QueueCapacity,      \* OUTBOUND_QUEUE_CAPACITY
    StreamCapacity,     \* items that the buffers of one direction hold
    MaxBreaks           \* bound

End == {"agent", "proxy"}
Other(e) == IF e = "agent" THEN "proxy" ELSE "agent"
Junk == 0                                   \* bytes that are no frame

VARIABLES
    phase,          \* of the client's task: connecting, up, waiting, stopped
    shutdown,       \* the transport was dropped
    certificate,    \* whether the server shows the pinned certificate
    offered,        \* frames handed to each end so far
    queue,          \* frames waiting at each end
    writing,        \* items of the frame that each end is writing
    stream,         \* items on the way from each end
    reading,        \* items taken by the read that is under way
    received,       \* frames handed on at each end
    started,        \* frames taken for writing on the present connection
    torn,           \* ends that dropped a read half-way on the present connection
    breaks

vars == <<phase, shutdown, certificate, offered, queue, writing, stream, reading,
          received, started, torn, breaks>>

ForEnds(x) == [e \in End |-> x]

\* connected, the flag that try_send looks at.
connected == phase = "up"

\* The two writes of write_tcp_frame, and what read_tcp_frame makes of them.
write_tcp_frame(f) == <<[part |-> "length", frame |-> f], [part |-> "body", frame |-> f]>>

Init ==
    /\ phase = "connecting"
    /\ shutdown = FALSE
    /\ certificate = "pinned"
    /\ offered = ForEnds(0)
    /\ queue = ForEnds(<<>>)
    /\ writing = ForEnds(<<>>)
    /\ stream = ForEnds(<<>>)
    /\ reading = ForEnds(<<>>)
    /\ received = ForEnds(<<>>)
    /\ started = ForEnds({})
    /\ torn = {}
    /\ breaks = 0

-----------------------------------------------------------------------------
\* A frame is offered: by the worker, which is told if it was not taken, or
\* by the relay, to the UDP socket that the proxy opened for the connection.
try_send(e) ==
    /\ offered[e] < Frames[e]
    /\ offered' = [offered EXCEPT ![e] = @ + 1]
    /\ queue' = IF connected /\ (e = "agent" => Len(queue[e]) < QueueCapacity)
                  THEN [queue EXCEPT ![e] = Append(@, offered[e] + 1)]
                  ELSE queue
    /\ UNCHANGED <<phase, shutdown, certificate, writing, stream, reading, received, started, torn,
                   breaks>>

\* The select! takes the outbound branch and drops the read.
Pop(q) == Tail(q)
BeginWrite(e) ==
    /\ connected
    /\ writing[e] = <<>> /\ queue[e] # <<>>
    /\ queue' = [queue EXCEPT ![e] = Pop(@)]
    /\ writing' = [writing EXCEPT ![e] = write_tcp_frame(Head(queue[e]))]
    /\ reading' = [reading EXCEPT ![e] = <<>>]
    /\ started' = [started EXCEPT ![e] = @ \cup {Head(queue[e])}]
    /\ torn' = IF reading[e] = <<>> THEN torn ELSE torn \cup {e}
    /\ UNCHANGED <<phase, shutdown, certificate, offered, stream, received, breaks>>

\* A write waits for room in the stream; the end reads nothing meanwhile.
Write(e) ==
    /\ connected
    /\ writing[e] # <<>> /\ Len(stream[e]) < StreamCapacity
    /\ stream' = [stream EXCEPT ![e] = Append(@, Head(writing[e]))]
    /\ writing' = [writing EXCEPT ![e] = Tail(@)]
    /\ UNCHANGED <<phase, shutdown, certificate, offered, queue, reading, received, started, torn,
                   breaks>>

\* The connection ends.  The frame being written, the read, and the proxy
\* with its socket go with it; the client's queue stays.
Ended ==
    /\ queue' = [queue EXCEPT !["proxy"] = <<>>]
    /\ writing' = ForEnds(<<>>)
    /\ stream' = ForEnds(<<>>)
    /\ reading' = ForEnds(<<>>)
    /\ started' = ForEnds({})
    /\ torn' = {}
    /\ phase' = IF shutdown THEN "stopped" ELSE "waiting"

\* One item arrives at the read of end e.  A body taken for a length is a
\* length out of range, which ends the connection, or one within it.
\* A bug: the length is taken for the frame
read_length_only(e, item) ==
    /\ reading' = reading
    /\ received' = [received EXCEPT ![e] = Append(@, Junk)]
    /\ UNCHANGED <<phase, queue, writing, started, torn>>
read_tcp_frame(e, item) ==
    \/ /\ reading[e] = <<>>
       /\ reading' = [reading EXCEPT ![e] = <<item>>]
       /\ UNCHANGED <<phase, queue, writing, received, started, torn>>
    \/ /\ reading[e] # <<>>
       /\ reading' = [reading EXCEPT ![e] = <<>>]
       /\ received' = [received EXCEPT ![e] =
                         Append(@, IF reading[e][1].part = "length" /\ item.part = "body"
                                     THEN item.frame ELSE Junk)]
       /\ UNCHANGED <<phase, queue, writing, started, torn>>

OutOfRange(e, item) == reading[e] = <<>> /\ item.part = "body"

Read(e) ==
    /\ connected
    /\ writing[e] = <<>> /\ stream[Other(e)] # <<>>
    /\ LET item == Head(stream[Other(e)]) IN
         \/ /\ read_tcp_frame(e, item)
            /\ stream' = [stream EXCEPT ![Other(e)] = Tail(@)]
         \/ OutOfRange(e, item) /\ Ended /\ UNCHANGED received
    /\ UNCHANGED <<shutdown, certificate, offered, breaks>>

-----------------------------------------------------------------------------
\* connect_pinned_tls and run_relay_connection.

verify_leaf_certificate_pin == certificate = "pinned"

connect_pinned_tls ==
    /\ phase = "connecting"
    /\ phase' = IF verify_leaf_certificate_pin THEN "up" ELSE "waiting"
    /\ UNCHANGED <<shutdown, certificate, offered, queue, writing, stream, reading, received,
                   started, torn, breaks>>

\* RECONNECT_DELAY passes, or the shutdown is noticed.
Reconnect ==
    /\ phase = "waiting"
    /\ phase' = IF shutdown THEN "stopped" ELSE "connecting"
    /\ UNCHANGED <<shutdown, certificate, offered, queue, writing, stream, reading, received,
                   started, torn, breaks>>

\* The shutdown is seen by the select!, hence not during a write.
Stop ==
    /\ connected /\ shutdown /\ writing["agent"] = <<>>
    /\ Ended
    /\ UNCHANGED <<shutdown, certificate, offered, received, breaks>>

Drop ==
    /\ ~shutdown
    /\ shutdown' = TRUE
    /\ UNCHANGED <<phase, certificate, offered, queue, writing, stream, reading, received,
                   started, torn, breaks>>

\* The network or the relay ends the connection; afterwards the server may
\* show another certificate.
Break ==
    /\ connected /\ breaks < MaxBreaks
    /\ breaks' = breaks + 1
    /\ Ended
    /\ certificate' \in {"pinned", "other"}
    /\ UNCHANGED <<shutdown, offered, received>>

\* The loops of the two ends, and the task around the agent's.
Loop(e) == BeginWrite(e) \/ Write(e) \/ Read(e)
connect_and_forward == Loop("agent") \/ Stop
proxy_tcp_connection == Loop("proxy")
run_relay_connection == connect_pinned_tls \/ Reconnect

Next ==
    \/ connect_and_forward \/ proxy_tcp_connection \/ run_relay_connection
    \/ (\E e \in End : try_send(e)) \/ Drop \/ Break

\* Each loop goes on while it has something to do.
Fairness ==
    /\ \A e \in End : WF_vars(BeginWrite(e)) /\ WF_vars(Write(e)) /\ WF_vars(Read(e))
    /\ WF_vars(connect_pinned_tls) /\ WF_vars(Reconnect) /\ WF_vars(Stop)

Spec == Init /\ [][Next]_vars
FairSpec == Spec /\ Fairness

-----------------------------------------------------------------------------
\* Frames come out of the stream once and in the order in which they were
\* offered, across every reconnection: the queue outlives a connection, and
\* a frame that was being written is not written again (connect_and_forward).
FramesInOrder ==
    \A e \in End : LET r == SelectSeq(received[e], LAMBDA f : f # Junk) IN
       \A i, j \in 1..Len(r) : i < j => r[i] < r[j]

\* Both ends wait for room in the stream, and neither reads while it writes.
Jammed == \A e \in End : writing[e] # <<>> /\ Len(stream[e]) = StreamCapacity

\* A frame taken for writing arrives at the other end, in order and once,
\* unless the connection ends, the other end drops a read half-way to write a
\* frame of its own, or both ends write into full buffers: nothing else loses
\* a frame or stalls the stream (connect_and_forward and proxy_tcp_connection;
\* "every frame is handed to the existing local UDP relay").
FramesArrive ==
    /\ []FramesInOrder
    /\ \A e \in End : \A f \in 1..Frames[e] :
          f \in started[e] ~> \/ f \notin started[e] \/ Other(e) \in torn \/ Jammed
                              \/ \E i \in 1..Len(received[Other(e)]) : received[Other(e)][i] = f
=============================================================================
