----------------------------- MODULE MCPairwise -----------------------------
(***************************************************************************)
(* Safety of the pairwise sessions, in two parts: sessions that expire,    *)
(* are used up and are rebuilt under traffic; and one receiving direction  *)
(* of a session with a longer run of sequence numbers.                     *)
(***************************************************************************)
EXTENDS MCSession

VARIABLES part, window, accepted

WindowPart == INSTANCE ReplayReceiver WITH MaxSequence <- 7

PairwiseInit ==
    /\ WindowPart!Init
    /\ Init /\ part \in {"traffic", "window"}

PairwiseNext ==
    /\ UNCHANGED part
    /\ \/ part = "traffic" /\ Next /\ UNCHANGED <<window, accepted>>
       \/ part = "window" /\ WindowPart!Next /\ UNCHANGED vars

PairwiseSpec == PairwiseInit /\ [][PairwiseNext]_<<part, window, accepted, vars>>

\* No step of a receiving direction opens a sequence number again
\* (ReplayWindow::can_accept, ReplayWindow::mark).
OpensOnce == WindowPart!OpensOnce
=============================================================================
