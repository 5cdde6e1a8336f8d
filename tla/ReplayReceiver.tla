---------------------------- MODULE ReplayReceiver ----------------------------
(***************************************************************************)
(* One receiving direction of an established session: frames arrive in any *)
(* order and number, authentic or not, and `PairwiseSessionKeys::open`     *)
(* (meshlake-core, session.rs) decides which of them count.                *)
(***************************************************************************)
EXTENDS ReplayWindow

Sequence == 0 .. MaxSequence

VARIABLES window,      \* the session's ReplayWindow
          accepted     \* the sequence numbers opened so far (history)

vars == <<window, accepted>>

Init == window = EmptyWindow /\ accepted = {}

\* `open`: window check, decryption, and only then `mark`.
Open(seq, authentic) ==
  /\ CanAccept(window, seq)
  /\ authentic
  /\ window' = Mark(window, seq)
  /\ accepted' = accepted \cup {seq}

Next == \E seq \in Sequence, authentic \in BOOLEAN : Open(seq, authentic)

Spec == Init /\ [][Next]_vars

-------------------------------------------------------------------------------
\* The highest sequence is the largest one opened, or -1.
IsHighest == /\ window.highest \in accepted \cup {-1}
             /\ \A s \in accepted : s <= window.highest

TypeOK == window \in Window /\ accepted \subseteq Sequence

\* The bitmap is exact: its bits are the opened sequence numbers that are still
\* within the window, no more and no fewer, after any number of shifts.
BitmapExact ==
  /\ IsHighest
  /\ window.bitmap = {b \in Positions : window.highest - b \in accepted}

\* What `open` answers to an authentic frame is exactly: not yet opened, and less
\* than WindowSize behind the highest.  So a replay is never opened, and a frame
\* that is late but inside the window is never refused; a forged frame changes
\* neither.
WindowCorrect ==
  \A s \in Sequence :
    CanAccept(window, s) <=> s \notin accepted /\ window.highest - s < WindowSize

\* No step opens a sequence number that was opened before, and none that was opened
\* is forgotten: every opening adds one new number to the history.
OpensOnce == [][\E s \in Sequence \ accepted : accepted' = accepted \cup {s}]_vars
===============================================================================
