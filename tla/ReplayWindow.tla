----------------------------- MODULE ReplayWindow -----------------------------
(***************************************************************************)
(* The sliding replay window that guards every pairwise session            *)
(* (meshlake-core, session.rs).  The 64-bit bitmap is the set of the       *)
(* positions of its one-bits: position b stands for sequence highest - b.  *)
(* `highest: None` is the number -1, below every sequence number.          *)
(***************************************************************************)
EXTENDS Integers

CONSTANTS
  WindowSize,      \* bits of the bitmap; 64 in the code
  MaxSequence      \* u64::MAX

ASSUME WindowSizeAssumption == WindowSize \in Nat \ {0}
ASSUME MaxSequenceAssumption == MaxSequence \in Nat

Positions == 0 .. WindowSize - 1

Window == [highest : Nat \cup {-1}, bitmap : SUBSET Positions]

EmptyWindow == [highest |-> -1, bitmap |-> {}]

\* A bug: off by one at the trailing edge of the window.
CanAcceptInclusive(w, seq) ==
  \/ seq > w.highest
  \/ /\ w.highest - seq <= WindowSize
     /\ w.highest - seq \notin w.bitmap

\* `can_accept`: anything above the highest, below it only a clear bit.
CanAccept(w, seq) ==
  \/ seq > w.highest
  \/ /\ w.highest - seq < WindowSize
     /\ w.highest - seq \notin w.bitmap

\* `bitmap << distance`: what is shifted past the top bit is forgotten.
Shift(bits, distance) == {b \in Positions : b - distance \in bits}

\* `mark`
Mark(w, seq) ==
  IF seq > w.highest
  THEN [highest |-> seq, bitmap |-> Shift(w.bitmap, seq - w.highest) \cup {0}]
  ELSE [w EXCEPT !.bitmap = @ \cup {w.highest - seq}]
===============================================================================
