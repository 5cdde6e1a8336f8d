------------------------- MODULE ReplayReceiverProofs -------------------------
(***************************************************************************)
(* ReplayReceiver is correct for every window size and sequence range.     *)
(* The invariant of the induction is that the bitmap is exact.             *)
(***************************************************************************)
EXTENDS ReplayReceiver, TLAPS

IInv == TypeOK /\ BitmapExact

\* The default ReplayWindow is a window.
LEMMA EmptyWindowType == EmptyWindow \in Window
  BY WindowSizeAssumption DEF EmptyWindow, Window, Positions

\* `mark` yields a window again.
LEMMA MarkType ==
  ASSUME NEW w \in Window, NEW seq \in Nat, CanAccept(w, seq)
  PROVE  Mark(w, seq) \in Window
<1>1. CASE seq > w.highest
  BY <1>1, WindowSizeAssumption DEF Mark, Window, Positions, Shift
<1>2. CASE ~(seq > w.highest)
  <2>1. w.highest - seq \in Positions
    BY <1>2, WindowSizeAssumption DEF CanAccept, Window, Positions
  <2> QED  BY <1>2, <2>1 DEF Mark, Window
<1> QED  BY <1>1, <1>2

\* The empty window of a new session is exact.
LEMMA InitExact == Init => IInv
  BY EmptyWindowType DEF Init, IInv, TypeOK, BitmapExact, IsHighest, EmptyWindow, Positions

\* An exact bitmap makes `can_accept` answer correctly.
LEMMA ExactIsCorrect == IInv => WindowCorrect
<1> SUFFICES ASSUME IInv, NEW s \in Sequence
             PROVE  CanAccept(window, s) <=>
                      s \notin accepted /\ window.highest - s < WindowSize
  BY DEF WindowCorrect
<1>1. window.highest \in Int /\ s \in Nat /\ accepted \subseteq Nat
  BY MaxSequenceAssumption DEF IInv, TypeOK, Window, Sequence
<1>2. CASE s > window.highest
  BY <1>1, <1>2, WindowSizeAssumption DEF IInv, BitmapExact, IsHighest, CanAccept
<1>3. CASE ~(s > window.highest) /\ window.highest - s < WindowSize
  <2>1. window.highest - s \in Positions /\ window.highest - (window.highest - s) = s
    BY <1>1, <1>3, WindowSizeAssumption DEF Positions
  <2>2. window.highest - s \in window.bitmap <=> s \in accepted
    BY <2>1 DEF IInv, BitmapExact
  <2> QED  BY <1>1, <1>3, <2>2 DEF CanAccept
<1>4. CASE ~(s > window.highest) /\ ~(window.highest - s < WindowSize)
  BY <1>1, <1>4 DEF CanAccept
<1> QED  BY <1>2, <1>3, <1>4

\* `open` keeps the bitmap exact.
LEMMA OpenExact ==
  ASSUME IInv, NEW seq \in Sequence, NEW authentic \in BOOLEAN, Open(seq, authentic)
  PROVE  IInv'
<1>1. /\ window \in Window /\ accepted \subseteq Nat /\ seq \in Nat
      /\ window.highest \in Int
  BY MaxSequenceAssumption DEF IInv, TypeOK, Window, Sequence
<1>2. TypeOK'
  BY <1>1, MarkType DEF IInv, TypeOK, Open
<1>3. CASE seq > window.highest
  <2>1. /\ window'.highest = seq
        /\ window'.bitmap = Shift(window.bitmap, seq - window.highest) \cup {0}
        /\ accepted' = accepted \cup {seq}
    BY <1>3 DEF Open, Mark
  <2>2. IsHighest'
    BY <1>1, <1>3, <2>1 DEF IInv, BitmapExact, IsHighest
  <2>3. ASSUME NEW b \in Positions
        PROVE  b \in window'.bitmap <=> window'.highest - b \in accepted'
    <3>1. b \in Int /\ b >= 0
      BY <2>3, WindowSizeAssumption DEF Positions
    <3>2. CASE b = 0
      BY <1>1, <2>1, <3>2
    <3>3. CASE b # 0 /\ b - (seq - window.highest) \in Positions
      <4>1. b \in window'.bitmap <=> b - (seq - window.highest) \in window.bitmap
        BY <2>1, <2>3, <3>3 DEF Shift
      <4>2. b - (seq - window.highest) \in window.bitmap
               <=> window.highest - (b - (seq - window.highest)) \in accepted
        BY <3>3 DEF IInv, BitmapExact
      <4>3. window.highest - (b - (seq - window.highest)) = seq - b /\ seq - b # seq
        BY <1>1, <3>1, <3>3
      <4> QED  BY <2>1, <4>1, <4>2, <4>3
    <3>4. CASE b # 0 /\ b - (seq - window.highest) \notin Positions
      <4>1. b \notin window'.bitmap
        BY <2>1, <3>4 DEF Shift, IInv, BitmapExact
      <4>2. seq - b > window.highest /\ seq - b # seq
        BY <1>1, <1>3, <2>3, <3>1, <3>4, WindowSizeAssumption DEF Positions
      <4>3. seq - b \notin accepted
        BY <1>1, <3>1, <4>2 DEF IInv, BitmapExact, IsHighest
      <4> QED  BY <2>1, <4>1, <4>2, <4>3
    <3> QED  BY <3>2, <3>3, <3>4
  <2>4. window'.bitmap \subseteq Positions
    BY <1>2 DEF TypeOK, Window
  <2>5. window'.bitmap = {b \in Positions : window'.highest - b \in accepted'}
    BY <2>3, <2>4
  <2> QED  BY <1>2, <2>2, <2>5 DEF IInv, BitmapExact
<1>4. CASE ~(seq > window.highest)
  <2>1. /\ window'.highest = window.highest
        /\ window'.bitmap = window.bitmap \cup {window.highest - seq}
        /\ accepted' = accepted \cup {seq}
    BY <1>1, <1>4 DEF Open, Mark, Window
  <2>2. IsHighest'
    BY <1>1, <1>4, <2>1 DEF IInv, BitmapExact, IsHighest
  <2>3. window.highest - seq \in Positions
    BY <1>1, <1>4, WindowSizeAssumption DEF Open, CanAccept, Positions
  <2>4. \A b \in Positions : window.highest - b = seq <=> b = window.highest - seq
    BY <1>1, WindowSizeAssumption DEF Positions
  <2>5. window'.bitmap = {b \in Positions : window'.highest - b \in accepted'}
    BY <2>1, <2>3, <2>4 DEF IInv, BitmapExact
  <2> QED  BY <1>2, <2>2, <2>5 DEF IInv, BitmapExact
<1> QED  BY <1>3, <1>4

\* The bitmap is exact in every reachable state.
LEMMA ReceiverInvariant == Spec => []IInv
<1>1. Init => IInv
  BY InitExact
<1>2. IInv /\ [Next]_vars => IInv'
  <2>1. ASSUME IInv, Next PROVE IInv'
    BY <2>1, OpenExact DEF Next
  <2>2. ASSUME IInv, UNCHANGED vars PROVE IInv'
    BY <2>2 DEF vars, IInv, TypeOK, BitmapExact, IsHighest
  <2> QED  BY <2>1, <2>2
<1> QED  BY <1>1, <1>2, PTL DEF Spec

\* For every window size, `open` answers an authentic frame exactly as it should:
\* it refuses what was opened before or is too old, and nothing else.
THEOREM WindowIsCorrect == Spec => []WindowCorrect
  BY ReceiverInvariant, ExactIsCorrect, PTL

\* The bitmap represents the opened sequence numbers exactly.
THEOREM BitmapIsExact == Spec => []BitmapExact
<1>1. IInv => BitmapExact
  BY DEF IInv
<1> QED  BY <1>1, ReceiverInvariant, PTL

\* No sequence number is opened twice.
THEOREM NoReplay == Spec => OpensOnce
<1>1. IInv /\ [Next]_vars
        => [\E s \in Sequence \ accepted : accepted' = accepted \cup {s}]_vars
  <2> SUFFICES ASSUME IInv, NEW seq \in Sequence, NEW authentic \in BOOLEAN,
                      Open(seq, authentic)
               PROVE  seq \notin accepted /\ accepted' = accepted \cup {seq}
    BY DEF Next
  <2> QED  BY ExactIsCorrect DEF Open, WindowCorrect
<1> QED  BY <1>1, ReceiverInvariant, PTL DEF Spec, OpensOnce
===============================================================================
