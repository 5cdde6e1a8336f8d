------------------------------- MODULE MCSession -------------------------------
(* Instances of Session for TLC. *)
EXTENDS Session

Aligned == [d \in Device |-> 0]              \* all wall clocks agree

Apart == [d \in Device |-> IF d = 1 THEN 2 ELSE 0]   \* clocks Skew apart
===============================================================================
