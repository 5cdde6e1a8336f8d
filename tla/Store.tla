--------------------------------- MODULE Store ---------------------------------
(***************************************************************************)
(* What the services expect of their state file: a start finds the value   *)
(* of the last confirmed write, or of a write that was begun after it and  *)
(* not confirmed.  It never finds anything else, and it finds nothing only *)
(* if no write was ever confirmed.                                         *)
(***************************************************************************)
EXTENDS Naturals

CONSTANT Absent     \* no state file

VARIABLES
  confirmed,   \* value of the last write that succeeded
  begun,       \* values of the writes begun after that
  memory       \* the process's own copy, Absent before it has read or made one

vars == <<confirmed, begun, memory>>

Init == confirmed = Absent /\ begun = {} /\ memory = Absent

\* A process that has read nothing makes a first value only if none was confirmed.
Begin ==
  /\ memory # Absent \/ confirmed = Absent
  /\ memory' \in Nat
  /\ begun' = begun \cup {memory'}
  /\ UNCHANGED confirmed

Confirm ==
  /\ memory \in begun
  /\ confirmed' = memory
  /\ begun' = {}
  /\ UNCHANGED memory

Start ==
  /\ memory' \in {confirmed} \cup begun
  /\ UNCHANGED <<confirmed, begun>>

Stop == memory' = Absent /\ UNCHANGED <<confirmed, begun>>

Next == Begin \/ Confirm \/ Start \/ Stop

Spec == Init /\ [][Next]_vars
================================================================================
