------------------------------ MODULE Coverage ------------------------------
(***************************************************************************)
(* What a vector loop owes its caller: each sweep over the elements 0 to    *)
(* n - 1 takes the next elements in order, at least one and at most cap at  *)
(* a time, none of them twice and none outside the array, and ends only     *)
(* when none is left.                                                       *)
(***************************************************************************)
EXTENDS Integers

VARIABLES
  n,      (* Elements of a sweep.                                          *)
  cap,    (* Elements that fit into a group of vector registers.           *)
  rest    (* Elements the current sweep has not taken yet.                 *)

coverVars == <<n, cap, rest>>

Elements == 0 .. n - 1

Init ==
  /\ n \in Nat \ {0}
  /\ cap \in Nat \ {0}
  /\ rest = {}

Sweep ==
  /\ rest = {}
  /\ rest' = Elements
  /\ UNCHANGED <<n, cap>>

(* The elements lo to hi, lo being the first that is left. *)
Take ==
  /\ \E lo, hi \in rest :
       /\ \A x \in rest : lo <= x
       /\ lo <= hi /\ hi < lo + cap
       /\ rest' = {x \in rest : x > hi}
  /\ UNCHANGED <<n, cap>>

Next == Sweep \/ Take

Spec == Init /\ [][Next]_coverVars
=============================================================================
