---------------------------- MODULE BoundedQueue ----------------------------
(***************************************************************************)
(* What a FIFO buffer promises to the units on its two ports: a queue of at *)
(* most Depth items.  In one clock cycle an item can be put in, another one *)
(* taken out, or the whole queue cleared.                                   *)
(***************************************************************************)
EXTENDS Integers, Sequences

CONSTANTS
  Depth,  (* Number of items the queue can hold.                           *)
  Data    (* The items.                                                    *)

VARIABLES
  q,      (* The items in the queue, oldest first.                         *)
  out     (* Output register: the item that was the oldest a cycle ago.    *)

queueVars == <<q, out>>

Init == q = <<>> /\ out \in Data

(* The register shows anything when there was no item. *)
Show == out' \in Data /\ (q # <<>> => out' = Head(q))

Clear == q' = <<>> /\ Show

Idle == q' = q /\ Show

Put(x) ==
  /\ Len(q) < Depth
  /\ q' = Append(q, x)
  /\ Show

Get ==
  /\ q # <<>>
  /\ q' = Tail(q)
  /\ Show

(* Both in one cycle: the item taken is one that was there before. *)
PutGet(x) ==
  /\ q # <<>> /\ Len(q) < Depth
  /\ q' = Append(Tail(q), x)
  /\ Show

Next == Clear \/ Idle \/ Get \/ \E x \in Data : Put(x) \/ PutGet(x)

Spec == Init /\ [][Next]_queueVars
=============================================================================
