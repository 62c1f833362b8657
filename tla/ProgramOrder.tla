---------------------------- MODULE ProgramOrder ----------------------------
(***************************************************************************)
(* What the front end of the CPU promises to the program: instructions are  *)
(* those of the memory, whole, and they are executed one after the other in *)
(* program order.  Interrupts and faults come between two instructions.     *)
(***************************************************************************)
EXTENDS Integers

CONSTANTS
  NumHalves,  (* Half-words of the address space.                          *)
  Handler,    (* mtvec                                                     *)
  NoWord      (* Stands for "no half-word".                                *)

VARIABLES
  prog,       (* The program, which stays: c: there are compressed         *)
              (* instructions; long: half-words that begin a 32-bit one;   *)
              (* targets: of its jumps and returns; barred: half-words     *)
              (* that must not be executed.                                *)
  here,       (* Address of the instruction that is executed, or the next. *)
  running     (* The instruction that is executed, or NoWord.              *)

progVars == <<prog, here, running>>

IsLong(h) == ~prog.c \/ h \in prog.long
At(h, d) == (h + d) % NumHalves
Whole(h) == [adr |-> h, hi |-> IF IsLong(h) THEN At(h, 1) ELSE NoWord]

Init == here = 0 /\ running = NoWord

Begin ==
  /\ running = NoWord
  /\ here \notin prog.barred
  /\ IsLong(here) => At(here, 1) \notin prog.barred
  /\ ~prog.c => here % 2 = 0
  /\ running' = Whole(here)
  /\ UNCHANGED <<prog, here>>

Finish ==
  /\ running # NoWord
  /\ here' = At(here, IF IsLong(here) THEN 2 ELSE 1)
  /\ running' = NoWord
  /\ UNCHANGED prog

Jump ==
  /\ running # NoWord
  /\ here' \in prog.targets
  /\ running' = NoWord
  /\ UNCHANGED prog

Trap ==
  /\ running = NoWord
  /\ here' = Handler
  /\ UNCHANGED <<prog, running>>

Next == Begin \/ Finish \/ Jump \/ Trap
Spec == Init /\ [][Next]_progVars
=============================================================================
