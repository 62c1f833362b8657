------------------------------ MODULE MCTraps ------------------------------
(***************************************************************************)
(* Seven addresses: a main program of two instructions for ever, a handler  *)
(* of one instruction and its return, and the two entries of the park loop  *)
(* with an address behind them.  Two interrupts, one of them fast.  The     *)
(* trigger is at the second instruction of the main program.                *)
(***************************************************************************)
EXTENDS Traps

MCSucc == [a \in Adr |-> CASE a = 1 -> 0 [] a = 3 -> 2 [] a = 6 -> 4 [] OTHER -> a + 1]
MCRank ==
  [c \in Causes |->
     CASE c = "ialign" -> 0 [] c = "iaccess" -> 1 [] c = "illegal" -> 2 [] c = "envcall" -> 3
       [] c = "break" -> 4 [] c = "salign" -> 5 [] c = "lalign" -> 6 [] c = "saccess" -> 7
       [] c = "laccess" -> 8 [] c = "db_hw" -> 9 [] c = "db_break" -> 10 [] c = "db_halt" -> 11
       [] c = "db_step" -> 12 [] c = "firq0" -> 13 [] c = "mti" -> 14]
MCMasks == {Irqs, {"mti"}}

Program(first, second, handler, park, exception) ==
  [a \in Adr |->
     CASE a = 0 -> first [] a = 1 -> second [] a = 2 -> handler [] a = 3 -> "mret"
       [] a = 4 -> park [] a = 5 -> exception [] a = 6 -> "dret"]
Tame ==
  {Program("w_mstatus", "w_mie", "w_mip", "dret", "dret"),
   Program("w_mstatus", "load", "w_mepc", "dret", "dret"),
   Program("jump", "fence", "alu", "w_tdata", "dret"),
   Program("wfi", "wait", "alu", "illegal", "dret"),
   Program("w_mstatus", "wfi", "alu", "w_dcsr", "dret"),
   Program("w_mstatus", "jump", "w_mstatus", "dret", "dret"),
   Program("alu", "w_dcsr", "w_mepc", "mret", "dret"),
   Program("illegal", "ecall", "w_mepc", "ebreak", "dret"),
   Program("store", "ebreak", "w_mepc", "w_dcsr", "dret"),
   Program("alu", "unreachable", "w_mepc", "load", "dret"),
   Program("misaligned", "dret", "w_mepc", "wfi", "dret"),
   Program("alu", "ebreak", "alu", "w_dcsr", "w_tdata")}
(* In a system that keeps no rule. *)
Wild ==
  {Program("w_mstatus", "w_mie", "w_mip", "illegal", "dret")}
MCPrograms == Tame \union Wild
MCKept == [p \in MCPrograms |-> IF p \in Tame THEN Rules ELSE {}]
MCLines == [p \in MCPrograms |-> {"lines"}]
=============================================================================
