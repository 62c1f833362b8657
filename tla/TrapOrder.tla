----------------------------- MODULE TrapOrder -----------------------------
(***************************************************************************)
(* What traps promise to the program that is interrupted, and to the        *)
(* debugger: instructions finish or fault one after the other; a trap comes *)
(* between two of them and saves where to go on; an interrupt is taken only *)
(* behind an instruction, or a sleep, that was there with interrupts        *)
(* enabled; in debug mode nothing outside of it changes.                    *)
(*                                                                          *)
(* A request is pending from when it is made until it is served, and where *)
(* the lines hold their requests and the program does not take them back    *)
(* (Kept), an interrupt that is taken is one that is pending.               *)
(*                                                                          *)
(* What mepc is after a fetch fault is left open: there the code and the    *)
(* data sheet differ.  Two things are the code's own: the address match     *)
(* trigger saves the instruction that has just finished in dpc, and a fetch *)
(* fault behind an instruction that faults itself hides the first fault     *)
(* ("if several synchronous exceptions occur at once only the one with      *)
(* highest priority is triggered", docs/datasheet/cpu.adoc).                *)
(***************************************************************************)
EXTENDS Integers

CONSTANTS
  Adr,       (* Addresses of instructions.                                 *)
  Succ,      (* The address behind an instruction.                         *)
  Targets,   (* Where jumps go.                                            *)
  Irqs,      (* Interrupts, among them                                     *)
  Firqs,     (*   fast ones: a request is buffered until the program       *)
             (*   disables its channel or clears it                        *)
  Kept,      (* Kept[p]: the rules for requests that the system of p keeps *)
  Trigger,   (* The address match trigger.                                 *)
  mtvec, DebugAddr, ExceptionAddr   (* Entries.                            *)

VARIABLES
  prog,      (* the kind of the instruction at every address               *)
  here,      (* the first instruction that has not finished                *)
  last,      (* the last one that began                                    *)
  due,       (* what comes instead of the instruction here                 *)
  asleep, running,       (* waiting for an interrupt; in debug mode        *)
  enabled, was_enabled,  (* mstatus: mie, mpie                             *)
  mcause, mepc, dpc,
  step, armed,           (* dcsr and the trigger                           *)
  pending                (* interrupts that are requested and enabled      *)

vars == <<prog, here, last, due, asleep, running, enabled, was_enabled,
          mcause, mepc, dpc, step, armed, pending>>
mstatus == <<enabled, was_enabled>>
settings == <<step, armed>>

FetchFaults == {"ialign", "iaccess"}
Faults == {"illegal", "envcall", "break", "db_break", "lalign", "laccess", "salign", "saccess"}
(* What an instruction can raise. *)
Raises(k) ==
  CASE k = "illegal" -> {"illegal"}
    [] k = "ecall" -> {"envcall"}
    [] k = "ebreak" -> IF running THEN {"db_break"} ELSE {"break", "db_break"}
    [] k = "load" -> {"lalign", "laccess"}
    [] k = "store" -> {"salign", "saccess"}
    [] k \in {"dret", "w_dcsr"} -> IF running THEN {} ELSE {"illegal"}
    [] OTHER -> {}
IntoDebug(c) == c \in {"db_hw", "db_break", "debug"}
Fetchable(a) == prog[a] \notin {"unreachable", "misaligned"}
-----------------------------------------------------------------------------
Ready == due = "none" /\ ~asleep /\ Fetchable(here)

Begin ==
  /\ Ready /\ last' = here
  /\ UNCHANGED <<prog, here, due, asleep, running, mstatus, mcause, mepc, dpc, settings>>

(* What may be due behind an instruction and during sleep. *)
Due(d) ==
  \/ d = "irq" /\ enabled /\ ~running /\ ~step
  \/ d = "debug" /\ ~running

Finish ==
  /\ Ready /\ last' = here
  /\ \/ /\ \/ prog[here] \in {"alu", "wait", "load", "store", "fence", "w_mie", "w_mip"}
           \/ prog[here] = "w_tdata" /\ ~running
        /\ here' = Succ[here]
        /\ UNCHANGED <<asleep, running, mstatus, mepc, settings>>
     \/ /\ prog[here] = "jump"
        /\ here' \in Targets \union {Succ[here]}
        /\ UNCHANGED <<asleep, running, mstatus, mepc, settings>>
     \/ /\ prog[here] = "wfi"
        /\ here' = Succ[here] /\ asleep' = (~running /\ ~step)
        /\ UNCHANGED <<running, mstatus, mepc, settings>>
     \/ /\ prog[here] = "w_mstatus"
        /\ here' = Succ[here] /\ enabled' \in BOOLEAN /\ was_enabled' \in BOOLEAN
        /\ UNCHANGED <<asleep, running, mepc, settings>>
     \/ /\ prog[here] = "w_mepc"
        /\ here' = Succ[here]
        /\ mepc' = IF mcause \in Irqs THEN mepc ELSE Succ[mepc]
        /\ UNCHANGED <<asleep, running, mstatus, settings>>
     \/ /\ prog[here] = "w_dcsr" /\ running
        /\ here' = Succ[here] /\ step' \in BOOLEAN
        /\ UNCHANGED <<asleep, running, mstatus, mepc, armed>>
     \/ /\ prog[here] = "w_tdata" /\ running
        /\ here' = Succ[here] /\ armed' \in BOOLEAN
        /\ UNCHANGED <<asleep, running, mstatus, mepc, step>>
     \/ /\ prog[here] = "mret" /\ ~running
        /\ here' = mepc /\ enabled' = was_enabled /\ was_enabled' = TRUE
        /\ UNCHANGED <<asleep, running, mepc, settings>>
     \/ /\ prog[here] \in {"mret", "dret"} /\ running
        /\ here' = dpc /\ running' = (prog[here] = "mret")
        /\ UNCHANGED <<asleep, mstatus, mepc, settings>>
  /\ \/ due' = "none"
     \/ due' \in {"irq", "debug"} /\ Due(due')
     \/ due' = "db_hw" /\ armed /\ here \in Trigger /\ ~running
     \/ due' \in FetchFaults /\ ~Fetchable(here')
  /\ UNCHANGED <<prog, mcause, dpc>>

(* The instruction ends without an effect. *)
Fault ==
  /\ Ready /\ last' = here
  /\ due' \in Raises(prog[here])
  /\ UNCHANGED <<prog, here, asleep, running, mstatus, mcause, mepc, dpc, settings>>

FetchFault ==
  /\ ~Fetchable(here) \/ due \in Faults
  /\ due' \in FetchFaults
  /\ UNCHANGED <<prog, here, last, asleep, running, mstatus, mcause, mepc, dpc, settings>>

Wake ==
  /\ asleep /\ due = "none"
  /\ due' \in {"irq", "debug"} /\ Due(due')
  /\ UNCHANGED <<prog, here, last, asleep, running, mstatus, mcause, mepc, dpc, settings>>

(* A request of the debugger goes before an interrupt that waits. *)
Overtake ==
  /\ due = "irq" /\ due' = "debug"
  /\ UNCHANGED <<prog, here, last, asleep, running, mstatus, mcause, mepc, dpc, settings>>

(* The interrupts that may be served. *)
Entitled == IF Kept[prog] = {"lines", "writes"} THEN pending ELSE Irqs

Trap ==
  /\ due # "none" /\ ~IntoDebug(due) /\ ~running
  /\ mcause' \in IF due = "irq" THEN Entitled ELSE {due}
  /\ mepc' \in IF due \in FetchFaults THEN Adr ELSE {here}
  /\ enabled' = FALSE /\ was_enabled' = enabled
  /\ here' = mtvec /\ due' = "none" /\ asleep' = FALSE
  /\ UNCHANGED <<prog, last, running, dpc, settings>>

EnterDebug ==
  /\ IntoDebug(due) /\ ~running
  /\ running' = TRUE
  /\ dpc' = IF due = "debug" THEN here ELSE last
  /\ here' = DebugAddr /\ due' = "none" /\ asleep' = FALSE
  /\ UNCHANGED <<prog, last, mstatus, mcause, mepc, settings>>

(* A trap in debug mode saves nothing: back to the park loop. *)
Repark ==
  /\ due # "none" /\ running
  /\ here' = IF IntoDebug(due) THEN DebugAddr ELSE ExceptionAddr
  /\ due' = "none" /\ asleep' = FALSE
  /\ UNCHANGED <<prog, last, running, mstatus, mcause, mepc, dpc, settings>>

Request == UNCHANGED <<prog, here, last, due, asleep, running, mstatus, mcause, mepc, dpc, settings>>

Init == due = "none" /\ ~asleep /\ ~running /\ ~enabled /\ ~step /\ ~armed /\ pending = {}
Step == \/ Begin \/ Finish \/ Fault \/ FetchFault \/ Wake \/ Overtake
        \/ Trap \/ EnterDebug \/ Repark \/ Request

(* No fast request is lost: only the program takes it back. *)
TakesBack == Finish /\ prog[here] \in {"w_mie", "w_mip"}
Next ==
  /\ Step
  /\ pending' \subseteq Irqs
  /\ pending \intersect Firqs \subseteq pending' \/ TakesBack
Spec == Init /\ [][Next]_vars
=============================================================================
