------------------------------- MODULE Traps -------------------------------
(***************************************************************************)
(* Traps of the CPU (neorv32_cpu_control.vhd): the trap controller with its *)
(* exception and interrupt buffers, the trap CSRs, debug mode, and the      *)
(* execute engine as far as it begins and ends instructions and traps.      *)
(*                                                                          *)
(* One step is one clock cycle.  A program is the kind of the instruction   *)
(* at every address; what an instruction does to data is left out.          *)
(***************************************************************************)
EXTENDS Integers

CONSTANTS
  Adr, Succ, (* Addresses; the address behind an instruction.              *)
  Targets,   (* Where jumps go.                                            *)
  Programs,  (* Functions from addresses to kinds.                         *)
  Irqs,      (* Interrupt channels, among them                             *)
  Firqs,     (*   the fast ones, whose requests are buffered               *)
  mti,       (*   the timer interrupt, last in priority                    *)
  Masks,     (* Values of mie: after reset, and those the program writes.  *)
  Rank,      (* Priority of every cause of a trap, 0 first.                *)
  Kept,      (* Kept[p]: which rules for interrupt requests hold in the    *)
             (* system of program p, see LinesHeld and NotWithdrawn.       *)
  BootAddr,  (* CPU_BOOT_ADDR                                              *)
  mtvec, DebugAddr, ExceptionAddr, (* Entries: handler, park loop, park    *)
             (* loop after an exception                                    *)
  Trigger    (* Address of the hardware trigger (tdata2).                  *)

Kinds == {"alu", "wait", "load", "store", "jump", "fence", "illegal", "ecall", "ebreak", "mret",
          "dret", "wfi", "w_mie", "w_mip", "w_mstatus", "w_mepc", "w_dcsr",
          "w_tdata", "unreachable", "misaligned"}
CsrWrites == {"w_mie", "w_mip", "w_mstatus", "w_mepc", "w_dcsr", "w_tdata"}
Exceptions == {"ialign", "iaccess", "illegal", "envcall", "break", "salign", "lalign", "saccess",
               "laccess", "db_hw", "db_break"}
DataExceptions == {"salign", "lalign", "saccess", "laccess"}
DebugIrqs == {"db_halt", "db_step"}
Causes == Exceptions \union DebugIrqs \union Irqs
ToDebug == {"db_hw", "db_break"} \union DebugIrqs   \* cause(5)
Interrupts == DebugIrqs \union Irqs                 \* cause(cause'left)

ASSUME AddressAssumption ==
  /\ Succ \in [Adr -> Adr] /\ Targets \subseteq Adr
  /\ {BootAddr, mtvec, DebugAddr, ExceptionAddr} \subseteq Adr
ASSUME ProgramAssumption == Programs \subseteq [Adr -> Kinds]
Rules == {"lines", "writes"}
ASSUME KeptAssumption == Kept \in [Programs -> SUBSET Rules]
ASSUME IrqAssumption ==
  /\ Firqs \subseteq Irqs /\ mti \in Irqs /\ Masks \subseteq SUBSET Irqs
  /\ Irqs \intersect (Exceptions \union DebugIrqs \union {"none", "irq", "debug"}) = {}
ASSUME RankAssumption ==
  /\ Rank \in [Causes -> Nat]
  /\ \A c, d \in Causes : Rank[c] = Rank[d] => c = d
  /\ \A c \in Exceptions \ ToDebug, d \in ToDebug : Rank[c] < Rank[d]
  /\ \A c \in Exceptions, d \in Interrupts : Rank[c] < Rank[d]
  /\ \A c \in DebugIrqs, d \in Irqs : Rank[c] < Rank[d]
  /\ \A c \in Causes : Rank[c] <= Rank[mti]

VARIABLES
  prog,  (* the program                                                    *)
  ex,    (* execute_engine: state, pc, last (pc_last), next (next_pc),     *)
         (* branched                                                       *)
  sleep, (* execute_engine.sleep                                           *)
  trap,  (* trap_ctrl: exc (exc_buf), irq (irq_buf), start, cause          *)
  csr,   (* we, mie, nclr (mip_firq_nclr), mstatus_mie, mstatus_mpie,      *)
         (* mcause, mepc, dpc, step, ebreakm, tdata1_exe                   *)
  debug  (* debug_ctrl: state, ext_halt_req                                *)

vars == <<prog, ex, sleep, trap, csr, debug>>

States == {"DISPATCH", "TRAP_ENTER", "TRAP_START", "TRAP_EXIT", "TRAP_EXECUTE", "EXECUTE",
           "SYSTEM", "WORK", "BRANCH", "BRANCHED"}
-----------------------------------------------------------------------------
kind == prog[ex.pc]
running == debug.state \in {"ONLINE", "EXIT"}
Ack == ex.state = "TRAP_START"     \* env_start_ack
End == ex.state = "TRAP_EXIT"      \* env_end
Illegal == kind = "illegal" \/ (kind \in {"dret", "w_dcsr"} /\ ~running)
Flagged == "illegal" \in trap.exc

(* Execute engine, one action for each state. *)
FetchFault(a) ==
  CASE prog[a] = "unreachable" -> {"iaccess"}
    [] prog[a] = "misaligned" -> {"ialign"}
    [] OTHER -> {}

Fetched == IF ex.branched THEN ex.pc ELSE ex.next

GoTo(s) == ex' = [ex EXCEPT !.state = s]

(* Without an instruction from the issue engine, wait. *)
Dispatch(ready) ==
  /\ ex.state = "DISPATCH"
  /\ IF ~ready THEN UNCHANGED ex
     ELSE ex' = [ex EXCEPT !.pc = Fetched, !.branched = FALSE,
            !.state = IF sleep \/ trap.exc # {} \/ trap.start \/ FetchFault(Fetched) # {}
                      THEN "TRAP_ENTER" ELSE "EXECUTE"]

(* An illegal instruction takes the way of its opcode. *)
AfterExecute ==
  CASE kind = "illegal" -> {"DISPATCH", "WORK", "SYSTEM", "BRANCH", "TRAP_EXECUTE"}
    [] kind \in {"wait", "load", "store"} -> {"WORK"}
    [] kind = "jump" -> {"BRANCH"}
    [] kind = "fence" -> {"TRAP_EXECUTE"}
    [] kind = "alu" -> {"DISPATCH"}
    [] OTHER -> {"SYSTEM"}
Execute ==
  /\ ex.state = "EXECUTE"
  /\ \E s \in AfterExecute :
       ex' = [ex EXCEPT !.state = s, !.last = ex.pc, !.next = Succ[ex.pc]]

(* ALU_WAIT, MEM_REQ, MEM_WAIT, VECTOR_WAIT *)
Work(ready) ==
  /\ ex.state = "WORK"
  /\ IF ready \/ Flagged \/ trap.exc \intersect DataExceptions # {}
     THEN GoTo("DISPATCH") ELSE UNCHANGED ex

System ==
  /\ ex.state = "SYSTEM"
  /\ GoTo(IF kind \in {"mret", "dret"} /\ ~Flagged THEN "TRAP_EXIT" ELSE "DISPATCH")

Branch ==
  /\ ex.state = "BRANCH"
  /\ \E t \in Targets, taken \in BOOLEAN :
       ex' = [ex EXCEPT !.pc = t, !.state = IF taken THEN "BRANCHED" ELSE "DISPATCH"]

Branched ==
  /\ ex.state = "BRANCHED"
  /\ ex' = [ex EXCEPT !.branched = TRUE, !.state = "DISPATCH"]

(* Also the sleep mode. *)
TrapEnter ==
  /\ ex.state = "TRAP_ENTER"
  /\ IF trap.start THEN GoTo("TRAP_START") ELSE UNCHANGED ex

TrapStart ==
  /\ ex.state = "TRAP_START"
  /\ ex' = [ex EXCEPT !.state = "TRAP_EXECUTE",
       !.next = IF trap.cause \in ToDebug THEN DebugAddr
                ELSE IF running THEN ExceptionAddr ELSE mtvec]

TrapExit ==
  /\ ex.state = "TRAP_EXIT"
  /\ ex' = [ex EXCEPT !.state = "TRAP_EXECUTE", !.next = IF running THEN csr.dpc ELSE csr.mepc]

TrapExecute ==
  /\ ex.state = "TRAP_EXECUTE"
  /\ ex' = [ex EXCEPT !.state = "BRANCHED", !.pc = ex.next]

ExecuteEngine(ready) ==
  \/ Dispatch(ready) \/ Execute \/ Work(ready) \/ System \/ Branch \/ Branched
  \/ TrapEnter \/ TrapStart \/ TrapExit \/ TrapExecute

(* There is no sleep in debug mode and during single-stepping. *)
Sleep ==
  sleep' = /\ ~running /\ ~csr.step
           /\ \/ sleep /\ ex.state # "TRAP_EXECUTE"
              \/ ex.state = "SYSTEM" /\ kind = "wfi" /\ ~Flagged
-----------------------------------------------------------------------------
(* Trap controller.                                                         *)

BreakPoint == ex.state = "SYSTEM" /\ kind = "ebreak" /\ ~Flagged
trig_break == BreakPoint /\ (running \/ csr.ebreakm)
trig_hw == csr.tdata1_exe /\ ex.state = "EXECUTE" /\ ex.pc \in Trigger /\ ~running
trig_halt == debug.ext_halt_req /\ ~running
trig_step == csr.step /\ ~running

(* What the bus unit may report about a load or store that goes on. *)
Reports(ready) ==
  IF ex.state # "WORK" \/ ready \/ Flagged \/ trap.exc \intersect DataExceptions # {} THEN {{}}
  ELSE CASE kind = "load" -> {{}, {"lalign"}, {"laccess"}}
         [] kind = "store" -> {{}, {"salign"}, {"saccess"}}
         [] OTHER -> {{}}

Raised(ready) ==
  (IF ex.state = "DISPATCH" /\ ready THEN FetchFault(Fetched) ELSE {})
  \union (IF ex.state = "EXECUTE" /\ Illegal THEN {"illegal"} ELSE {})
  \union (IF ex.state = "SYSTEM" /\ kind = "ecall" /\ ~Flagged THEN {"envcall"} ELSE {})
  \union (IF BreakPoint /\ ~csr.ebreakm /\ ~running THEN {"break"} ELSE {})
  \union (IF trig_break THEN {"db_break"} ELSE {})
  \union (IF trig_hw THEN {"db_hw"} ELSE {})

(* Only the fast interrupts are buffered; requests are those mie lets pass. *)
IrqBuffer(requests) ==
  ((trap.irq \union requests) \intersect Firqs \intersect csr.nclr) \union (requests \ Firqs)
  \union (IF trig_halt THEN {"db_halt"} ELSE {})
  \union (IF trig_step THEN {"db_step"} ELSE {})

exc_fire == trap.exc # {}
irq_fire ==
  \/ trap.irq # {} /\ csr.mstatus_mie /\ ~running /\ ~csr.step
  \/ trap.irq \intersect DebugIrqs # {}

(* The last else of the priority encoder: the timer. *)
cause_nxt ==
  LET all == trap.exc \union trap.irq
  IN  IF all = {} THEN mti ELSE CHOOSE c \in all : \A d \in all : Rank[c] <= Rank[d]

(* To go on even under a permanent interrupt request, interrupts start a    *)
(* trap from an instruction that is executed, or from sleep, only.          *)
\* Mutant: nothing wakes.
IrqWindow_Awake == ex.state = "EXECUTE"
IrqWindow == ex.state \in {"EXECUTE", "TRAP_ENTER"}

\* Mutant: in the middle of an instruction.
EnvStart_AnyState ==
  IF trap.start THEN ~Ack ELSE exc_fire \/ irq_fire
EnvStart ==
  IF trap.start THEN ~Ack ELSE exc_fire \/ (irq_fire /\ IrqWindow)

TrapController(ready, requests) ==
  \E report \in Reports(ready) :
    trap' = [exc |-> IF Ack THEN {} ELSE trap.exc \union report \union Raised(ready),
             irq |-> IrqBuffer(requests),
             start |-> EnvStart,
             cause |-> IF trap.start THEN cause_nxt ELSE trap.cause]
-----------------------------------------------------------------------------
(* CSRs.  A write of the program takes effect a cycle after SYSTEM; the     *)
(* hardware updates them in all other cycles.                               *)
(* The handler of src/sw/lib/source/neorv32_rte.c goes on behind an         *)
(* instruction that raised an exception.                                    *)
ReturnAddress == IF csr.mcause \in Irqs THEN csr.mepc ELSE Succ[csr.mepc]

Writes ==
  LET k == prog[ex.last]
  IN  \/ k = "w_mie" /\ \E s \in Masks : csr' = [csr EXCEPT !.we = FALSE, !.mie = s, !.nclr = Firqs]
      \/ k = "w_mip" /\ \E s \in SUBSET Firqs : csr' = [csr EXCEPT !.we = FALSE, !.nclr = s]
      \/ k = "w_mstatus" /\ \E i, p \in BOOLEAN :
            csr' = [csr EXCEPT !.we = FALSE, !.mstatus_mie = i, !.mstatus_mpie = p, !.nclr = Firqs]
      \/ k = "w_dcsr" /\ \E t, b \in BOOLEAN :
            csr' = [csr EXCEPT !.we = FALSE, !.step = t, !.ebreakm = b, !.nclr = Firqs]
      \/ k = "w_tdata" /\ \E x \in (IF running THEN BOOLEAN ELSE {csr.tdata1_exe}) :
            csr' = [csr EXCEPT !.we = FALSE, !.tdata1_exe = x, !.nclr = Firqs]
      \/ k = "w_mepc" /\ csr' = [csr EXCEPT !.we = FALSE, !.nclr = Firqs, !.mepc = ReturnAddress]

Request == ex.state = "SYSTEM" /\ kind \in CsrWrites /\ ~Flagged

Epc(c) == IF c \in Interrupts THEN ex.pc ELSE ex.last
Context(c, into_handler, into_debug) ==
  IF into_handler
  THEN [c EXCEPT !.mcause = trap.cause, !.mepc = Epc(trap.cause),
                 !.mstatus_mie = FALSE, !.mstatus_mpie = csr.mstatus_mie]
  ELSE IF into_debug THEN [c EXCEPT !.dpc = Epc(trap.cause)]
  ELSE IF End /\ ~running
  THEN [c EXCEPT !.mstatus_mie = csr.mstatus_mpie, !.mstatus_mpie = TRUE]
  ELSE c

\* Mutant: the debugger's entry taken for a trap.
Updates_DebugCause ==
  csr' = Context([csr EXCEPT !.we = Request, !.nclr = Firqs], Ack /\ ~running, FALSE)
Updates ==
  csr' = Context([csr EXCEPT !.we = Request, !.nclr = Firqs],
                 Ack /\ ~running /\ trap.cause \notin ToDebug,
                 Ack /\ ~running /\ trap.cause \in ToDebug)

Csrs == IF csr.we THEN Writes ELSE Updates

(* The interrupts that are requested, enabled, and not being cleared.       *)
InForce == (trap.irq \intersect csr.mie) \ (Firqs \ csr.nclr)

(* What the data sheet asks of the sources of the interrupts ("a request    *)
(* has to stay at high-level until it is explicitly acknowledged by the CPU *)
(* software", docs/datasheet/cpu.adoc), as far as it takes: once a trap has *)
(* been started no line drops until it is entered.                          *)
LinesHeld == trap'.start => (trap.irq \intersect csr.mie) \ Firqs \subseteq trap'.irq

(* And what the code needs of the program: a fast channel is disabled after *)
(* its request has been cleared, and where an interrupt may be taken no     *)
(* write to mie or mip takes a request back.                                *)
NotWithdrawn ==
  /\ trap'.irq \intersect Firqs \intersect csr'.nclr \subseteq csr'.mie
  /\ csr.mstatus_mie \/ trap'.start => trap'.irq \intersect Irqs \subseteq InForce'

(* Debug mode.  The debug module holds its request until the CPU halts.     *)
DebugControl ==
  /\ debug' \in [ext_halt_req : BOOLEAN, state :
       {CASE debug.state = "OFFLINE" ->
               IF trig_halt \/ trig_break \/ trig_hw \/ trig_step THEN "PENDING" ELSE "OFFLINE"
          [] debug.state = "PENDING" ->
               IF Ack /\ trap.cause \in ToDebug THEN "ONLINE" ELSE "PENDING"
          [] debug.state = "ONLINE" ->
               IF ex.state = "SYSTEM" /\ kind = "dret" /\ ~Flagged THEN "EXIT" ELSE "ONLINE"
          [] debug.state = "EXIT" ->
               IF ex.state = "TRAP_EXECUTE" THEN "OFFLINE" ELSE "EXIT"}]
  /\ debug.ext_halt_req /\ ~running => debug'.ext_halt_req
-----------------------------------------------------------------------------
Cycle(ready) ==
  \E requests \in SUBSET csr.mie :
    /\ ExecuteEngine(ready) /\ Sleep /\ TrapController(ready, requests) /\ Csrs /\ DebugControl
    /\ "lines" \in Kept[prog] => LinesHeld
    /\ "writes" \in Kept[prog] => NotWithdrawn
    /\ UNCHANGED prog

Init ==
  /\ prog \in Programs
  /\ ex = [state |-> "BRANCHED", pc |-> BootAddr, last |-> BootAddr, next |-> BootAddr,
            branched |-> TRUE]
  /\ sleep = FALSE
  /\ trap = [exc |-> {}, irq |-> {}, start |-> FALSE, cause |-> "ialign"]
  /\ \E m \in Masks :
       csr = [we |-> FALSE, mie |-> m, nclr |-> Firqs, mstatus_mie |-> FALSE,
              mstatus_mpie |-> FALSE, mcause |-> "ialign", mepc |-> ex.pc, dpc |-> ex.pc,
              step |-> FALSE, ebreakm |-> FALSE, tdata1_exe |-> FALSE]
  /\ debug = [state |-> "OFFLINE", ext_halt_req |-> FALSE]

(* Only two states wait for somebody else. *)
Next == Cycle(TRUE) \/ (ex.state \in {"DISPATCH", "WORK"} /\ Cycle(FALSE))
Spec == Init /\ [][Next]_vars

(* The clock runs, and the issue engine, the co-processors and the bus      *)
(* answer.                                                                  *)
FairSpec == Spec /\ WF_vars(Next) /\ WF_vars(Cycle(TRUE))
-----------------------------------------------------------------------------
(* Refinement mapping to TrapOrder.  An instruction ends with its last      *)
(* cycle, that of a write to a CSR when the write is made; until then       *)
(* nothing is due.                                                          *)
InProgress == ex.state \in {"EXECUTE", "SYSTEM", "WORK", "BRANCH", "TRAP_EXIT"} \/ csr.we

(* An instruction that the trigger is at can be an ebreak into debug mode.  *)
DueException ==
  LET due == IF "db_break" \in trap.exc THEN trap.exc \ {"db_hw"} ELSE trap.exc
  IN  CHOOSE c \in due : \A d \in due : Rank[c] <= Rank[d]

InterruptClass(c) == IF c \in DebugIrqs THEN "debug" ELSE "irq"

DueNow ==
  CASE InProgress -> "none"
    [] ~InProgress /\ exc_fire -> DueException
    [] ~InProgress /\ ~exc_fire /\ Ack -> InterruptClass(trap.cause)
    [] ~InProgress /\ ~exc_fire /\ ~Ack /\ trap.start ->
         IF trap.irq \intersect DebugIrqs # {} THEN "debug" ELSE "irq"
    [] OTHER -> "none"

FaultPending == trap.exc \ {"db_hw", "ialign", "iaccess"} # {}
Here ==
  CASE ex.state = "EXECUTE" -> ex.pc
    [] ex.state # "EXECUTE" /\ (InProgress \/ FaultPending) -> ex.last
    [] OTHER ->
         IF ex.state = "TRAP_EXECUTE" \/ (ex.state = "DISPATCH" /\ ~ex.branched)
         THEN ex.next ELSE ex.pc

Order == INSTANCE TrapOrder WITH
  here <- Here, last <- ex.last, due <- DueNow,
  asleep <- sleep /\ ex.state \in {"DISPATCH", "TRAP_ENTER", "TRAP_START"},
  running <- debug.state = "ONLINE" \/ (debug.state = "EXIT" /\ ex.state # "TRAP_EXECUTE"),
  enabled <- csr.mstatus_mie, was_enabled <- csr.mstatus_mpie,
  mcause <- csr.mcause, mepc <- csr.mepc, dpc <- csr.dpc, step <- csr.step,
  armed <- csr.tdata1_exe, pending <- InForce
-----------------------------------------------------------------------------
(* Types; a CSR is written in DISPATCH, for an instruction that writes one; *)
(* mcause is never a cause of debug mode; the flag of an exception in       *)
(* debug mode never starts a trap into the program's handler.               *)
TypeOK ==
  /\ prog \in Programs
  /\ ex \in [state : States, pc : Adr, last : Adr, next : Adr, branched : BOOLEAN]
  /\ sleep \in BOOLEAN
  /\ trap \in [exc : SUBSET Exceptions, irq : SUBSET Interrupts, start : BOOLEAN, cause : Causes]
  /\ csr \in [we : BOOLEAN, mie : Masks, nclr : SUBSET Firqs, mstatus_mie : BOOLEAN,
              mstatus_mpie : BOOLEAN, mcause : Causes \ ToDebug, mepc : Adr, dpc : Adr,
              step : BOOLEAN, ebreakm : BOOLEAN, tdata1_exe : BOOLEAN]
  /\ debug \in [state : {"OFFLINE", "PENDING", "ONLINE", "EXIT"}, ext_halt_req : BOOLEAN]
  /\ csr.we => ex.state = "DISPATCH" /\ prog[ex.last] \in CsrWrites

(* Whatever arrives in whatever cycle, traps come between instructions,     *)
(* save the address to go on from, and debug mode leaves the program's      *)
(* trap state alone; no fast request is lost; and in systems that keep both *)
(* rules the handler is told of an interrupt that is requested and enabled. *)
ImplementsTrapOrder == Order!Spec

(* "Each request is buffered in the CPU control unit until the channel is   *)
(* either disabled (by clearing the according mie CSR bit) or the request   *)
(* is explicitly cleared" (docs/datasheet/cpu.adoc): no trap is started for *)
(* interrupts that have all been disabled or cleared before.                *)
StartedInForce ==
  [][~trap.start /\ trap'.start /\ trap.exc = {} /\ trap.irq \intersect DebugIrqs = {}
       => InForce # {}]_vars

(* The interrupts a program has enabled, pending. *)
Pending == trap.irq \intersect Irqs # {} /\ csr.mstatus_mie /\ ~running /\ ~csr.step

(* No interrupt that is enabled waits for ever, in sleep neither; the       *)
(* debugger gets the CPU out of everything; and under interrupts for ever   *)
(* "the interrupted program" gets on (comment at the irq_fire equation):    *)
(* between two of them is an instruction, or a sleep, with interrupts on.   *)
InterruptsServed ==
  /\ []<>~Pending
  /\ debug.ext_halt_req ~> running
  /\ []<>(Ack /\ trap.cause \in Irqs) => []<>((ex.state = "EXECUTE" /\ csr.mstatus_mie) \/ sleep)
=============================================================================
