---------------------------- MODULE Traps_proofs ----------------------------
(***************************************************************************)
(* Proofs about traps, for every program, set of interrupts and priority    *)
(* that the assumptions of Traps allow.                                     *)
(***************************************************************************)
EXTENDS Traps, WellFoundedInduction, TLAPS

-----------------------------------------------------------------------------
(* The inductive invariant.                                                 *)

Between == {"DISPATCH", "TRAP_ENTER", "TRAP_START", "TRAP_EXECUTE"}
Inside == {"SYSTEM", "WORK", "BRANCH", "TRAP_EXIT"}

(* What has begun is an instruction, and it is in a state of its kind.      *)
Placed ==
  /\ ex.state = "EXECUTE" => kind \notin {"unreachable", "misaligned"}
  /\ ex.state = "SYSTEM" =>
       kind \in {"illegal", "ecall", "ebreak", "mret", "dret", "wfi"} \union CsrWrites
  /\ ex.state = "WORK" => kind \in {"illegal", "wait", "load", "store"}
  /\ ex.state = "BRANCH" => kind \in {"illegal", "jump"}
  /\ ex.state = "TRAP_EXIT" => kind \in {"mret", "dret"}
  /\ ex.state \in Inside => ex.last = ex.pc
  /\ ex.state \in Inside \/ csr.we => ex.next = Succ[ex.last]
  /\ ex.branched => ex.state \in {"DISPATCH", "BRANCHED"} /\ ~csr.we

(* The flags that are up while an instruction is in progress are its own.   *)
Owned ==
  /\ ex.state = "EXECUTE" => trap.exc = {} /\ ~trap.start
  /\ ex.state \in Inside =>
       /\ trap.exc \subseteq {"illegal", "db_hw"} \union DataExceptions
       /\ "illegal" \in trap.exc <=> Illegal
       /\ ex.state # "WORK" => trap.exc \intersect DataExceptions = {}
       /\ trap.exc \intersect {"lalign", "laccess"} # {} => kind = "load"
       /\ trap.exc \intersect {"salign", "saccess"} # {} => kind = "store"
  /\ csr.we => trap.exc \subseteq {"db_hw"} /\ (prog[ex.last] = "w_dcsr" => running)
  /\ (ex.state \in Inside \/ csr.we) /\ "db_hw" \in trap.exc =>
       csr.tdata1_exe /\ ex.last \in Trigger /\ ~running
  /\ trap.exc \intersect {"ialign", "iaccess"} # {} => ex.state \in {"TRAP_ENTER", "TRAP_START"}

(* A trap that was started while an instruction was in progress, and for no *)
(* exception, was started by an interrupt that may interrupt it.            *)
Interruptible ==
  (ex.state \in Inside \/ csr.we) /\ trap.start /\ trap.exc = {} =>
    trap.irq \intersect DebugIrqs # {} \/ (csr.mstatus_mie /\ ~running /\ ~csr.step)

Sleeping ==
  sleep => /\ ex.state \in Between
           /\ ~csr.we
           /\ ex.state # "TRAP_EXECUTE" => ~running /\ ~csr.step

(* TRAP_ENTER waits only in sleep; in TRAP_START the cause stands.          *)
IsFirst(c, all) == c \in all /\ \A d \in all : Rank[c] <= Rank[d]
Started ==
  /\ ex.state = "TRAP_ENTER" => sleep \/ trap.exc # {} \/ trap.start
  /\ ex.state = "TRAP_START" =>
       /\ trap.start
       /\ trap.exc # {} => IsFirst(trap.cause, trap.exc)
       /\ trap.exc = {} => trap.cause \in Interrupts

(* Requests of the debugger stay until they are served.                     *)
Requested ==
  /\ ~running => /\ "db_halt" \in trap.irq => debug.ext_halt_req
                 /\ "db_step" \in trap.irq => csr.step
  /\ running /\ trap.irq \intersect DebugIrqs # {} => ex.state = "TRAP_EXECUTE" /\ ~trap.start

(* Debug mode knows of every way into it, and of its way out.               *)
Debugging ==
  /\ debug.state = "OFFLINE" =>
       /\ trap.exc \intersect ToDebug = {} /\ trap.irq \intersect ToDebug = {}
       /\ ex.state = "TRAP_START" => trap.cause \notin ToDebug
  /\ debug.state = "EXIT" => ex.state \in {"TRAP_EXIT", "TRAP_EXECUTE"} /\ trap.exc = {}
  /\ ex.state = "TRAP_EXIT" => (kind = "dret" <=> debug.state = "EXIT")

(* Where the rules for requests are kept: the buffers hold what is in force *)
(* while interrupts are enabled or a trap has been started, so that there   *)
(* is something to serve, and the cause that stands is that of such a one.  *)
Rightful ==
  Kept[prog] = Rules =>
    /\ trap.irq \intersect Firqs \intersect csr.nclr \subseteq csr.mie
    /\ csr.mstatus_mie \/ trap.start => trap.irq \intersect Irqs \subseteq InForce
    /\ trap.start /\ trap.exc = {} => trap.irq # {}
    /\ ex.state = "TRAP_START" /\ trap.exc = {} /\ trap.cause \in Irqs => trap.cause \in InForce

Inv == /\ TypeOK /\ Placed /\ Owned /\ Interruptible /\ Sleeping
       /\ Started /\ Requested /\ Debugging /\ Rightful

-----------------------------------------------------------------------------
(* The priority encoder.                                                    *)

(* Every set of causes has a first one.                                     *)
LEMMA FirstExists ==
  ASSUME NEW all \in SUBSET Causes, all # {}
  PROVE  \E c \in all : \A d \in all : Rank[c] <= Rank[d]
<1> DEFINE ranks == {Rank[c] : c \in all}
<1>1. ranks \subseteq Nat /\ ranks # {}
  BY RankAssumption
<1> HIDE DEF ranks
<1>2. PICK r \in ranks : \A q \in ranks : ~(<<q, r>> \in OpToRel(<, Nat))
  BY <1>1, WFMin, NatLessThanWellFounded
<1>3. \A q \in ranks : ~(q < r)
  BY <1>1, <1>2, Zenon DEF OpToRel
<1>4. PICK c \in all : Rank[c] = r
  BY DEF ranks
<1>5. \A d \in all : Rank[d] \in ranks /\ Rank[d] \in Nat
  BY <1>1 DEF ranks
<1>6. QED  BY <1>3, <1>4, <1>5

(* The cause is the first of what is pending, or the timer.                 *)
LEMMA CauseFirst ==
  ASSUME trap.exc \subseteq Exceptions, trap.irq \subseteq Interrupts
  PROVE  /\ cause_nxt \in Causes
         /\ trap.exc # {} => IsFirst(cause_nxt, trap.exc)
         /\ trap.exc = {} => cause_nxt \in Interrupts
         /\ trap.exc = {} /\ trap.irq \intersect DebugIrqs # {} => cause_nxt \in DebugIrqs
         /\ trap.exc = {} /\ trap.irq \intersect DebugIrqs = {} => cause_nxt \in Irqs
         /\ cause_nxt \in trap.exc \union trap.irq \union {mti}
         /\ trap.exc = {} /\ trap.irq # {} => cause_nxt \in trap.irq
<1> DEFINE all == trap.exc \union trap.irq
<1>1. all \subseteq Causes
  BY DEF Causes, Interrupts
<1>2. CASE all = {}
  BY <1>2, IrqAssumption DEF cause_nxt, Causes, Interrupts
<1>3. CASE all # {}
  <2>1. cause_nxt \in all /\ \A d \in all : Rank[cause_nxt] <= Rank[d]
    BY <1>1, <1>3, FirstExists DEF cause_nxt
  <2>2. \A c \in all : Rank[c] \in Nat
    BY <1>1, RankAssumption
  <2>3. trap.exc # {} => cause_nxt \in trap.exc
    BY <2>1, <2>2, RankAssumption DEF Interrupts
  <2>4. trap.exc = {} => cause_nxt \in trap.irq
    BY <2>1
  <2>5. trap.exc = {} /\ trap.irq \intersect DebugIrqs # {} => cause_nxt \in DebugIrqs
    BY <2>1, <2>2, <2>4, RankAssumption DEF Interrupts
  <2>6. QED  BY <1>1, <2>1, <2>3, <2>4, <2>5 DEF IsFirst, Interrupts
<1>4. QED  BY <1>2, <1>3

-----------------------------------------------------------------------------
(* Types.                                                                   *)

(* The kinds of instructions.                                               *)
LEMMA KindType == TypeOK => \A a \in Adr : prog[a] \in Kinds
  BY ProgramAssumption DEF TypeOK

(* A step of the execute engine leaves its registers in their types.        *)
LEMMA EngineType ==
  ASSUME TypeOK, NEW ready \in BOOLEAN, ExecuteEngine(ready)
  PROVE  ex' \in [state : States, pc : Adr, last : Adr, next : Adr, branched : BOOLEAN]
<1>1. /\ ex \in [state : States, pc : Adr, last : Adr, next : Adr, branched : BOOLEAN]
      /\ csr.dpc \in Adr /\ csr.mepc \in Adr
  BY DEF TypeOK
<1>2. CASE Dispatch(ready)  BY <1>1, <1>2 DEF Dispatch, Fetched, States
<1>3. CASE Execute
  <2>1. PICK s \in AfterExecute :
          ex' = [ex EXCEPT !.state = s, !.last = ex.pc, !.next = Succ[ex.pc]]
    BY <1>3 DEF Execute
  <2>2. AfterExecute \subseteq States
    BY DEF AfterExecute, States
  <2>3. QED  BY <1>1, <2>1, <2>2, AddressAssumption
<1>4. CASE Work(ready)  BY <1>1, <1>4 DEF Work, GoTo, States
<1>5. CASE System  BY <1>1, <1>5 DEF System, GoTo, States
<1>6. CASE Branch  BY <1>1, <1>6, AddressAssumption DEF Branch, States
<1>7. CASE Branched  BY <1>1, <1>7 DEF Branched, States
<1>8. CASE TrapEnter  BY <1>1, <1>8 DEF TrapEnter, GoTo, States
<1>9. CASE TrapStart  BY <1>1, <1>9, AddressAssumption DEF TrapStart, States
<1>10. CASE TrapExit  BY <1>1, <1>10 DEF TrapExit, States
<1>11. CASE TrapExecute  BY <1>1, <1>11 DEF TrapExecute, States
<1>12. QED
  BY <1>2, <1>3, <1>4, <1>5, <1>6, <1>7, <1>8, <1>9, <1>10, <1>11 DEF ExecuteEngine

(* Only the kinds of exceptions there are, are raised.                      *)
LEMMA RaisedType ==
  ASSUME NEW ready \in BOOLEAN
  PROVE  Raised(ready) \subseteq Exceptions /\ \A report \in Reports(ready) : report \subseteq DataExceptions
<1>1. FetchFault(Fetched) \subseteq Exceptions
  BY DEF FetchFault, Exceptions
<1>2. Raised(ready) \subseteq Exceptions
  BY <1>1 DEF Raised, Exceptions
<1>3. \A report \in Reports(ready) : report \subseteq DataExceptions
  BY DEF Reports, DataExceptions
<1>4. QED  BY <1>2, <1>3

(* The trap controller leaves its registers in their types.                 *)
LEMMA ControllerType ==
  ASSUME TypeOK, NEW ready \in BOOLEAN, NEW requests \in SUBSET csr.mie,
         TrapController(ready, requests)
  PROVE  trap' \in [exc : SUBSET Exceptions, irq : SUBSET Interrupts, start : BOOLEAN,
                    cause : Causes]
<1>1. /\ trap \in [exc : SUBSET Exceptions, irq : SUBSET Interrupts, start : BOOLEAN,
                   cause : Causes]
      /\ csr.mie \in Masks
  BY DEF TypeOK
<1>2. PICK report \in Reports(ready) :
        trap' = [exc |-> IF Ack THEN {} ELSE trap.exc \union report \union Raised(ready),
                 irq |-> IrqBuffer(requests),
                 start |-> EnvStart,
                 cause |-> IF trap.start THEN cause_nxt ELSE trap.cause]
  BY DEF TrapController
<1>3. trap.exc \union report \union Raised(ready) \subseteq Exceptions
  BY <1>1, RaisedType DEF DataExceptions, Exceptions
<1>4. IrqBuffer(requests) \subseteq Interrupts
  BY <1>1, IrqAssumption DEF IrqBuffer, Interrupts, DebugIrqs
<1>5. EnvStart \in BOOLEAN
  BY DEF EnvStart, Ack, exc_fire, irq_fire, IrqWindow
<1>6. cause_nxt \in Causes
  BY <1>1, CauseFirst
<1>7. QED  BY <1>1, <1>2, <1>3, <1>4, <1>5, <1>6

CsrType == [we : BOOLEAN, mie : Masks, nclr : SUBSET Firqs, mstatus_mie : BOOLEAN,
            mstatus_mpie : BOOLEAN, mcause : Causes \ ToDebug, mepc : Adr, dpc : Adr,
            step : BOOLEAN, ebreakm : BOOLEAN, tdata1_exe : BOOLEAN]

(* So does a write of the program, and it is over after one cycle.          *)
LEMMA WritesType ==
  ASSUME TypeOK, Writes
  PROVE  csr' \in CsrType /\ csr'.we = FALSE
<1>1. csr \in CsrType
  BY DEF TypeOK, CsrType
<1>2. ReturnAddress \in Adr
  BY <1>1, AddressAssumption DEF ReturnAddress, CsrType
<1> DEFINE k == prog[ex.last]
<1>3. CASE k = "w_mie" /\ \E s \in Masks :
              csr' = [csr EXCEPT !.we = FALSE, !.mie = s, !.nclr = Firqs]
  BY <1>1, <1>3 DEF CsrType
<1>4. CASE k = "w_mip" /\ \E s \in SUBSET Firqs : csr' = [csr EXCEPT !.we = FALSE, !.nclr = s]
  BY <1>1, <1>4 DEF CsrType
<1>5. CASE k = "w_mstatus" /\ \E i, p \in BOOLEAN :
            csr' = [csr EXCEPT !.we = FALSE, !.mstatus_mie = i, !.mstatus_mpie = p, !.nclr = Firqs]
  BY <1>1, <1>5 DEF CsrType
<1>6. CASE k = "w_dcsr" /\ \E t, b \in BOOLEAN :
            csr' = [csr EXCEPT !.we = FALSE, !.step = t, !.ebreakm = b, !.nclr = Firqs]
  BY <1>1, <1>6 DEF CsrType
<1>7. CASE k = "w_tdata" /\ \E x \in (IF running THEN BOOLEAN ELSE {csr.tdata1_exe}) :
            csr' = [csr EXCEPT !.we = FALSE, !.tdata1_exe = x, !.nclr = Firqs]
  <2>1. csr.tdata1_exe \in BOOLEAN
    BY <1>1 DEF CsrType
  <2>2. PICK x \in BOOLEAN : csr' = [csr EXCEPT !.we = FALSE, !.tdata1_exe = x, !.nclr = Firqs]
    BY <1>7, <2>1
  <2>3. QED  BY <1>1, <2>2 DEF CsrType
<1>8. CASE k = "w_mepc" /\ csr' = [csr EXCEPT !.we = FALSE, !.nclr = Firqs, !.mepc = ReturnAddress]
  BY <1>1, <1>2, <1>8 DEF CsrType
<1>9. QED  BY <1>3, <1>4, <1>5, <1>6, <1>7, <1>8 DEF Writes

(* And so do the updates of the hardware.                                   *)
LEMMA UpdatesType ==
  ASSUME TypeOK, Updates
  PROVE  csr' \in CsrType /\ csr'.we = Request
<1>1. csr \in CsrType /\ trap.cause \in Causes /\ ex.pc \in Adr /\ ex.last \in Adr
  BY DEF TypeOK, CsrType
<1>2. Epc(trap.cause) \in Adr /\ Request \in BOOLEAN
  BY <1>1 DEF Epc, Request
<1> DEFINE c == [csr EXCEPT !.we = Request, !.nclr = Firqs]
<1>3. c \in CsrType /\ c.we = Request
  BY <1>1, <1>2 DEF CsrType
<1>4. csr' = Context(c, Ack /\ ~running /\ trap.cause \notin ToDebug,
                       Ack /\ ~running /\ trap.cause \in ToDebug)
  BY DEF Updates
<1> HIDE DEF c
<1>5. QED  BY <1>1, <1>2, <1>3, <1>4 DEF Context, CsrType

(* A cycle of debug mode.                                                   *)
LEMMA DebugNext ==
  ASSUME TypeOK, DebugControl
  PROVE  /\ debug' \in [state : {"OFFLINE", "PENDING", "ONLINE", "EXIT"}, ext_halt_req : BOOLEAN]
         /\ debug.state = "OFFLINE" => debug'.state =
              IF trig_halt \/ trig_break \/ trig_hw \/ trig_step THEN "PENDING" ELSE "OFFLINE"
         /\ debug.state = "PENDING" => debug'.state =
              IF Ack /\ trap.cause \in ToDebug THEN "ONLINE" ELSE "PENDING"
         /\ debug.state = "ONLINE" => debug'.state =
              IF ex.state = "SYSTEM" /\ kind = "dret" /\ ~Flagged THEN "EXIT" ELSE "ONLINE"
         /\ debug.state = "EXIT" => debug'.state =
              IF ex.state = "TRAP_EXECUTE" THEN "OFFLINE" ELSE "EXIT"
         /\ debug.ext_halt_req /\ ~running => debug'.ext_halt_req
<1>1. debug.state \in {"OFFLINE", "PENDING", "ONLINE", "EXIT"}
  BY DEF TypeOK
<1>2. CASE debug.state = "OFFLINE"  BY <1>2 DEF DebugControl
<1>3. CASE debug.state = "PENDING"  BY <1>3 DEF DebugControl
<1>4. CASE debug.state = "ONLINE"  BY <1>4 DEF DebugControl
<1>5. CASE debug.state = "EXIT"  BY <1>5 DEF DebugControl
<1>6. QED  BY <1>1, <1>2, <1>3, <1>4, <1>5

(* A cycle of the execute engine, for each of its states.                   *)
LEMMA EngineNext ==
  ASSUME TypeOK, NEW ready \in BOOLEAN, ExecuteEngine(ready)
  PROVE
  /\ ex.state = "DISPATCH" /\ ~ready => ex' = ex
  /\ ex.state = "DISPATCH" /\ ready =>
       /\ ex'.pc = Fetched /\ ~ex'.branched /\ ex'.last = ex.last /\ ex'.next = ex.next
       /\ ex'.state = IF sleep \/ trap.exc # {} \/ trap.start \/ FetchFault(Fetched) # {}
                      THEN "TRAP_ENTER" ELSE "EXECUTE"
  /\ ex.state = "EXECUTE" =>
       /\ ex'.state \in AfterExecute
       /\ ex'.pc = ex.pc /\ ex'.last = ex.pc /\ ex'.next = Succ[ex.pc]
       /\ ex'.branched = ex.branched
  /\ ex.state \in {"WORK", "SYSTEM", "TRAP_ENTER"} =>
       /\ ex'.pc = ex.pc /\ ex'.last = ex.last /\ ex'.next = ex.next
       /\ ex'.branched = ex.branched
  /\ ex.state = "WORK" => ex'.state =
       IF ready \/ Flagged \/ trap.exc \intersect DataExceptions # {} THEN "DISPATCH" ELSE "WORK"
  /\ ex.state = "SYSTEM" => ex'.state =
       IF kind \in {"mret", "dret"} /\ ~Flagged THEN "TRAP_EXIT" ELSE "DISPATCH"
  /\ ex.state = "TRAP_ENTER" => ex'.state = IF trap.start THEN "TRAP_START" ELSE "TRAP_ENTER"
  /\ ex.state = "BRANCH" =>
       /\ ex'.pc \in Targets /\ ex'.last = ex.last /\ ex'.next = ex.next
       /\ ex'.state \in {"BRANCHED", "DISPATCH"} /\ ex'.branched = ex.branched
  /\ ex.state = "BRANCHED" =>
       /\ ex'.pc = ex.pc /\ ex'.last = ex.last /\ ex'.next = ex.next
       /\ ex'.branched /\ ex'.state = "DISPATCH"
  /\ ex.state \in {"TRAP_START", "TRAP_EXIT"} =>
       /\ ex'.pc = ex.pc /\ ex'.last = ex.last /\ ex'.branched = ex.branched
       /\ ex'.state = "TRAP_EXECUTE"
  /\ ex.state = "TRAP_START" => ex'.next =
       IF trap.cause \in ToDebug THEN DebugAddr ELSE IF running THEN ExceptionAddr ELSE mtvec
  /\ ex.state = "TRAP_EXIT" => ex'.next = IF running THEN csr.dpc ELSE csr.mepc
  /\ ex.state = "TRAP_EXECUTE" =>
       /\ ex'.pc = ex.next /\ ex'.last = ex.last /\ ex'.next = ex.next
       /\ ex'.branched = ex.branched /\ ex'.state = "BRANCHED"
<1>1. ex \in [state : States, pc : Adr, last : Adr, next : Adr, branched : BOOLEAN]
  BY DEF TypeOK
<1>2. CASE Dispatch(ready)  BY <1>1, <1>2 DEF Dispatch
<1>3. CASE Execute  BY <1>1, <1>3 DEF Execute
<1>4. CASE Work(ready)  BY <1>1, <1>4 DEF Work, GoTo
<1>5. CASE System  BY <1>1, <1>5 DEF System, GoTo
<1>6. CASE Branch  BY <1>1, <1>6 DEF Branch
<1>7. CASE Branched  BY <1>1, <1>7 DEF Branched
<1>8. CASE TrapEnter  BY <1>1, <1>8 DEF TrapEnter, GoTo
<1>9. CASE TrapStart  BY <1>1, <1>9 DEF TrapStart
<1>10. CASE TrapExit  BY <1>1, <1>10 DEF TrapExit
<1>11. CASE TrapExecute  BY <1>1, <1>11 DEF TrapExecute
<1>12. QED
  BY <1>2, <1>3, <1>4, <1>5, <1>6, <1>7, <1>8, <1>9, <1>10, <1>11 DEF ExecuteEngine

(* The exception flags, for each state.                                     *)
LEMMA FlagsNext ==
  ASSUME TypeOK, NEW ready \in BOOLEAN, Cycle(ready)
  PROVE
  /\ ex.state = "DISPATCH" => trap'.exc = trap.exc \union IF ready THEN FetchFault(Fetched) ELSE {}
  /\ ex.state = "EXECUTE" =>
       /\ trap.exc \subseteq trap'.exc /\ trap'.exc \subseteq trap.exc \union {"illegal", "db_hw"}
       /\ "illegal" \in trap'.exc <=> "illegal" \in trap.exc \/ Illegal
       /\ "db_hw" \in trap'.exc <=> "db_hw" \in trap.exc \/ trig_hw
  /\ ex.state = "SYSTEM" => trap'.exc = trap.exc \union
       (IF kind = "ecall" /\ ~Flagged THEN {"envcall"} ELSE {}) \union
       (IF BreakPoint /\ ~csr.ebreakm /\ ~running THEN {"break"} ELSE {}) \union
       (IF trig_break THEN {"db_break"} ELSE {})
  /\ ex.state = "WORK" => \E report \in Reports(ready) : trap'.exc = trap.exc \union report
  /\ ex.state = "TRAP_START" => trap'.exc = {}
  /\ ex.state \notin {"DISPATCH", "EXECUTE", "SYSTEM", "WORK", "TRAP_START"} => trap'.exc = trap.exc
<1>0. PICK requests \in SUBSET csr.mie : TrapController(ready, requests)
  BY DEF Cycle
<1>1. PICK report \in Reports(ready) :
        trap'.exc = IF Ack THEN {} ELSE trap.exc \union report \union Raised(ready)
  <2>1. PICK report \in Reports(ready) :
          trap' = [exc |-> IF Ack THEN {} ELSE trap.exc \union report \union Raised(ready),
                   irq |-> IrqBuffer(requests),
                   start |-> EnvStart,
                   cause |-> IF trap.start THEN cause_nxt ELSE trap.cause]
    BY <1>0 DEF TrapController
  <2>2. QED  BY <2>1
<1>2. ex.state # "WORK" => report = {}
  BY DEF Reports
<1>3. CASE ex.state = "DISPATCH"
  BY <1>1, <1>2, <1>3 DEF Raised, BreakPoint, trig_break, trig_hw, Ack
<1>4. CASE ex.state = "EXECUTE"
  BY <1>1, <1>2, <1>4 DEF Raised, BreakPoint, trig_break, trig_hw, Ack
<1>5. CASE ex.state = "SYSTEM"
  BY <1>1, <1>2, <1>5 DEF Raised, trig_hw, Ack
<1>6. CASE ex.state = "WORK"
  BY <1>1, <1>6 DEF Raised, BreakPoint, trig_break, trig_hw, Ack
<1>7. CASE ex.state = "TRAP_START"
  BY <1>1, <1>7 DEF Ack
<1>8. CASE ex.state \notin {"DISPATCH", "EXECUTE", "SYSTEM", "WORK", "TRAP_START"}
  BY <1>1, <1>2, <1>8 DEF Raised, BreakPoint, trig_break, trig_hw, Ack
<1>9. QED  BY <1>3, <1>4, <1>5, <1>6, <1>7, <1>8

(* The rest of the trap controller.                                         *)
LEMMA SignalsNext ==
  ASSUME TypeOK, NEW ready \in BOOLEAN, Cycle(ready)
  PROVE  /\ trap'.start = EnvStart
         /\ trap'.cause = IF trap.start THEN cause_nxt ELSE trap.cause
         /\ "db_halt" \in trap'.irq <=> trig_halt
         /\ "db_step" \in trap'.irq <=> trig_step
         /\ sleep' = (/\ ~running /\ ~csr.step
                      /\ \/ sleep /\ ex.state # "TRAP_EXECUTE"
                         \/ ex.state = "SYSTEM" /\ kind = "wfi" /\ ~Flagged)
         /\ prog' = prog
<1>0. PICK requests \in SUBSET csr.mie : TrapController(ready, requests) /\ Sleep /\ UNCHANGED prog
  BY DEF Cycle
<1>1. PICK report \in Reports(ready) :
        trap' = [exc |-> IF Ack THEN {} ELSE trap.exc \union report \union Raised(ready),
                 irq |-> IrqBuffer(requests),
                 start |-> EnvStart,
                 cause |-> IF trap.start THEN cause_nxt ELSE trap.cause]
  BY <1>0 DEF TrapController
<1>2. trap'.irq = IrqBuffer(requests) /\ trap'.start = EnvStart
      /\ trap'.cause = IF trap.start THEN cause_nxt ELSE trap.cause
  BY <1>1
<1>3. requests \subseteq Irqs /\ Firqs \subseteq Irqs /\ Irqs \intersect DebugIrqs = {}
  BY IrqAssumption DEF TypeOK
<1>4. /\ "db_halt" \in IrqBuffer(requests) <=> trig_halt
      /\ "db_step" \in IrqBuffer(requests) <=> trig_step
  BY <1>3 DEF IrqBuffer, DebugIrqs
<1>5. QED  BY <1>0, <1>2, <1>4 DEF Sleep

(* The CSRs: a write of the program, or the hardware.                       *)
LEMMA CsrNext ==
  ASSUME TypeOK, NEW ready \in BOOLEAN, Cycle(ready)
  PROVE
  /\ csr' \in CsrType
  /\ csr.we =>
       /\ ~csr'.we /\ csr'.mcause = csr.mcause /\ csr'.dpc = csr.dpc
       /\ prog[ex.last] # "w_dcsr" => csr'.step = csr.step
       /\ prog[ex.last] # "w_tdata" \/ ~running => csr'.tdata1_exe = csr.tdata1_exe
       /\ prog[ex.last] # "w_mstatus" =>
            csr'.mstatus_mie = csr.mstatus_mie /\ csr'.mstatus_mpie = csr.mstatus_mpie
       /\ csr'.mepc = IF prog[ex.last] = "w_mepc" THEN ReturnAddress ELSE csr.mepc
       /\ prog[ex.last] \in CsrWrites
  /\ ~csr.we =>
       /\ csr'.we = Request /\ csr'.step = csr.step /\ csr'.tdata1_exe = csr.tdata1_exe
       /\ csr'.ebreakm = csr.ebreakm
       /\ IF Ack /\ ~running /\ trap.cause \notin ToDebug
          THEN /\ csr'.mcause = trap.cause /\ csr'.mepc = Epc(trap.cause)
               /\ ~csr'.mstatus_mie /\ csr'.mstatus_mpie = csr.mstatus_mie
          ELSE /\ csr'.mcause = csr.mcause /\ csr'.mepc = csr.mepc
               /\ IF End /\ ~running
                  THEN csr'.mstatus_mie = csr.mstatus_mpie /\ csr'.mstatus_mpie
                  ELSE csr'.mstatus_mie = csr.mstatus_mie /\ csr'.mstatus_mpie = csr.mstatus_mpie
       /\ csr'.dpc = IF Ack /\ ~running /\ trap.cause \in ToDebug
                     THEN Epc(trap.cause) ELSE csr.dpc
<1>1. csr \in CsrType /\ trap.cause \in Causes
  BY DEF TypeOK, CsrType
<1>2. CASE csr.we
  <2>1. Writes
    BY <1>2 DEF Cycle, Csrs
  <2>2. csr' \in CsrType /\ ~csr'.we
    BY <2>1, WritesType
  <2> DEFINE k == prog[ex.last]
  <2>3. CASE k = "w_mie" /\ \E s \in Masks : csr' = [csr EXCEPT !.we = FALSE, !.mie = s, !.nclr = Firqs]
    BY <1>1, <1>2, <2>2, <2>3 DEF CsrType, CsrWrites
  <2>4. CASE k = "w_mip" /\ \E s \in SUBSET Firqs : csr' = [csr EXCEPT !.we = FALSE, !.nclr = s]
    BY <1>1, <1>2, <2>2, <2>4 DEF CsrType, CsrWrites
  <2>5. CASE k = "w_mstatus" /\ \E i, p \in BOOLEAN :
            csr' = [csr EXCEPT !.we = FALSE, !.mstatus_mie = i, !.mstatus_mpie = p, !.nclr = Firqs]
    BY <1>1, <1>2, <2>2, <2>5 DEF CsrType, CsrWrites
  <2>6. CASE k = "w_dcsr" /\ \E t, b \in BOOLEAN :
            csr' = [csr EXCEPT !.we = FALSE, !.step = t, !.ebreakm = b, !.nclr = Firqs]
    BY <1>1, <1>2, <2>2, <2>6 DEF CsrType, CsrWrites
  <2>7. CASE k = "w_tdata" /\ \E x \in (IF running THEN BOOLEAN ELSE {csr.tdata1_exe}) :
            csr' = [csr EXCEPT !.we = FALSE, !.tdata1_exe = x, !.nclr = Firqs]
    BY <1>1, <1>2, <2>2, <2>7 DEF CsrType, CsrWrites
  <2>8. CASE k = "w_mepc" /\ csr' = [csr EXCEPT !.we = FALSE, !.nclr = Firqs, !.mepc = ReturnAddress]
    BY <1>1, <1>2, <2>2, <2>8 DEF CsrType, CsrWrites
  <2>9. QED  BY <2>1, <2>3, <2>4, <2>5, <2>6, <2>7, <2>8 DEF Writes
<1>3. CASE ~csr.we
  <2>1. Updates
    BY <1>3 DEF Cycle, Csrs
  <2>2. csr' \in CsrType /\ csr'.we = Request
    BY <2>1, UpdatesType
  <2> DEFINE c == [csr EXCEPT !.we = Request, !.nclr = Firqs]
  <2>3. /\ c.step = csr.step /\ c.tdata1_exe = csr.tdata1_exe /\ c.mcause = csr.mcause
        /\ c.ebreakm = csr.ebreakm
        /\ c.mepc = csr.mepc /\ c.dpc = csr.dpc /\ c.mstatus_mie = csr.mstatus_mie
        /\ c.mstatus_mpie = csr.mstatus_mpie /\ c \in CsrType
    BY <1>1 DEF CsrType, Request
  <2>4. csr' = Context(c, Ack /\ ~running /\ trap.cause \notin ToDebug,
                         Ack /\ ~running /\ trap.cause \in ToDebug)
    BY <2>1 DEF Updates
  <2> HIDE DEF c
  <2>5. CASE Ack /\ ~running
    BY <1>3, <2>2, <2>3, <2>4, <2>5 DEF Context, CsrType, Ack, End
  <2>6. CASE ~(Ack /\ ~running) /\ End /\ ~running
    BY <1>3, <2>2, <2>3, <2>4, <2>6 DEF Context, CsrType
  <2>7. CASE ~(Ack /\ ~running) /\ ~(End /\ ~running)
    BY <1>3, <2>2, <2>3, <2>4, <2>7 DEF Context, CsrType
  <2>8. QED  BY <2>5, <2>6, <2>7
<1>4. QED  BY <1>2, <1>3

(* Only a write to mie or mip disables a channel or clears a request.       *)
LEMMA MaskNext ==
  ASSUME TypeOK, NEW ready \in BOOLEAN, Cycle(ready)
  PROVE  \/ csr.we /\ prog[ex.last] \in {"w_mie", "w_mip"}
         \/ csr'.mie = csr.mie /\ csr'.nclr = Firqs
<1>1. csr \in CsrType
  BY DEF TypeOK, CsrType
<1>2. CASE csr.we
  <2>1. Writes
    BY <1>2 DEF Cycle, Csrs
  <2> DEFINE k == prog[ex.last]
  <2>2. CASE k \in {"w_mie", "w_mip"}
    BY <1>2, <2>2
  <2>3. CASE k = "w_mstatus" /\ \E i, p \in BOOLEAN :
            csr' = [csr EXCEPT !.we = FALSE, !.mstatus_mie = i, !.mstatus_mpie = p, !.nclr = Firqs]
    BY <1>1, <2>3 DEF CsrType
  <2>4. CASE k = "w_dcsr" /\ \E t, b \in BOOLEAN :
            csr' = [csr EXCEPT !.we = FALSE, !.step = t, !.ebreakm = b, !.nclr = Firqs]
    BY <1>1, <2>4 DEF CsrType
  <2>5. CASE k = "w_tdata" /\ \E x \in (IF running THEN BOOLEAN ELSE {csr.tdata1_exe}) :
            csr' = [csr EXCEPT !.we = FALSE, !.tdata1_exe = x, !.nclr = Firqs]
    BY <1>1, <2>5 DEF CsrType
  <2>6. CASE k = "w_mepc" /\ csr' = [csr EXCEPT !.we = FALSE, !.nclr = Firqs, !.mepc = ReturnAddress]
    BY <1>1, <2>6 DEF CsrType
  <2>7. QED  BY <2>1, <2>2, <2>3, <2>4, <2>5, <2>6 DEF Writes
<1>3. CASE ~csr.we
  <2> DEFINE c == [csr EXCEPT !.we = Request, !.nclr = Firqs]
  <2>1. csr' = Context(c, Ack /\ ~running /\ trap.cause \notin ToDebug,
                         Ack /\ ~running /\ trap.cause \in ToDebug)
    BY <1>3 DEF Cycle, Csrs, Updates
  <2>2. c.mie = csr.mie /\ c.nclr = Firqs /\ c \in CsrType
    BY <1>1 DEF CsrType, Request
  <2> HIDE DEF c
  <2>3. QED  BY <2>1, <2>2 DEF Context, CsrType
<1>4. QED  BY <1>2, <1>3

(* The interrupt buffers: what is new has passed mie, and a fast request    *)
(* stays that is not being cleared.                                         *)
LEMMA BufferNext ==
  ASSUME TypeOK, NEW ready \in BOOLEAN, Cycle(ready)
  PROVE  /\ trap'.irq \intersect Irqs \subseteq csr.mie \union (trap.irq \intersect Firqs)
         /\ (trap'.irq \intersect Irqs) \ Firqs \subseteq csr.mie
         /\ trap.irq \intersect Firqs \intersect csr.nclr \subseteq trap'.irq
<1>1. PICK requests \in SUBSET csr.mie : TrapController(ready, requests)
  BY DEF Cycle
<1>2. PICK report \in Reports(ready) :
        trap' = [exc |-> IF Ack THEN {} ELSE trap.exc \union report \union Raised(ready),
                 irq |-> IrqBuffer(requests),
                 start |-> EnvStart,
                 cause |-> IF trap.start THEN cause_nxt ELSE trap.cause]
  BY <1>1 DEF TrapController
<1>3. trap'.irq = IrqBuffer(requests)
  BY <1>2
<1>4. Irqs \intersect DebugIrqs = {}
  BY IrqAssumption
<1>5. QED  BY <1>3, <1>4 DEF IrqBuffer, DebugIrqs

(* A request to write a CSR comes from SYSTEM only.                         *)
LEMMA RequestNext ==
  ASSUME TypeOK, NEW ready \in BOOLEAN, Cycle(ready), ex.state # "SYSTEM"
  PROVE  ~csr'.we
  BY CsrNext DEF Request

-----------------------------------------------------------------------------
(* The invariant holds in the initial states, and every cycle keeps it.     *)

LEMMA InitInv == Init => Inv
<1> SUFFICES ASSUME Init PROVE Inv  OBVIOUS
<1>1. PICK m \in Masks :
        csr = [we |-> FALSE, mie |-> m, nclr |-> Firqs, mstatus_mie |-> FALSE,
               mstatus_mpie |-> FALSE, mcause |-> "ialign", mepc |-> ex.pc, dpc |-> ex.pc,
               step |-> FALSE, ebreakm |-> FALSE, tdata1_exe |-> FALSE]
  BY DEF Init
<1>2. /\ ex = [state |-> "BRANCHED", pc |-> BootAddr, last |-> BootAddr, next |-> BootAddr,
               branched |-> TRUE]
      /\ sleep = FALSE /\ prog \in Programs
      /\ trap = [exc |-> {}, irq |-> {}, start |-> FALSE, cause |-> "ialign"]
      /\ debug = [state |-> "OFFLINE", ext_halt_req |-> FALSE]
  BY DEF Init
<1>3. "ialign" \in Causes \ ToDebug
  BY DEF Causes, Exceptions, ToDebug, DebugIrqs
<1>4. ex.pc \in Adr /\ csr \in CsrType
  BY <1>1, <1>2, <1>3, AddressAssumption DEF CsrType
<1>5. TypeOK
  BY <1>1, <1>2, <1>3, <1>4, AddressAssumption DEF TypeOK, CsrType, States
<1>6. Placed /\ Owned /\ Interruptible /\ Sleeping
  BY <1>1, <1>2 DEF Placed, Owned, Interruptible, Sleeping, Inside
<1>7. Started /\ Requested /\ Debugging /\ Rightful
  BY <1>1, <1>2 DEF Started, Requested, Debugging, Rightful, running
<1>8. QED  BY <1>5, <1>6, <1>7 DEF Inv

(* Types are kept: a request to write a CSR lasts a cycle.                  *)
LEMMA TypeNext ==
  ASSUME Inv, NEW ready \in BOOLEAN, Cycle(ready)
  PROVE  TypeOK'
<1>1. TypeOK /\ Placed
  BY DEF Inv
<1>2. ExecuteEngine(ready) /\ DebugControl
  BY DEF Cycle
<1>3. PICK requests \in SUBSET csr.mie : TrapController(ready, requests)
  BY DEF Cycle
<1>4. ex' \in [state : States, pc : Adr, last : Adr, next : Adr, branched : BOOLEAN]
  BY <1>1, <1>2, EngineType
<1>5. trap' \in [exc : SUBSET Exceptions, irq : SUBSET Interrupts, start : BOOLEAN,
                 cause : Causes]
  BY <1>1, <1>3, ControllerType
<1>6. csr' \in CsrType /\ sleep' \in BOOLEAN /\ prog' \in Programs
  BY <1>1, CsrNext, SignalsNext DEF TypeOK
<1>7. debug' \in [state : {"OFFLINE", "PENDING", "ONLINE", "EXIT"}, ext_halt_req : BOOLEAN]
  BY <1>1, <1>2, DebugNext
<1>8. ASSUME csr'.we PROVE ex'.state = "DISPATCH" /\ prog'[ex'.last] \in CsrWrites
  <2>1. Request
    BY <1>1, <1>8, CsrNext
  <2>2. ex.state = "SYSTEM" /\ kind \in CsrWrites /\ kind \notin {"mret", "dret"}
    BY <2>1 DEF Request, CsrWrites
  <2>3. ex'.state = "DISPATCH" /\ ex'.last = ex.last /\ ex.last = ex.pc /\ prog' = prog
    BY <1>1, <1>2, <2>2, EngineNext, SignalsNext DEF Placed, Inside
  <2>4. QED  BY <2>2, <2>3 DEF kind
<1>9. QED  BY <1>4, <1>5, <1>6, <1>7, <1>8 DEF TypeOK, CsrType

(* Debug mode begins and ends.                                              *)
LEMMA RunningNext ==
  ASSUME Inv, NEW ready \in BOOLEAN, Cycle(ready)
  PROVE  /\ ~running => (running' <=> Ack /\ trap.cause \in ToDebug)
         /\ running => (running' <=> ~(debug.state = "EXIT" /\ ex.state = "TRAP_EXECUTE"))
<1>1. TypeOK /\ Debugging /\ DebugControl
  BY DEF Inv, Cycle
<1>2. debug.state \in {"OFFLINE", "PENDING", "ONLINE", "EXIT"}
  BY <1>1 DEF TypeOK
<1>3. QED  BY <1>1, <1>2, DebugNext DEF running, Debugging, Ack

(* What begins is an instruction, and goes the way of its kind.             *)
LEMMA PlacedNext ==
  ASSUME Inv, NEW ready \in BOOLEAN, Cycle(ready)
  PROVE  Placed'
<1> USE DEF Inv
<1>1. ExecuteEngine(ready) /\ DebugControl
  BY DEF Cycle
<1>2. ex.state \in States /\ ex'.state \in States
  BY <1>1, EngineType DEF TypeOK, States
<1>10. CASE ex.state = "DISPATCH"
  <2>1. ~csr'.we /\ prog' = prog
    BY <1>10, RequestNext, SignalsNext
  <2>2. CASE ~ready
    BY <1>1, <1>10, <2>1, <2>2, EngineNext DEF Placed, Inside
  <2>3. CASE ready
    <3>1. /\ ex'.state \in {"TRAP_ENTER", "EXECUTE"} /\ ~ex'.branched /\ ex'.pc = Fetched
          /\ ex'.state = "EXECUTE" => FetchFault(Fetched) = {}
      BY <1>1, <1>10, <2>3, EngineNext
    <3>2. FetchFault(Fetched) = {} => prog[Fetched] \notin {"unreachable", "misaligned"}
      BY DEF FetchFault
    <3>3. QED  BY <2>1, <3>1, <3>2 DEF Placed, Inside, kind
  <2>4. QED  BY <2>2, <2>3
<1>11. CASE ex.state = "EXECUTE"
  <2>1. /\ ex'.state \in AfterExecute /\ ~ex'.branched /\ ~csr'.we
        /\ ex'.pc = ex.pc /\ ex'.last = ex.pc /\ ex'.next = Succ[ex.pc] /\ prog' = prog
    BY <1>1, <1>11, EngineNext, SignalsNext, CsrNext DEF Placed, Request
  <2>2. kind' = kind /\ kind \in Kinds /\ kind \notin {"unreachable", "misaligned"}
    BY <1>11, <2>1, KindType DEF kind, TypeOK, Placed
  <2>3. /\ ex'.state \in {"SYSTEM", "WORK", "BRANCH", "DISPATCH", "TRAP_EXECUTE"}
        /\ ex'.state = "SYSTEM" =>
            kind \in {"illegal", "ecall", "ebreak", "mret", "dret", "wfi"} \union CsrWrites
        /\ ex'.state = "WORK" => kind \in {"illegal", "wait", "load", "store"}
        /\ ex'.state = "BRANCH" => kind \in {"illegal", "jump"}
    BY <2>1, <2>2 DEF AfterExecute, Kinds, CsrWrites
  <2>4. QED  BY <2>1, <2>2, <2>3 DEF Placed, Inside
<1>12. CASE ex.state = "SYSTEM"
  <2>1. /\ ex'.state = IF kind \in {"mret", "dret"} /\ ~Flagged THEN "TRAP_EXIT" ELSE "DISPATCH"
        /\ ex'.pc = ex.pc /\ ex'.last = ex.last /\ ex'.next = ex.next /\ prog' = prog
        /\ ex'.branched = ex.branched
    BY <1>1, <1>12, EngineNext, SignalsNext
  <2>2. ex.last = ex.pc /\ ex.next = Succ[ex.last] /\ ~ex.branched
    BY <1>12 DEF Placed, Inside
  <2>3. kind' = kind
    BY <2>1 DEF kind
  <2>4. QED  BY <2>1, <2>2, <2>3 DEF Placed, Inside
<1>13. CASE ex.state = "WORK"
  <2>1. /\ ex'.state \in {"WORK", "DISPATCH"} /\ ~csr'.we /\ prog' = prog
        /\ ex'.pc = ex.pc /\ ex'.last = ex.last /\ ex'.next = ex.next
        /\ ex'.branched = ex.branched
    BY <1>1, <1>13, EngineNext, SignalsNext, RequestNext
  <2>2. kind' = kind
    BY <2>1 DEF kind
  <2>3. QED  BY <1>13, <2>1, <2>2 DEF Placed, Inside
<1>14. CASE ex.state = "BRANCH"
  BY <1>1, <1>14, EngineNext, RequestNext DEF Placed, Inside
<1>15. CASE ex.state = "BRANCHED"
  BY <1>1, <1>15, EngineNext, RequestNext DEF Placed, Inside
<1>16. CASE ex.state = "TRAP_ENTER"
  BY <1>1, <1>16, EngineNext, RequestNext DEF Placed, Inside
<1>17. CASE ex.state = "TRAP_START"
  BY <1>1, <1>17, EngineNext, RequestNext DEF Placed, Inside
<1>18. CASE ex.state = "TRAP_EXIT"
  BY <1>1, <1>18, EngineNext, RequestNext DEF Placed, Inside
<1>19. CASE ex.state = "TRAP_EXECUTE"
  BY <1>1, <1>19, EngineNext, RequestNext DEF Placed, Inside
<1>20. QED  BY <1>2, <1>10, <1>11, <1>12, <1>13, <1>14, <1>15, <1>16, <1>17, <1>18, <1>19 DEF States

(* The reason of an interrupt lasts while an instruction is in progress.    *)
LEMMA ReasonKept ==
  ASSUME Inv, NEW ready \in BOOLEAN, Cycle(ready), ~csr.we, ex.state \in {"EXECUTE", "SYSTEM", "WORK"},
         trap.irq \intersect DebugIrqs # {} \/ (csr.mstatus_mie /\ ~running /\ ~csr.step)
  PROVE  trap'.irq \intersect DebugIrqs # {} \/ (csr'.mstatus_mie /\ ~running' /\ ~csr'.step)
<1>1. TypeOK /\ Requested
  BY DEF Inv
<1>2. running' <=> running
  BY RunningNext DEF Ack, running
<1>3. csr'.step = csr.step /\ csr'.mstatus_mie = csr.mstatus_mie
  BY <1>1, CsrNext DEF Ack, End
<1>4. ASSUME trap.irq \intersect DebugIrqs # {} PROVE trap'.irq \intersect DebugIrqs # {}
  <2>1. ~running
    BY <1>1, <1>4 DEF Requested
  <2>2. trig_halt \/ trig_step
    BY <1>1, <1>4, <2>1 DEF Requested, DebugIrqs, trig_halt, trig_step
  <2>3. QED  BY <1>1, <2>2, SignalsNext DEF DebugIrqs
<1>5. QED  BY <1>2, <1>3, <1>4

(* A trap that is started for an interrupt keeps its reason.                *)
LEMMA InterruptibleNext ==
  ASSUME Inv, NEW ready \in BOOLEAN, Cycle(ready)
  PROVE  Interruptible'
<1>1. TypeOK /\ Placed /\ Owned /\ Interruptible /\ ExecuteEngine(ready)
  BY DEF Inv, Cycle
<1> SUFFICES ASSUME ex'.state \in Inside \/ csr'.we, trap'.start, trap'.exc = {}
             PROVE  trap'.irq \intersect DebugIrqs # {} \/ (csr'.mstatus_mie /\ ~running' /\ ~csr'.step)
  BY DEF Interruptible, running
<1>2. ex.state \in {"EXECUTE", "SYSTEM", "WORK"} /\ ~csr.we
  <2>1. CASE csr'.we
    BY <1>1, <2>1, CsrNext DEF Request, TypeOK
  <2>2. CASE ex'.state \in Inside
    BY <1>1, <2>2, EngineNext DEF Inside, TypeOK, States
  <2>3. QED  BY <2>1, <2>2
<1>3. trap.exc = {}
  <2>1. CASE ex.state = "EXECUTE"  BY <1>1, <2>1, FlagsNext
  <2>2. CASE ex.state = "SYSTEM"  BY <1>1, <2>2, FlagsNext
  <2>3. CASE ex.state = "WORK"  BY <1>1, <2>3, FlagsNext
  <2>4. QED  BY <1>2, <2>1, <2>2, <2>3
<1>4. trap.start \/ (irq_fire /\ ex.state = "EXECUTE")
  BY <1>1, <1>2, <1>3, SignalsNext DEF EnvStart, exc_fire, IrqWindow
<1>5. trap.irq \intersect DebugIrqs # {} \/ (csr.mstatus_mie /\ ~running /\ ~csr.step)
  BY <1>1, <1>2, <1>3, <1>4 DEF Interruptible, irq_fire, Inside, Owned
<1>6. QED  BY <1>2, <1>5, ReasonKept

(* Sleep begins behind wfi and ends in TRAP_START.                           *)
LEMMA SleepingNext ==
  ASSUME Inv, NEW ready \in BOOLEAN, Cycle(ready)
  PROVE  Sleeping'
<1> USE DEF Inv
<1>1. ExecuteEngine(ready) /\ DebugControl
  BY DEF Cycle
<1>2. ex.state \in States /\ ex'.state \in States
  BY <1>1, EngineType DEF TypeOK, States
<1>10. CASE ex.state = "DISPATCH"
  BY <1>1, <1>10, EngineNext, SignalsNext, CsrNext, RunningNext
  DEF Sleeping, Between, Ack, Request, CsrWrites
<1>11. CASE ex.state = "EXECUTE"
  BY <1>1, <1>11, EngineNext, SignalsNext, CsrNext, RunningNext
  DEF Sleeping, Between, Ack, Request, CsrWrites
<1>12. CASE ex.state = "SYSTEM"
  <2>1. CASE kind = "wfi" /\ ~Flagged /\ ~running /\ ~csr.step
    <3>1. ex'.state = "DISPATCH" /\ ~Request /\ ~csr.we
      BY <1>1, <1>12, <2>1, EngineNext DEF Request, CsrWrites, TypeOK
    <3>2. ~csr'.we /\ csr'.step = csr.step /\ ~running'
      BY <1>12, <2>1, <3>1, CsrNext, RunningNext DEF Ack
    <3>3. QED  BY <2>1, <3>1, <3>2 DEF Sleeping, Between, running
  <2>2. CASE ~(kind = "wfi" /\ ~Flagged /\ ~running /\ ~csr.step)
    BY <1>12, <2>2, SignalsNext DEF Sleeping, Between
  <2>3. QED  BY <2>1, <2>2
<1>13. CASE ex.state = "WORK"
  BY <1>1, <1>13, EngineNext, SignalsNext, CsrNext, RunningNext
  DEF Sleeping, Between, Ack, Request, CsrWrites
<1>14. CASE ex.state = "BRANCH"
  BY <1>1, <1>14, EngineNext, SignalsNext, CsrNext, RunningNext
  DEF Sleeping, Between, Ack, Request, CsrWrites
<1>15. CASE ex.state = "BRANCHED"
  BY <1>1, <1>15, EngineNext, SignalsNext, CsrNext, RunningNext
  DEF Sleeping, Between, Ack, Request, CsrWrites
<1>16. CASE ex.state = "TRAP_ENTER"
  BY <1>1, <1>16, EngineNext, SignalsNext, CsrNext, RunningNext
  DEF Sleeping, Between, Ack, Request, CsrWrites
<1>17. CASE ex.state = "TRAP_START"
  BY <1>1, <1>17, EngineNext, SignalsNext, CsrNext, RunningNext
  DEF Sleeping, Between, Ack, Request, CsrWrites
<1>18. CASE ex.state = "TRAP_EXIT"
  BY <1>1, <1>18, EngineNext, SignalsNext, CsrNext, RunningNext
  DEF Sleeping, Between, Ack, Request, CsrWrites
<1>19. CASE ex.state = "TRAP_EXECUTE"
  BY <1>1, <1>19, EngineNext, SignalsNext, CsrNext, RunningNext
  DEF Sleeping, Between, Ack, Request, CsrWrites
<1>20. QED  BY <1>2, <1>10, <1>11, <1>12, <1>13, <1>14, <1>15, <1>16, <1>17, <1>18, <1>19 DEF States

(* TRAP_ENTER is for a trap or for sleep; the cause is settled behind it.    *)
LEMMA StartedNext ==
  ASSUME Inv, NEW ready \in BOOLEAN, Cycle(ready)
  PROVE  Started'
<1> USE DEF Inv
<1>1. ExecuteEngine(ready) /\ DebugControl
  BY DEF Cycle
<1>2. ex.state \in States /\ ex'.state \in States
  BY <1>1, EngineType DEF TypeOK, States
<1>10. CASE ex.state = "DISPATCH"
  <2>1. SUFFICES ASSUME ex'.state = "TRAP_ENTER"
                 PROVE  sleep' \/ trap'.exc # {} \/ trap'.start
    BY <1>1, <1>10, EngineNext DEF Started, IsFirst
  <2>2. ready /\ (sleep \/ trap.exc # {} \/ trap.start \/ FetchFault(Fetched) # {})
    BY <1>1, <1>10, <2>1, EngineNext
  <2>3. CASE sleep
    BY <1>10, <2>3, SignalsNext DEF Sleeping
  <2>4. CASE trap.exc # {} \/ FetchFault(Fetched) # {}
    BY <1>10, <2>2, <2>4, FlagsNext
  <2>5. CASE trap.start
    BY <1>10, <2>5, SignalsNext DEF EnvStart, Ack
  <2>6. QED  BY <2>2, <2>3, <2>4, <2>5
<1>11. CASE ex.state = "EXECUTE"
  BY <1>1, <1>11, EngineNext, SignalsNext
  DEF Started, Sleeping, EnvStart, Ack, exc_fire, TypeOK, AfterExecute
<1>12. CASE ex.state = "SYSTEM"
  BY <1>1, <1>12, EngineNext, SignalsNext
  DEF Started, Sleeping, EnvStart, Ack, exc_fire, TypeOK, AfterExecute
<1>13. CASE ex.state = "WORK"
  BY <1>1, <1>13, EngineNext, SignalsNext
  DEF Started, Sleeping, EnvStart, Ack, exc_fire, TypeOK, AfterExecute
<1>14. CASE ex.state = "BRANCH"
  BY <1>1, <1>14, EngineNext, SignalsNext
  DEF Started, Sleeping, EnvStart, Ack, exc_fire, TypeOK, AfterExecute
<1>15. CASE ex.state = "BRANCHED"
  BY <1>1, <1>15, EngineNext, SignalsNext
  DEF Started, Sleeping, EnvStart, Ack, exc_fire, TypeOK, AfterExecute
<1>16. CASE ex.state = "TRAP_ENTER"
  <2>1. trap'.exc = trap.exc
    BY <1>16, FlagsNext
  <2>2. CASE trap.start
    <3>1. trap'.start /\ trap'.cause = cause_nxt /\ ex'.state = "TRAP_START"
      BY <1>1, <1>16, <2>2, SignalsNext, EngineNext DEF EnvStart, Ack
    <3>2. /\ trap.exc # {} => IsFirst(cause_nxt, trap.exc)
          /\ trap.exc = {} => cause_nxt \in Interrupts
      BY CauseFirst DEF TypeOK
    <3>3. QED  BY <2>1, <3>1, <3>2 DEF Started, IsFirst
  <2>3. CASE ~trap.start
    <3>1. ex'.state = "TRAP_ENTER" /\ (sleep \/ trap.exc # {})
      BY <1>1, <1>16, <2>3, EngineNext DEF Started
    <3>2. sleep => sleep'
      BY <1>16, SignalsNext DEF Sleeping
    <3>3. QED  BY <2>1, <3>1, <3>2 DEF Started
  <2>4. QED  BY <2>2, <2>3
<1>17. CASE ex.state = "TRAP_START"
  BY <1>1, <1>17, EngineNext, SignalsNext
  DEF Started, Sleeping, EnvStart, Ack, exc_fire, TypeOK, AfterExecute
<1>18. CASE ex.state = "TRAP_EXIT"
  BY <1>1, <1>18, EngineNext, SignalsNext
  DEF Started, Sleeping, EnvStart, Ack, exc_fire, TypeOK, AfterExecute
<1>19. CASE ex.state = "TRAP_EXECUTE"
  BY <1>1, <1>19, EngineNext, SignalsNext
  DEF Started, Sleeping, EnvStart, Ack, exc_fire, TypeOK, AfterExecute
<1>20. QED  BY <1>2, <1>10, <1>11, <1>12, <1>13, <1>14, <1>15, <1>16, <1>17, <1>18, <1>19 DEF States

(* A request stays as long as its reason, which stays outside of debug mode. *)
LEMMA RequestedNext ==
  ASSUME Inv, NEW ready \in BOOLEAN, Cycle(ready)
  PROVE  Requested'
<1>1. TypeOK /\ Owned /\ Started /\ ExecuteEngine(ready) /\ DebugControl
  BY DEF Inv, Cycle
<1>2. "db_halt" \in trap'.irq => debug'.ext_halt_req
  BY <1>1, SignalsNext, DebugNext DEF trig_halt
<1>3. "db_step" \in trap'.irq => csr'.step
  BY <1>1, SignalsNext, CsrNext DEF trig_step, Owned
<1>4. ASSUME running', trap'.irq \intersect DebugIrqs # {}
      PROVE  ex'.state = "TRAP_EXECUTE" /\ ~trap'.start
  <2>1. ~running
    BY <1>1, <1>4, SignalsNext DEF DebugIrqs, trig_halt, trig_step
  <2>2. ex.state = "TRAP_START" /\ trap.start
    BY <1>1, <1>4, <2>1, RunningNext DEF Ack, Started
  <2>3. QED  BY <1>1, <2>2, EngineNext, SignalsNext DEF EnvStart, Ack
<1>5. QED  BY <1>2, <1>3, <1>4 DEF Requested, running

(* A cycle outside of an exit or an entry of debug mode.                    *)
LEMMA RunningKept ==
  ASSUME Inv, NEW ready \in BOOLEAN, Cycle(ready),
         ex.state \notin {"TRAP_START", "TRAP_EXECUTE"}
  PROVE  running' <=> running
  BY RunningNext DEF Ack, running

(* The flags of an instruction that is in progress.                         *)
LEMMA OwnedNext ==
  ASSUME Inv, NEW ready \in BOOLEAN, Cycle(ready)
  PROVE  Owned'
<1>1. /\ TypeOK /\ Placed /\ Owned /\ ExecuteEngine(ready)
      /\ ex.state \in States /\ ex'.state \in States
  BY EngineType DEF Inv, Cycle, TypeOK
<1>2. CASE ex.state = "DISPATCH"
  <2>1. ~csr'.we /\ ex'.state \notin Inside /\ trap.exc \intersect {"ialign", "iaccess"} = {}
    BY <1>1, <1>2, CsrNext, EngineNext DEF Request, Inside, Owned
  <2>2. ASSUME ex'.state = "EXECUTE" PROVE trap'.exc = {} /\ ~trap'.start
    BY <1>1, <1>2, <2>2, EngineNext, FlagsNext, SignalsNext DEF EnvStart, exc_fire, IrqWindow
  <2>3. ASSUME trap'.exc \intersect {"ialign", "iaccess"} # {} PROVE ex'.state = "TRAP_ENTER"
    BY <1>1, <1>2, <2>1, <2>3, EngineNext, FlagsNext
  <2>4. QED  BY <2>1, <2>2, <2>3 DEF Owned
<1>3. CASE ex.state = "EXECUTE"
  <2>1. /\ trap.exc = {} /\ trap'.exc \subseteq {"illegal", "db_hw"} /\ ~csr.we
        /\ "illegal" \in trap'.exc <=> Illegal
        /\ "db_hw" \in trap'.exc <=> trig_hw
    BY <1>1, <1>3, FlagsNext DEF Owned, TypeOK
  <2>2. /\ ~csr'.we /\ csr'.tdata1_exe = csr.tdata1_exe /\ ex'.state # "EXECUTE"
        /\ ex'.pc = ex.pc /\ ex'.last = ex.pc /\ prog' = prog
    BY <1>1, <1>3, <2>1, CsrNext, EngineNext, SignalsNext DEF Request, AfterExecute
  <2>3. Illegal' <=> Illegal
    BY <1>3, <2>2, RunningKept DEF Illegal, kind
  <2>4. trig_hw => csr'.tdata1_exe /\ ex'.last \in Trigger /\ ~running'
    BY <1>3, <2>2, RunningKept DEF trig_hw
  <2>5. QED  BY <2>1, <2>2, <2>3, <2>4 DEF Owned, DataExceptions
<1>4. CASE ex.state = "SYSTEM"
  <2>1. ~csr.we /\ ex'.pc = ex.pc /\ ex'.last = ex.last /\ ex.last = ex.pc /\ prog' = prog
    BY <1>1, <1>4, EngineNext, SignalsNext DEF TypeOK, Placed, Inside
  <2>2. csr'.tdata1_exe = csr.tdata1_exe /\ (running' <=> running) /\ kind' = kind
    BY <1>1, <1>4, <2>1, CsrNext, RunningKept DEF kind
  <2>3. /\ trap.exc \subseteq {"illegal", "db_hw"} /\ (Flagged <=> Illegal)
        /\ "db_hw" \in trap.exc => csr.tdata1_exe /\ ex.last \in Trigger /\ ~running
    BY <1>1, <1>4 DEF Owned, Inside, Flagged, DataExceptions
  <2>4. trap'.exc \intersect {"ialign", "iaccess"} = {} /\ ex'.state \in {"TRAP_EXIT", "DISPATCH"}
    BY <1>1, <1>4, <2>3, FlagsNext, EngineNext
  <2>5. CASE ex'.state = "TRAP_EXIT"
    <3>1. kind \in {"mret", "dret"} /\ ~Flagged /\ ~csr'.we
      BY <1>1, <1>4, <2>1, <2>5, EngineNext, CsrNext DEF Request, CsrWrites
    <3>2. trap'.exc = trap.exc
      BY <1>1, <1>4, <3>1, FlagsNext DEF BreakPoint, trig_break
    <3>3. Illegal' <=> Illegal
      BY <2>2 DEF Illegal
    <3>4. QED
      BY <2>1, <2>2, <2>3, <2>4, <2>5, <3>1, <3>2, <3>3 DEF Owned, Flagged, DataExceptions
  <2>6. CASE ex'.state = "DISPATCH" /\ csr'.we
    <3>1. kind \in CsrWrites /\ ~Flagged
      BY <1>1, <2>1, <2>6, CsrNext DEF Request
    <3>2. trap'.exc = trap.exc
      BY <1>1, <1>4, <3>1, FlagsNext DEF BreakPoint, trig_break, CsrWrites
    <3>3. prog'[ex'.last] = "w_dcsr" => running'
      BY <2>1, <2>2, <2>3, <3>1 DEF Illegal, kind
    <3>4. QED
      BY <2>1, <2>2, <2>3, <2>4, <2>6, <3>1, <3>2, <3>3 DEF Owned, Flagged, Inside
  <2>7. CASE ex'.state = "DISPATCH" /\ ~csr'.we
    BY <2>4, <2>7 DEF Owned, Inside
  <2>8. QED  BY <2>4, <2>5, <2>6, <2>7
<1>5. CASE ex.state = "WORK"
  <2>1. /\ ~csr.we /\ ~csr'.we /\ ex'.pc = ex.pc /\ ex'.last = ex.last /\ ex.last = ex.pc
        /\ prog' = prog /\ ex'.state \in {"WORK", "DISPATCH"}
    <3>1. ~csr.we /\ ~csr'.we /\ ex.last = ex.pc /\ prog' = prog
      BY <1>1, <1>5, RequestNext, SignalsNext DEF TypeOK, Placed, Inside
    <3>2. QED  BY <1>1, <1>5, <3>1, EngineNext
  <2>2. csr'.tdata1_exe = csr.tdata1_exe /\ (running' <=> running) /\ kind' = kind
    BY <1>1, <1>5, <2>1, CsrNext, RunningKept DEF kind
  <2>3. /\ trap.exc \subseteq {"illegal", "db_hw"} \union DataExceptions
        /\ "illegal" \in trap.exc <=> Illegal
        /\ "db_hw" \in trap.exc => csr.tdata1_exe /\ ex.last \in Trigger /\ ~running
        /\ trap.exc \intersect {"lalign", "laccess"} # {} => kind = "load"
        /\ trap.exc \intersect {"salign", "saccess"} # {} => kind = "store"
    BY <1>1, <1>5 DEF Owned, Inside
  <2>4. PICK report \in Reports(ready) : trap'.exc = trap.exc \union report
    BY <1>1, <1>5, FlagsNext
  <2>5. /\ report \subseteq DataExceptions
        /\ report \intersect {"lalign", "laccess"} # {} => kind = "load"
        /\ report \intersect {"salign", "saccess"} # {} => kind = "store"
    <3>1. CASE kind = "load"  BY <3>1 DEF Reports, DataExceptions
    <3>2. CASE kind = "store"  BY <3>2 DEF Reports, DataExceptions
    <3>3. CASE kind \notin {"load", "store"}  BY <3>3 DEF Reports, DataExceptions
    <3>4. QED  BY <3>1, <3>2, <3>3
  <2>6. /\ trap'.exc \subseteq {"illegal", "db_hw"} \union DataExceptions
        /\ "illegal" \in trap'.exc <=> Illegal
        /\ "db_hw" \in trap'.exc <=> "db_hw" \in trap.exc
        /\ trap'.exc \intersect {"lalign", "laccess"} # {} => kind = "load"
        /\ trap'.exc \intersect {"salign", "saccess"} # {} => kind = "store"
        /\ trap'.exc \intersect {"ialign", "iaccess"} = {}
    BY <2>3, <2>4, <2>5 DEF DataExceptions
  <2>7. Illegal' <=> Illegal
    BY <2>2 DEF Illegal
  <2>8. QED  BY <2>1, <2>2, <2>3, <2>6, <2>7 DEF Owned, Inside
<1>6. CASE ex.state \in {"BRANCH", "BRANCHED", "TRAP_EXIT", "TRAP_EXECUTE"}
  <2>1. /\ trap'.exc = trap.exc /\ ~csr'.we /\ ex'.state \notin Inside \union {"EXECUTE"}
    BY <1>1, <1>6, FlagsNext, CsrNext, EngineNext DEF Request, Inside, TypeOK
  <2>2. QED  BY <1>1, <1>6, <2>1 DEF Owned
<1>7. CASE ex.state \in {"TRAP_ENTER", "TRAP_START"}
  <2>1. /\ ~csr'.we /\ ex'.state \notin Inside \union {"EXECUTE"}
        /\ ex'.state \in {"TRAP_ENTER", "TRAP_START"} \/ trap'.exc = {}
    BY <1>1, <1>7, FlagsNext, CsrNext, EngineNext DEF Request, Inside, TypeOK
  <2>2. QED  BY <2>1 DEF Owned
<1>8. QED  BY <1>1, <1>2, <1>3, <1>4, <1>5, <1>6, <1>7 DEF States

(* Of the interrupts, those of the debugger lead into debug mode.           *)
LEMMA InterruptsToDebug == Interrupts \intersect ToDebug = DebugIrqs /\ mti \notin ToDebug
<1>1. Irqs \intersect ToDebug = {}
  BY IrqAssumption DEF ToDebug, DebugIrqs, Exceptions
<1>2. QED  BY <1>1, IrqAssumption DEF Interrupts, ToDebug

(* Debug mode stands by as soon as there is a way into it.                  *)
LEMMA DebuggingNext ==
  ASSUME Inv, NEW ready \in BOOLEAN, Cycle(ready)
  PROVE  Debugging'
<1>1. /\ TypeOK /\ Placed /\ Owned /\ Debugging /\ ExecuteEngine(ready) /\ DebugControl
      /\ ex.state \in States /\ ex'.state \in States
  BY EngineType DEF Inv, Cycle, TypeOK
<1>2. ASSUME debug'.state = "OFFLINE"
      PROVE  /\ trap'.exc \intersect ToDebug = {} /\ trap'.irq \intersect ToDebug = {}
             /\ ex'.state = "TRAP_START" => trap'.cause \notin ToDebug
  <2>1. PICK requests \in SUBSET csr.mie : TrapController(ready, requests)
    BY DEF Cycle
  <2>2. trap'.irq \subseteq Interrupts
    BY <1>1, <2>1, ControllerType
  <2>3. CASE debug.state = "OFFLINE"
    <3>1. ~trig_halt /\ ~trig_step /\ ~trig_break /\ ~trig_hw
      BY <1>1, <1>2, <2>3, DebugNext
    <3>2. trap'.irq \intersect ToDebug = {}
      <4>1. trap'.irq \intersect DebugIrqs = {}
        BY <1>1, <3>1, SignalsNext DEF DebugIrqs
      <4>2. QED  BY <2>2, <4>1, InterruptsToDebug
    <3>3. trap'.exc \intersect ToDebug = {}
      <4>1. trap.exc \intersect ToDebug = {} /\ trap.exc \subseteq Exceptions
        BY <1>1, <2>3 DEF Debugging, TypeOK
      <4>2. CASE ex.state = "DISPATCH"
        BY <1>1, <4>1, <4>2, FlagsNext DEF FetchFault, ToDebug, DebugIrqs
      <4>3. CASE ex.state = "EXECUTE"
        BY <1>1, <3>1, <4>1, <4>3, FlagsNext DEF ToDebug, DebugIrqs
      <4>4. CASE ex.state = "SYSTEM"
        BY <1>1, <3>1, <4>1, <4>4, FlagsNext DEF ToDebug, DebugIrqs
      <4>5. CASE ex.state = "WORK"
        BY <1>1, <4>1, <4>5, FlagsNext, RaisedType DEF ToDebug, DebugIrqs, DataExceptions
      <4>6. CASE ex.state \notin {"DISPATCH", "EXECUTE", "SYSTEM", "WORK"}
        BY <1>1, <4>1, <4>6, FlagsNext
      <4>7. QED  BY <4>2, <4>3, <4>4, <4>5, <4>6
    <3>4. ASSUME ex'.state = "TRAP_START" PROVE trap'.cause \notin ToDebug
      <4>1. trap'.cause = cause_nxt /\ cause_nxt \in trap.exc \union trap.irq \union {mti}
        <5>1. ex.state = "TRAP_ENTER" /\ trap.start
          BY <1>1, <3>4, EngineNext DEF States, AfterExecute
        <5>2. cause_nxt \in trap.exc \union trap.irq \union {mti}
          BY <1>1, CauseFirst DEF TypeOK
        <5>3. QED  BY <1>1, <5>1, <5>2, SignalsNext
      <4>2. QED  BY <1>1, <2>3, <4>1, InterruptsToDebug DEF Debugging
    <3>5. QED  BY <3>2, <3>3, <3>4
  <2>4. CASE debug.state # "OFFLINE"
    <3>1. debug.state = "EXIT" /\ ex.state = "TRAP_EXECUTE" /\ running
      BY <1>1, <1>2, <2>4, DebugNext DEF TypeOK, running
    <3>2. trap'.exc = {} /\ ex'.state = "BRANCHED"
      BY <1>1, <3>1, FlagsNext, EngineNext DEF Debugging
    <3>3. trap'.irq \intersect ToDebug = {}
      <4>1. trap'.irq \intersect DebugIrqs = {}
        BY <1>1, <3>1, SignalsNext DEF DebugIrqs, trig_halt, trig_step
      <4>2. QED  BY <2>2, <4>1, InterruptsToDebug
    <3>4. QED  BY <3>2, <3>3
  <2>5. QED  BY <2>3, <2>4
<1>3. ASSUME debug'.state = "EXIT"
      PROVE  ex'.state \in {"TRAP_EXIT", "TRAP_EXECUTE"} /\ trap'.exc = {}
  <2>1. CASE debug.state = "EXIT"
    <3>1. ex.state = "TRAP_EXIT" /\ trap.exc = {}
      BY <1>1, <1>3, <2>1, DebugNext DEF Debugging
    <3>2. QED  BY <1>1, <3>1, EngineNext, FlagsNext
  <2>2. CASE debug.state # "EXIT"
    <3>1. debug.state = "ONLINE" /\ ex.state = "SYSTEM" /\ kind = "dret" /\ ~Flagged /\ running
      BY <1>1, <1>3, <2>2, DebugNext DEF TypeOK, running
    <3>2. trap.exc = {}
      BY <1>1, <3>1 DEF Owned, Inside, Flagged
    <3>3. QED  BY <1>1, <3>1, <3>2, EngineNext, FlagsNext DEF BreakPoint, trig_break
  <2>3. QED  BY <2>1, <2>2
<1>4. ASSUME ex'.state = "TRAP_EXIT" PROVE kind' = "dret" <=> debug'.state = "EXIT"
  <2>1. /\ ex.state = "SYSTEM" /\ kind \in {"mret", "dret"} /\ ~Flagged
        /\ ex'.pc = ex.pc /\ prog' = prog
    BY <1>1, <1>4, EngineNext, SignalsNext DEF States, AfterExecute
  <2>2. kind' = kind /\ debug.state # "EXIT"
    BY <1>1, <2>1 DEF kind, Debugging
  <2>3. kind = "dret" => running
    BY <1>1, <2>1 DEF Owned, Inside, Flagged, Illegal
  <2>4. kind = "dret" => debug.state = "ONLINE"
    BY <2>2, <2>3 DEF running
  <2>5. debug.state \in {"OFFLINE", "PENDING", "ONLINE", "EXIT"}
    BY <1>1 DEF TypeOK
  <2>6. QED  BY <1>1, <2>1, <2>2, <2>4, <2>5, DebugNext
<1>5. QED  BY <1>2, <1>3, <1>4 DEF Debugging

(* Where a trap has been started, no request that is in force is lost.      *)
LEMMA Held ==
  ASSUME Inv, NEW ready \in BOOLEAN, Cycle(ready), Kept[prog] = Rules, trap'.start,
         NEW c \in InForce
  PROVE  c \in trap'.irq
<1>1. TypeOK /\ LinesHeld
  BY DEF Inv, Cycle, Rules
<1>2. c \in trap.irq \intersect csr.mie /\ (c \in Firqs => c \in csr.nclr)
  BY DEF InForce
<1>3. CASE c \in Firqs
  BY <1>1, <1>2, <1>3, BufferNext
<1>4. CASE c \notin Firqs
  BY <1>1, <1>2, <1>4 DEF LinesHeld
<1>5. QED  BY <1>3, <1>4

LEMMA RightfulNext ==
  ASSUME Inv, NEW ready \in BOOLEAN, Cycle(ready)
  PROVE  Rightful'
<1>1. /\ TypeOK /\ Rightful /\ Started /\ Requested /\ ExecuteEngine(ready) /\ prog' = prog
      /\ TypeOK'
  BY TypeNext DEF Inv, Cycle
<1> SUFFICES ASSUME Kept[prog] = Rules PROVE Rightful'
  BY <1>1 DEF Rightful
<1>2. NotWithdrawn
  BY DEF Cycle, Rules
<1>3. trap'.irq \intersect Firqs \intersect csr'.nclr \subseteq csr'.mie
  BY <1>2 DEF NotWithdrawn
<1>4. ASSUME csr'.mstatus_mie \/ trap'.start PROVE trap'.irq \intersect Irqs \subseteq InForce'
  <2>1. CASE csr.mstatus_mie \/ trap'.start
    BY <1>2, <2>1 DEF NotWithdrawn
  <2>2. CASE ~csr.mstatus_mie /\ csr'.mstatus_mie
    <3>1. csr'.mie = csr.mie /\ csr'.nclr = Firqs
      BY <1>1, <2>2, MaskNext, CsrNext
    <3>2. trap'.irq \intersect Irqs \subseteq csr'.mie
      BY <1>1, <1>3, <3>1, BufferNext
    <3>3. QED  BY <3>1, <3>2 DEF InForce
  <2>3. QED  BY <1>4, <2>1, <2>2
<1>5. ASSUME trap.irq # {}, trap'.start,
             trap.irq \intersect DebugIrqs # {} => ~running,
             csr.mstatus_mie \/ trap.start \/ trap.irq \intersect DebugIrqs # {}
      PROVE  trap'.irq # {}
  <2>1. CASE trap.irq \intersect DebugIrqs # {}
    <3>1. trig_halt \/ trig_step
      BY <1>1, <1>5, <2>1 DEF Requested, DebugIrqs, trig_halt, trig_step
    <3>2. QED  BY <1>1, <3>1, SignalsNext DEF DebugIrqs
  <2>2. CASE trap.irq \intersect DebugIrqs = {}
    <3>1. PICK c \in trap.irq : c \in Irqs
      BY <1>1, <1>5, <2>2 DEF TypeOK, Interrupts
    <3>2. c \in InForce
      BY <1>1, <1>5, <2>2, <3>1 DEF Rightful
    <3>3. QED  BY <1>5, <3>2, Held
  <2>3. QED  BY <2>1, <2>2
<1>6. ASSUME trap'.start, trap'.exc = {} PROVE trap'.irq # {}
  <2>1. ~Ack /\ (trap.start \/ exc_fire \/ (irq_fire /\ IrqWindow))
    BY <1>1, <1>6, SignalsNext DEF EnvStart, Started, Ack
  <2>2. trap.exc = {}
    <3>1. CASE ex.state = "DISPATCH"  BY <1>1, <1>6, <3>1, FlagsNext
    <3>2. CASE ex.state = "EXECUTE"  BY <1>1, <1>6, <3>2, FlagsNext
    <3>3. CASE ex.state = "SYSTEM"  BY <1>1, <1>6, <3>3, FlagsNext
    <3>4. CASE ex.state = "WORK"  BY <1>1, <1>6, <3>4, FlagsNext
    <3>5. CASE ex.state \notin {"DISPATCH", "EXECUTE", "SYSTEM", "WORK"}
      BY <1>1, <1>6, <2>1, <3>5, FlagsNext DEF Ack
    <3>6. QED  BY <3>1, <3>2, <3>3, <3>4, <3>5
  <2>3. trap.start \/ (irq_fire /\ IrqWindow)
    BY <2>1, <2>2 DEF exc_fire
  <2>4. trap.irq # {}
    BY <1>1, <2>2, <2>3 DEF Rightful, irq_fire
  <2>5. trap.irq \intersect DebugIrqs # {} => ~running
    BY <1>1, <2>3 DEF Requested, IrqWindow
  <2>6. QED  BY <1>5, <1>6, <2>3, <2>4, <2>5 DEF irq_fire
<1>7. ASSUME ex'.state = "TRAP_START", trap'.exc = {}, trap'.cause \in Irqs
      PROVE  trap'.cause \in InForce'
  <2>1. ex.state = "TRAP_ENTER" /\ trap.start
    BY <1>1, <1>7, EngineNext DEF TypeOK, States, AfterExecute
  <2>2. trap'.cause = cause_nxt /\ trap.exc = {} /\ trap'.start
    BY <1>1, <1>7, <2>1, SignalsNext, FlagsNext DEF EnvStart, Ack
  <2>3. cause_nxt \in trap.irq
    BY <1>1, <2>1, <2>2, CauseFirst DEF Rightful, TypeOK
  <2>4. cause_nxt \in InForce
    BY <1>1, <1>7, <2>1, <2>2, <2>3 DEF Rightful
  <2>5. cause_nxt \in trap'.irq
    BY <2>2, <2>4, Held
  <2>6. QED  BY <1>4, <1>7, <2>2, <2>5
<1>8. QED  BY <1>3, <1>4, <1>6, <1>7 DEF Rightful

-----------------------------------------------------------------------------
(* One cycle keeps the invariant.                                           *)
LEMMA InvNext == Inv /\ [Next]_vars => Inv'
<1> SUFFICES ASSUME Inv, [Next]_vars PROVE Inv'
  OBVIOUS
<1>1. CASE UNCHANGED vars
  BY <1>1 DEF vars, Inv, TypeOK, Placed, Owned, Interruptible, Sleeping, Started, Requested,
    Debugging, Rightful, InForce, kind, running, Illegal, IsFirst
<1>2. ASSUME NEW ready \in BOOLEAN, Cycle(ready) PROVE Inv'
  BY <1>2, TypeNext, PlacedNext, OwnedNext, InterruptibleNext, SleepingNext, StartedNext,
    RequestedNext, DebuggingNext, RightfulNext DEF Inv
<1>3. QED  BY <1>1, <1>2 DEF Next

(* The registers of traps and of debug mode keep their types: a CSR is      *)
(* written a cycle after its instruction, mcause never is a cause of debug  *)
(* mode.                                                                    *)
THEOREM TypeCorrect == Spec => []TypeOK
<1>1. Inv => TypeOK
  BY DEF Inv
<1>2. QED  BY InitInv, InvNext, <1>1, PTL DEF Spec

(* And so does all of the invariant.                                        *)
THEOREM InvCorrect == Spec => []Inv
  BY InitInv, InvNext, PTL DEF Spec

-----------------------------------------------------------------------------
(* Refinement.                                                              *)

(* The first exception: one that leads into the handler goes before those   *)
(* that lead into debug mode, among which an ebreak hides the trigger.      *)
DueIsFirst ==
  trap.exc # {} =>
    /\ DueException \in trap.exc
    /\ trap.exc \ ToDebug # {} => DueException \notin ToDebug /\ IsFirst(DueException, trap.exc)
    /\ trap.exc \ ToDebug = {} /\ "db_break" \in trap.exc => DueException = "db_break"

LEMMA DueFirst == TypeOK => DueIsFirst
<1> SUFFICES ASSUME TypeOK, trap.exc # {}
             PROVE  DueIsFirst
  BY DEF DueIsFirst
<1> DEFINE due == IF "db_break" \in trap.exc THEN trap.exc \ {"db_hw"} ELSE trap.exc
<1>1. due \subseteq trap.exc /\ due # {} /\ trap.exc \subseteq Exceptions /\ due \subseteq Causes
  BY DEF TypeOK, Causes
<1>2. DueException \in due /\ \A d \in due : Rank[DueException] <= Rank[d]
  BY <1>1, FirstExists DEF DueException
<1>3. \A c \in Exceptions : Rank[c] \in Nat
  BY RankAssumption DEF Causes
<1>4. ASSUME trap.exc \ ToDebug # {}
      PROVE  DueException \notin ToDebug /\ IsFirst(DueException, trap.exc)
  <2>1. PICK c \in trap.exc : c \notin ToDebug
    BY <1>4
  <2>2. c \in due /\ c # "db_hw"
    BY <2>1 DEF ToDebug
  <2>3. DueException \notin ToDebug
    <3>1. SUFFICES ASSUME DueException \in ToDebug PROVE FALSE
      OBVIOUS
    <3>2. Rank[c] < Rank[DueException]
      BY <1>1, <2>1, <3>1, RankAssumption
    <3>3. QED  BY <1>1, <1>2, <1>3, <2>2, <3>2
  <2>4. ASSUME NEW d \in trap.exc PROVE Rank[DueException] <= Rank[d]
    <3>1. CASE d \in due  BY <1>2, <3>1
    <3>2. CASE d \in ToDebug
      <4>1. Rank[DueException] < Rank[d]
        BY <1>1, <1>2, <2>3, <3>2, RankAssumption
      <4>2. QED  BY <1>1, <1>2, <1>3, <4>1
    <3>3. QED  BY <3>1, <3>2 DEF ToDebug
  <2>5. QED  BY <1>1, <1>2, <2>3, <2>4 DEF IsFirst
<1>5. ASSUME trap.exc \ ToDebug = {}, "db_break" \in trap.exc
      PROVE  DueException = "db_break"
  BY <1>1, <1>2, <1>5 DEF ToDebug, DebugIrqs, Exceptions
<1>6. QED  BY <1>1, <1>2, <1>4, <1>5 DEF DueIsFirst

LEMMA DueFirstNext == TypeOK' => DueIsFirst'
  BY DueFirst, PTL

(* The cases of DueNow and Here.                                            *)
DueIs ==
  /\ InProgress => DueNow = "none"
  /\ ~InProgress /\ trap.exc # {} => DueNow = DueException
  /\ ~InProgress /\ trap.exc = {} /\ Ack => DueNow = InterruptClass(trap.cause)
  /\ ~InProgress /\ trap.exc = {} /\ ~Ack /\ trap.start =>
       DueNow = IF trap.irq \intersect DebugIrqs # {} THEN "debug" ELSE "irq"
  /\ ~InProgress /\ trap.exc = {} /\ ~Ack /\ ~trap.start => DueNow = "none"
HereIs ==
  /\ ex.state = "EXECUTE" => Here = ex.pc
  /\ ex.state # "EXECUTE" /\ (InProgress \/ FaultPending) => Here = ex.last
  /\ ex.state # "EXECUTE" /\ ~InProgress /\ ~FaultPending =>
       Here = IF ex.state = "TRAP_EXECUTE" \/ (ex.state = "DISPATCH" /\ ~ex.branched)
              THEN ex.next ELSE ex.pc

LEMMA DueCases == DueIs /\ HereIs
<1>1. DueIs
  BY DEF DueIs, DueNow, exc_fire
<1>2. HereIs
  BY DEF HereIs, Here
<1>3. QED  BY <1>1, <1>2
LEMMA DueCasesNext == DueIs' /\ HereIs'
  BY DueCases, PTL

Asleep == sleep /\ ex.state \in {"DISPATCH", "TRAP_ENTER", "TRAP_START"}
Online == debug.state = "ONLINE" \/ (debug.state = "EXIT" /\ ex.state # "TRAP_EXECUTE")
CsrsKept ==
  /\ csr'.mstatus_mie = csr.mstatus_mie /\ csr'.mstatus_mpie = csr.mstatus_mpie
  /\ csr'.mcause = csr.mcause /\ csr'.mepc = csr.mepc /\ csr'.dpc = csr.dpc
  /\ csr'.step = csr.step /\ csr'.tdata1_exe = csr.tdata1_exe

(* What a cycle that begins, ends and saves nothing leaves alone: all but   *)
(* the requests.                                                            *)
LEMMA Stutter ==
  ASSUME Here' = Here, DueNow' = DueNow, ex'.last = ex.last, prog' = prog,
         Asleep' <=> Asleep, Online' <=> Online, CsrsKept
  PROVE  Order!Step
  BY DEF Order!Step, Order!Request, Order!mstatus, Order!settings, Asleep, Online, CsrsKept

LEMMA CsrsKeptNext ==
  ASSUME Inv, NEW ready \in BOOLEAN, Cycle(ready), ~csr.we, ~Ack, ~End
  PROVE  CsrsKept
<1>1. TypeOK
  BY DEF Inv
<1>2. QED  BY <1>1, CsrNext DEF CsrsKept

(* Debug mode as the debugger sees it ends with the return from it.         *)
LEMMA OnlineNext ==
  ASSUME Inv, NEW ready \in BOOLEAN, Cycle(ready)
  PROVE  /\ ex.state # "TRAP_EXECUTE" => (Online <=> running)
         /\ ~Ack /\ ~(ex.state = "TRAP_EXIT" /\ debug.state = "EXIT") => (Online' <=> Online)
         /\ Ack => (Online' <=> running \/ trap.cause \in ToDebug)
         /\ ex.state = "TRAP_EXIT" /\ debug.state = "EXIT" => Online /\ ~Online'
<1>1. TypeOK /\ Debugging /\ ExecuteEngine(ready) /\ DebugControl
  BY DEF Inv, Cycle
<1>2. debug.state \in {"OFFLINE", "PENDING", "ONLINE", "EXIT"}
  BY <1>1 DEF TypeOK
<1>3. CASE debug.state \in {"OFFLINE", "PENDING"}
  <2>1. debug'.state = "ONLINE" <=> (Ack /\ trap.cause \in ToDebug)
    BY <1>1, <1>3, DebugNext DEF Debugging, Ack
  <2>2. debug'.state # "EXIT"
    BY <1>1, <1>3, DebugNext
  <2>3. QED  BY <1>3, <2>1, <2>2 DEF Online, running
<1>4. CASE debug.state = "ONLINE"
  <2>1. debug'.state \in {"ONLINE", "EXIT"} /\ (debug'.state = "EXIT" => ex'.state = "TRAP_EXIT")
    BY <1>1, <1>4, DebugNext, EngineNext
  <2>2. QED  BY <1>4, <2>1 DEF Online, running
<1>5. CASE debug.state = "EXIT"
  <2>1. ex.state \in {"TRAP_EXIT", "TRAP_EXECUTE"}
    BY <1>1, <1>5 DEF Debugging
  <2>2. CASE ex.state = "TRAP_EXIT"
    BY <1>1, <1>5, <2>2, DebugNext, EngineNext DEF Online, running, Ack
  <2>3. CASE ex.state = "TRAP_EXECUTE"
    BY <1>1, <1>5, <2>3, DebugNext, EngineNext DEF Online, running, Ack
  <2>4. QED  BY <2>1, <2>2, <2>3
<1>6. QED  BY <1>2, <1>3, <1>4, <1>5

(* An instruction in progress is the one that is here, and nothing is due.  *)
LEMMA Progress ==
  ASSUME Inv, InProgress
  PROVE  /\ Order!Ready /\ ~Asleep /\ DueNow = "none" /\ (Online <=> running)
         /\ Here = IF ex.state = "EXECUTE" THEN ex.pc ELSE ex.last
         /\ ex.state = "EXECUTE" \/ ex.state \in Inside \/ csr.we
<1>1. TypeOK /\ Placed /\ Sleeping /\ Debugging
  BY DEF Inv
<1>2. ex.state = "EXECUTE" \/ ex.state \in Inside \/ csr.we
  BY DEF InProgress, Inside
<1>3. DueNow = "none" /\ Here = IF ex.state = "EXECUTE" THEN ex.pc ELSE ex.last
  BY DueCases DEF DueIs, HereIs
<1>4. ~sleep /\ (Online <=> running)
  BY <1>1, <1>2 DEF Sleeping, Between, Inside, TypeOK, Debugging, Online, running
<1>5. prog[Here] \notin {"unreachable", "misaligned"}
  <2>1. CASE ex.state = "EXECUTE"  BY <1>1, <1>3, <2>1 DEF Placed, kind
  <2>2. CASE ex.state \in Inside  BY <1>1, <1>3, <2>2 DEF Placed, Inside, kind, CsrWrites
  <2>3. CASE csr.we  BY <1>1, <1>3, <2>3 DEF TypeOK, CsrWrites
  <2>4. QED  BY <1>2, <2>1, <2>2, <2>3
<1>6. QED  BY <1>2, <1>3, <1>4, <1>5 DEF Order!Ready, Order!Fetchable, Asleep

(* Outside of an instruction, without a new exception, what is due stays,   *)
(* but for a request of the debugger.                                       *)
LEMMA DueKept ==
  ASSUME Inv, NEW ready \in BOOLEAN, Cycle(ready), ~InProgress, ~InProgress', ~Ack, ~Ack',
         ex.state # "TRAP_ENTER", trap'.exc = trap.exc
  PROVE  DueNow' = DueNow \/ (DueNow = "irq" /\ DueNow' = "debug")
<1>1. TypeOK /\ Requested
  BY DEF Inv
<1>2. ex.state # "EXECUTE"
  BY DEF InProgress
<1>3. CASE trap.exc # {}
  <2>1. DueException' = DueException
    BY DEF DueException
  <2>2. QED  BY <1>3, <2>1, DueCases, DueCasesNext DEF DueIs
<1>4. CASE trap.exc = {}
  <2>1. trap'.start <=> trap.start
    BY <1>1, <1>2, <1>4, SignalsNext DEF EnvStart, exc_fire, IrqWindow, TypeOK
  <2>2. trap.start /\ trap.irq \intersect DebugIrqs # {} => trap'.irq \intersect DebugIrqs # {}
    <3>1. SUFFICES ASSUME trap.start, trap.irq \intersect DebugIrqs # {}
                   PROVE  trap'.irq \intersect DebugIrqs # {}
      OBVIOUS
    <3>2. ~running
      BY <1>1, <3>1 DEF Requested
    <3>3. trig_halt \/ trig_step
      BY <1>1, <3>1, <3>2 DEF Requested, DebugIrqs, trig_halt, trig_step
    <3>4. QED  BY <1>1, <3>3, SignalsNext DEF DebugIrqs
  <2>3. QED  BY <1>4, <2>1, <2>2, DueCases, DueCasesNext DEF DueIs
<1>5. QED  BY <1>3, <1>4

(* An interrupt that becomes due may interrupt.                             *)
DueMay ==
  \/ DueNow' = "none"
  \/ DueNow' = "irq" /\ csr.mstatus_mie /\ ~running /\ ~csr.step
  \/ DueNow' = "debug" /\ ~running

LEMMA MayInterrupt ==
  ASSUME Inv, NEW ready \in BOOLEAN, Cycle(ready), ~InProgress', ~Ack', ex.state # "TRAP_EXECUTE",
         trap.exc = {}, trap'.exc = {},
         trap.start => trap.irq \intersect DebugIrqs # {} \/ (csr.mstatus_mie /\ ~running /\ ~csr.step)
  PROVE  DueMay
<1>1. TypeOK /\ Requested
  BY DEF Inv
<1>2. CASE ~trap'.start
  BY <1>2, DueCasesNext DEF DueIs, DueMay
<1>3. CASE trap'.start
  <2>1. trap.irq \intersect DebugIrqs # {} \/ (csr.mstatus_mie /\ ~running /\ ~csr.step)
    BY <1>1, <1>3, SignalsNext DEF EnvStart, exc_fire, irq_fire
  <2>2. CASE trap'.irq \intersect DebugIrqs # {}
    <3>1. ~running
      BY <1>1, <2>2, SignalsNext DEF DebugIrqs, trig_halt, trig_step
    <3>2. QED  BY <1>3, <2>2, <3>1, DueCasesNext DEF DueIs, DueMay
  <2>3. CASE trap'.irq \intersect DebugIrqs = {}
    <3>1. ~trig_halt /\ ~trig_step
      BY <1>1, <2>3, SignalsNext DEF DebugIrqs
    <3>2. trap.irq \intersect DebugIrqs = {}
      BY <1>1, <3>1 DEF Requested, DebugIrqs, trig_halt, trig_step
    <3>3. QED  BY <1>3, <2>1, <2>3, <3>2, DueCasesNext DEF DueIs, DueMay
  <2>4. QED  BY <2>2, <2>3
<1>4. QED  BY <1>2, <1>3

(* What is due behind an instruction that did not fault: an interrupt that  *)
(* may interrupt, a request of the debugger, or the trigger.                *)
BehindDue == DueMay \/ (DueNow' = "db_hw" /\ csr.tdata1_exe /\ Here \in Trigger /\ ~running)

LEMMA DueBehind ==
  ASSUME Inv, NEW ready \in BOOLEAN, Cycle(ready), InProgress, ~InProgress',
         trap'.exc \subseteq {"db_hw"}
  PROVE  BehindDue
<1>1. TypeOK /\ Owned /\ Interruptible /\ ExecuteEngine(ready) /\ TypeOK'
  BY TypeNext DEF Inv, Cycle
<1>2. /\ ex.state = "EXECUTE" \/ ex.state \in Inside \/ csr.we
      /\ Here = IF ex.state = "EXECUTE" THEN ex.pc ELSE ex.last
  BY Progress
<1>3. ex.state \in {"EXECUTE", "DISPATCH"} \union Inside
  BY <1>1, <1>2 DEF TypeOK
<1>4. ~Ack' /\ ex.state # "TRAP_EXECUTE"
  BY <1>1, <1>3, EngineNext, EngineType DEF Ack, Inside, AfterExecute
<1>5. trap.exc \subseteq trap'.exc
  <2>1. CASE ex.state = "EXECUTE"  BY <1>1, <2>1, FlagsNext
  <2>2. CASE ex.state = "DISPATCH"  BY <1>1, <2>2, FlagsNext
  <2>3. CASE ex.state = "SYSTEM"  BY <1>1, <2>3, FlagsNext
  <2>4. CASE ex.state = "WORK"  BY <1>1, <2>4, FlagsNext
  <2>5. CASE ex.state \in {"BRANCH", "TRAP_EXIT"}  BY <1>1, <2>5, FlagsNext
  <2>6. QED  BY <1>3, <2>1, <2>2, <2>3, <2>4, <2>5 DEF Inside
<1>6. CASE trap'.exc = {}
  <2>1. trap.start => trap.irq \intersect DebugIrqs # {} \/ (csr.mstatus_mie /\ ~running /\ ~csr.step)
    BY <1>1, <1>2, <1>5, <1>6 DEF Owned, Interruptible
  <2>2. QED  BY <1>4, <1>5, <1>6, <2>1, MayInterrupt DEF BehindDue
<1>7. CASE "db_hw" \in trap'.exc
  <2>1. DueNow' = "db_hw"
    BY <1>1, <1>7, DueCasesNext, DueFirstNext DEF DueIs, DueIsFirst
  <2>2. CASE "db_hw" \in trap.exc
    BY <1>1, <1>2, <2>1, <2>2 DEF Owned, BehindDue
  <2>3. CASE "db_hw" \notin trap.exc
    <3>1. ex.state = "EXECUTE"
      <4>1. CASE ex.state = "DISPATCH"
        BY <1>1, <1>7, <2>3, <4>1, FlagsNext DEF FetchFault
      <4>2. CASE ex.state = "SYSTEM"
        BY <1>1, <1>7, <2>3, <4>2, FlagsNext
      <4>3. CASE ex.state = "WORK"
        BY <1>1, <1>7, <2>3, <4>3, FlagsNext, RaisedType DEF DataExceptions
      <4>4. CASE ex.state \in {"BRANCH", "TRAP_EXIT"}
        BY <1>1, <1>7, <2>3, <4>4, FlagsNext
      <4>5. QED  BY <1>3, <4>1, <4>2, <4>3, <4>4 DEF Inside
    <3>2. trig_hw
      BY <1>1, <1>7, <2>3, <3>1, FlagsNext
    <3>3. QED  BY <1>2, <2>1, <3>1, <3>2 DEF trig_hw, BehindDue
  <2>4. QED  BY <2>2, <2>3
<1>8. QED  BY <1>6, <1>7

(* An instruction ends without an effect on traps.                          *)
LEMMA PlainFinish ==
  ASSUME Inv, InProgress, BehindDue, ex'.last = Here, prog' = prog, CsrsKept,
         Online' <=> Online, ~Asleep',
         \/ /\ prog[Here] \in {"alu", "wait", "load", "store", "fence"}
            /\ Here' = Succ[Here]
         \/ prog[Here] = "jump" /\ Here' \in Targets \union {Succ[Here]}
  PROVE  Order!Finish
<1>1. Order!Ready /\ ~Asleep /\ (Online <=> running)
  BY Progress
<1>2. \/ DueNow' = "none"
      \/ DueNow' \in {"irq", "debug"} /\ Order!Due(DueNow')
      \/ DueNow' = "db_hw" /\ csr.tdata1_exe /\ Here \in Trigger /\ ~Online
  BY <1>1 DEF BehindDue, DueMay, Order!Due, Online
<1>3. QED
  BY <1>1, <1>2 DEF Order!Finish, Order!mstatus, Order!settings, CsrsKept, Asleep, Online

(* An instruction faults.                                                   *)
LEMMA PlainFault ==
  ASSUME Inv, InProgress, ~InProgress', ex'.state # "EXECUTE", FaultPending', ex'.last = Here,
         prog' = prog, CsrsKept, Online' <=> Online, ~Asleep',
         DueNow' \in Order!Raises(prog[Here])
  PROVE  Order!Fault
<1>1. Order!Ready /\ ~Asleep
  BY Progress
<1>2. Here' = Here
  BY DueCasesNext DEF HereIs
<1>3. QED
  BY <1>1, <1>2 DEF Order!Fault, Order!mstatus, Order!settings, CsrsKept, Asleep, Online

(* The step of an instruction that begins.                                  *)
LEMMA ExecuteStep ==
  ASSUME Inv, NEW ready \in BOOLEAN, Cycle(ready), ex.state = "EXECUTE"
  PROVE  Order!Step
<1>1. TypeOK /\ Placed /\ Owned /\ Sleeping /\ ExecuteEngine(ready) /\ TypeOK'
  BY TypeNext DEF Inv, Cycle
<1>2. InProgress /\ ~csr.we /\ Here = ex.pc /\ Order!Ready /\ ~Asleep /\ DueNow = "none"
  BY <1>1, Progress DEF TypeOK, InProgress
<1>3. /\ ex'.state \in AfterExecute /\ ex'.last = ex.pc /\ ex'.next = Succ[ex.pc]
      /\ ~ex'.branched /\ prog' = prog /\ ex'.pc = ex.pc
  BY <1>1, EngineNext, SignalsNext DEF Placed
<1>4. CsrsKept /\ ~csr'.we
  BY <1>1, <1>2, CsrsKeptNext, CsrNext DEF Ack, End, Request
<1>5. (Online' <=> Online) /\ ~Asleep'
  BY <1>1, OnlineNext, SignalsNext DEF Ack, Sleeping, Between, Asleep
<1>6. /\ trap'.exc \subseteq {"illegal", "db_hw"}
      /\ "illegal" \in trap'.exc <=> Illegal
  BY <1>1, FlagsNext DEF Owned
<1>7. CASE ex'.state \in Inside
  <2>1. InProgress' /\ ex'.state # "EXECUTE"
    BY <1>7 DEF InProgress, Inside
  <2>2. Here' = Here /\ DueNow' = "none"
    BY <1>2, <1>3, <2>1, DueCasesNext DEF DueIs, HereIs
  <2>3. Order!Begin
    BY <1>2, <1>3, <1>4, <1>5, <2>2
    DEF Order!Begin, Order!mstatus, Order!settings, CsrsKept, Asleep, Online
  <2>4. QED  BY <2>3 DEF Order!Step
<1>8. CASE ex'.state \notin Inside
  <2>1. \/ ex'.state = "DISPATCH" /\ kind \in {"alu", "illegal"}
        \/ ex'.state = "TRAP_EXECUTE" /\ kind \in {"fence", "illegal"}
    <3>1. CASE kind = "illegal"  BY <1>3, <1>8, <3>1 DEF AfterExecute, Inside
    <3>2. CASE kind \in {"wait", "load", "store"}  BY <1>3, <1>8, <3>2 DEF AfterExecute, Inside
    <3>3. CASE kind \in {"jump", "fence", "alu"}  BY <1>3, <1>8, <3>3 DEF AfterExecute, Inside
    <3>4. CASE kind \notin {"illegal", "wait", "load", "store", "jump", "fence", "alu"}
      BY <1>3, <1>8, <3>4 DEF AfterExecute, Inside
    <3>5. QED  BY <3>1, <3>2, <3>3, <3>4
  <2>2. ~InProgress' /\ ex'.state # "EXECUTE"
    BY <1>4, <2>1 DEF InProgress
  <2>3. CASE kind = "illegal"
    <3>1. FaultPending' /\ "illegal" \in trap'.exc
      BY <1>6, <2>3 DEF FaultPending, Illegal
    <3>2. DueNow' = "illegal"
      BY <1>1, <1>6, <2>2, <3>1, DueCasesNext, DueFirstNext DEF DueIs, DueIsFirst, ToDebug, DebugIrqs
    <3>3. DueNow' \in Order!Raises(prog[Here])
      BY <1>2, <2>3, <3>2 DEF Order!Raises, kind
    <3>4. QED
      BY <1>2, <1>3, <1>4, <1>5, <2>2, <3>1, <3>3, PlainFault DEF Order!Step
  <2>4. CASE kind # "illegal"
    <3>1. trap'.exc \subseteq {"db_hw"} /\ ~FaultPending'
      BY <1>6, <2>1, <2>4 DEF Illegal, FaultPending
    <3>2. Here' = Succ[Here]
      BY <1>2, <1>3, <2>1, <2>2, <3>1, DueCasesNext DEF HereIs
    <3>3. BehindDue
      BY <1>2, <2>2, <3>1, DueBehind
    <3>4. prog[Here] \in {"alu", "fence"}
      BY <1>2, <2>1, <2>4 DEF kind
    <3>5. QED
      BY <1>2, <1>3, <1>4, <1>5, <3>2, <3>3, <3>4, PlainFinish DEF Order!Step
  <2>5. QED  BY <2>3, <2>4
<1>9. QED  BY <1>7, <1>8

(* The steps in ALU_WAIT, MEM_REQ, MEM_WAIT and VECTOR_WAIT.                *)
LEMMA WorkStep ==
  ASSUME Inv, NEW ready \in BOOLEAN, Cycle(ready), ex.state = "WORK"
  PROVE  Order!Step
<1>1. TypeOK /\ Placed /\ Owned /\ Sleeping /\ ExecuteEngine(ready) /\ TypeOK'
  BY TypeNext DEF Inv, Cycle
<1>2. InProgress /\ ~csr.we /\ Here = ex.last /\ ~Asleep /\ DueNow = "none"
  BY <1>1, Progress DEF TypeOK, InProgress
<1>3. /\ ex'.last = ex.last /\ ex.last = ex.pc /\ ex'.next = Succ[ex.last] /\ prog' = prog
      /\ ~ex'.branched
  BY <1>1, EngineNext, SignalsNext DEF Placed, Inside
<1>4. CsrsKept /\ ~csr'.we
  BY <1>1, <1>2, CsrsKeptNext, CsrNext DEF Ack, End, Request
<1>5. (Online' <=> Online) /\ ~Asleep'
  BY <1>1, OnlineNext, SignalsNext DEF Ack, Sleeping, Between, Asleep
<1>6. PICK report \in Reports(ready) : trap'.exc = trap.exc \union report
  BY <1>1, FlagsNext
<1>7. CASE ex'.state = "WORK"
  <2>1. InProgress'
    BY <1>7 DEF InProgress
  <2>2. Here' = Here /\ DueNow' = "none"
    BY <1>2, <1>3, <1>7, <2>1, DueCasesNext DEF DueIs, HereIs
  <2>3. QED  BY <1>2, <1>3, <1>4, <1>5, <2>2, Stutter
<1>8. CASE ex'.state # "WORK"
  <2>1. ex'.state = "DISPATCH" /\ (ready \/ Flagged \/ trap.exc \intersect DataExceptions # {})
    BY <1>1, <1>8, EngineNext
  <2>2. trap'.exc = trap.exc
    BY <1>6, <2>1 DEF Reports
  <2>3. ~InProgress' /\ ex'.state # "EXECUTE"
    BY <1>4, <2>1 DEF InProgress
  <2>4. /\ kind \in {"illegal", "wait", "load", "store"} /\ kind = prog[Here]
        /\ trap'.exc \subseteq {"illegal", "db_hw"} \union DataExceptions
        /\ "illegal" \in trap'.exc <=> kind = "illegal"
        /\ trap'.exc \intersect {"lalign", "laccess"} # {} => kind = "load"
        /\ trap'.exc \intersect {"salign", "saccess"} # {} => kind = "store"
    BY <1>1, <1>2, <1>3, <2>2 DEF Placed, Owned, Illegal, Inside, kind
  <2>5. CASE trap'.exc \ {"db_hw"} # {}
    <3>1. FaultPending' /\ trap'.exc \ ToDebug # {} /\ trap'.exc # {}
      BY <2>4, <2>5 DEF FaultPending, DataExceptions, ToDebug, DebugIrqs
    <3>2. DueNow' \in trap'.exc /\ DueNow' # "db_hw"
      BY <1>1, <2>3, <3>1, DueCasesNext, DueFirstNext DEF DueIs, DueIsFirst, ToDebug
    <3>3. DueNow' \in Order!Raises(prog[Here])
      BY <2>4, <3>2 DEF Order!Raises, DataExceptions
    <3>4. QED
      BY <1>2, <1>3, <1>4, <1>5, <2>3, <3>1, <3>3, PlainFault DEF Order!Step
  <2>6. CASE trap'.exc \ {"db_hw"} = {}
    <3>1. trap'.exc \subseteq {"db_hw"} /\ ~FaultPending' /\ kind # "illegal"
      BY <2>4, <2>6 DEF FaultPending
    <3>2. Here' = Succ[Here]
      BY <1>2, <1>3, <2>1, <2>3, <3>1, DueCasesNext DEF HereIs
    <3>3. BehindDue
      BY <1>2, <2>3, <3>1, DueBehind
    <3>4. QED
      BY <1>2, <1>3, <1>4, <1>5, <2>4, <3>1, <3>2, <3>3, PlainFinish DEF Order!Step
  <2>7. QED  BY <2>5, <2>6
<1>9. QED  BY <1>7, <1>8

(* The step of a jump or branch.                                            *)
LEMMA BranchStep ==
  ASSUME Inv, NEW ready \in BOOLEAN, Cycle(ready), ex.state = "BRANCH"
  PROVE  Order!Step
<1>1. TypeOK /\ Placed /\ Owned /\ Sleeping /\ ExecuteEngine(ready) /\ TypeOK'
  BY TypeNext DEF Inv, Cycle
<1>2. InProgress /\ ~csr.we /\ Here = ex.last /\ ~Asleep
  BY <1>1, Progress DEF TypeOK, InProgress
<1>3. /\ ex'.last = ex.last /\ ex.last = ex.pc /\ ex'.next = Succ[ex.last] /\ prog' = prog
      /\ ex'.pc \in Targets /\ ex'.state \in {"BRANCHED", "DISPATCH"} /\ ~ex'.branched
  BY <1>1, EngineNext, SignalsNext DEF Placed, Inside
<1>4. CsrsKept /\ ~csr'.we
  BY <1>1, <1>2, CsrsKeptNext, CsrNext DEF Ack, End, Request
<1>5. (Online' <=> Online) /\ ~Asleep'
  BY <1>1, OnlineNext, SignalsNext DEF Ack, Sleeping, Between, Asleep
<1>6. /\ trap'.exc = trap.exc /\ trap.exc \subseteq {"illegal", "db_hw"}
      /\ "illegal" \in trap.exc <=> kind = "illegal"
      /\ kind \in {"illegal", "jump"} /\ kind = prog[Here]
  BY <1>1, <1>2, <1>3, FlagsNext DEF Placed, Owned, Illegal, Inside, DataExceptions, kind
<1>7. ~InProgress' /\ ex'.state # "EXECUTE"
  BY <1>3, <1>4 DEF InProgress
<1>8. CASE kind = "illegal"
  <2>1. FaultPending' /\ "illegal" \in trap'.exc
    BY <1>6, <1>8 DEF FaultPending
  <2>2. DueNow' = "illegal"
    BY <1>1, <1>6, <1>7, <2>1, DueCasesNext, DueFirstNext DEF DueIs, DueIsFirst, ToDebug, DebugIrqs
  <2>3. DueNow' \in Order!Raises(prog[Here])
    BY <1>6, <1>8, <2>2 DEF Order!Raises
  <2>4. QED
    BY <1>2, <1>3, <1>4, <1>5, <1>7, <2>1, <2>3, PlainFault DEF Order!Step
<1>9. CASE kind = "jump"
  <2>1. trap'.exc \subseteq {"db_hw"} /\ ~FaultPending'
    BY <1>6, <1>9 DEF FaultPending
  <2>2. Here' \in Targets \union {Succ[Here]}
    BY <1>2, <1>3, <1>7, <2>1, DueCasesNext DEF HereIs
  <2>3. BehindDue
    BY <1>2, <1>7, <2>1, DueBehind
  <2>4. QED
    BY <1>2, <1>3, <1>4, <1>5, <1>6, <1>9, <2>2, <2>3, PlainFinish DEF Order!Step
<1>10. QED  BY <1>6, <1>8, <1>9

(* The step in SYSTEM.                                                      *)
LEMMA SystemStep ==
  ASSUME Inv, NEW ready \in BOOLEAN, Cycle(ready), ex.state = "SYSTEM"
  PROVE  Order!Step
<1>1. TypeOK /\ Placed /\ Owned /\ Sleeping /\ ExecuteEngine(ready) /\ TypeOK'
  BY TypeNext DEF Inv, Cycle
<1>2. /\ InProgress /\ ~csr.we /\ Here = ex.last /\ ~Asleep /\ DueNow = "none"
      /\ Order!Ready /\ (Online <=> running)
  BY <1>1, Progress DEF TypeOK, InProgress
<1>3. /\ ex'.last = ex.last /\ ex.last = ex.pc /\ ex'.next = Succ[ex.last] /\ prog' = prog
      /\ ex'.state \in {"DISPATCH", "TRAP_EXIT"} /\ ~ex'.branched
  BY <1>1, EngineNext, SignalsNext DEF Placed, Inside
<1>4. CsrsKept /\ (csr'.we <=> Request)
  BY <1>1, <1>2, CsrsKeptNext, CsrNext DEF Ack, End, Request
<1>5. Online' <=> Online
  BY <1>1, OnlineNext DEF Ack
<1>6. sleep' <=> kind = "wfi" /\ ~Flagged /\ ~running /\ ~csr.step
  BY <1>1, SignalsNext DEF Sleeping, Between
<1>7. /\ trap.exc \subseteq {"illegal", "db_hw"} /\ (Flagged <=> Illegal)
      /\ kind = prog[Here]
      /\ kind \in {"illegal", "ecall", "ebreak", "mret", "dret", "wfi"} \union CsrWrites
  BY <1>1, <1>2, <1>3 DEF Placed, Owned, Flagged, Inside, DataExceptions, kind
<1>8. /\ trap.exc \subseteq trap'.exc
      /\ trap'.exc = trap.exc \union
           (IF kind = "ecall" /\ ~Flagged THEN {"envcall"} ELSE {}) \union
           (IF BreakPoint /\ ~csr.ebreakm /\ ~running THEN {"break"} ELSE {}) \union
           (IF trig_break THEN {"db_break"} ELSE {})
  BY <1>1, FlagsNext
<1>9. CASE ex'.state = "TRAP_EXIT" \/ csr'.we
  <2>1. InProgress' /\ ex'.state # "EXECUTE" /\ kind # "wfi"
    BY <1>1, <1>3, <1>4, <1>9, EngineNext DEF InProgress, Request, CsrWrites
  <2>2. Here' = Here /\ DueNow' = "none"
    BY <1>2, <1>3, <2>1, DueCasesNext DEF DueIs, HereIs
  <2>3. QED  BY <1>2, <1>3, <1>4, <1>5, <1>6, <2>1, <2>2, Stutter DEF Asleep
<1>10. CASE ex'.state = "DISPATCH" /\ ~csr'.we
  <2>1. ~InProgress' /\ ex'.state # "EXECUTE"
    BY <1>10 DEF InProgress
  <2>2. kind \in {"mret", "dret"} \union CsrWrites => Flagged
    BY <1>1, <1>4, <1>10, EngineNext DEF Request
  <2>3. CASE Flagged
    <3>1. trap'.exc = trap.exc /\ "illegal" \in trap'.exc /\ ~sleep'
      BY <1>6, <1>8, <2>3 DEF Flagged, BreakPoint, trig_break
    <3>2. FaultPending'
      BY <3>1 DEF FaultPending
    <3>3. DueNow' = "illegal"
      BY <1>1, <1>7, <2>1, <3>1, DueCasesNext, DueFirstNext DEF DueIs, DueIsFirst, ToDebug, DebugIrqs
    <3>4. DueNow' \in Order!Raises(prog[Here])
      BY <1>2, <1>7, <2>3, <3>3 DEF Order!Raises, Illegal, Online
    <3>5. QED
      BY <1>2, <1>3, <1>4, <1>5, <2>1, <3>1, <3>2, <3>4, PlainFault DEF Order!Step, Asleep
  <2>4. CASE ~Flagged /\ kind = "ecall"
    <3>1. trap'.exc \subseteq {"envcall", "db_hw"} /\ "envcall" \in trap'.exc /\ ~sleep'
      BY <1>6, <1>7, <1>8, <2>4 DEF Flagged, BreakPoint, trig_break
    <3>2. FaultPending'
      BY <3>1 DEF FaultPending
    <3>3. DueNow' = "envcall"
      BY <1>1, <2>1, <3>1, DueCasesNext, DueFirstNext DEF DueIs, DueIsFirst, ToDebug, DebugIrqs
    <3>4. DueNow' \in Order!Raises(prog[Here])
      BY <1>7, <2>4, <3>3 DEF Order!Raises
    <3>5. QED
      BY <1>2, <1>3, <1>4, <1>5, <2>1, <3>1, <3>2, <3>4, PlainFault DEF Order!Step, Asleep
  <2>5. CASE ~Flagged /\ kind = "ebreak"
    <3>1. BreakPoint /\ ~sleep'
      BY <1>6, <2>5 DEF BreakPoint
    <3>2. /\ trap'.exc \subseteq {"break", "db_break", "db_hw"}
          /\ "break" \in trap'.exc <=> "db_break" \notin trap'.exc
          /\ running => "db_break" \in trap'.exc
      BY <1>7, <1>8, <2>5, <3>1 DEF Flagged, trig_break
    <3>3. FaultPending'
      BY <3>2 DEF FaultPending
    <3>4. DueNow' = IF "db_break" \in trap'.exc THEN "db_break" ELSE "break"
      <4>1. DueNow' = DueException' /\ DueIsFirst' /\ trap'.exc # {}
        BY <1>1, <2>1, <3>2, DueCasesNext, DueFirstNext DEF DueIs
      <4>2. "break" \notin ToDebug /\ "db_break" \in ToDebug /\ "db_hw" \in ToDebug
        BY DEF ToDebug, DebugIrqs
      <4>3. QED  BY <3>2, <4>1, <4>2 DEF DueIsFirst
    <3>5. DueNow' \in Order!Raises(prog[Here])
      BY <1>2, <1>7, <2>5, <3>2, <3>4 DEF Order!Raises, Online
    <3>6. QED
      BY <1>2, <1>3, <1>4, <1>5, <2>1, <3>1, <3>3, <3>5, PlainFault DEF Order!Step, Asleep
  <2>6. CASE ~Flagged /\ kind = "wfi"
    <3>1. trap'.exc \subseteq {"db_hw"} /\ ~FaultPending'
      BY <1>7, <1>8, <2>6 DEF Flagged, BreakPoint, trig_break, FaultPending
    <3>2. Here' = Succ[Here]
      BY <1>2, <1>3, <1>10, <2>1, <3>1, DueCasesNext DEF HereIs
    <3>3. BehindDue
      BY <1>2, <2>1, <3>1, DueBehind
    <3>4. Asleep' <=> ~Online /\ ~csr.step
      BY <1>2, <1>6, <1>10, <2>6 DEF Asleep
    <3>5. Order!Finish
      BY <1>2, <1>3, <1>4, <1>5, <1>7, <2>6, <3>2, <3>3, <3>4
      DEF Order!Finish, Order!Due, Order!mstatus, Order!settings, CsrsKept, BehindDue, DueMay,
        Asleep, Online
    <3>6. QED  BY <3>5 DEF Order!Step
  <2>7. CASE kind = "illegal" /\ ~Flagged
    BY <1>7, <2>7 DEF Illegal
  <2>8. QED  BY <1>7, <2>2, <2>3, <2>4, <2>5, <2>6, <2>7
<1>11. QED  BY <1>3, <1>9, <1>10

(* The step of mret and dret.                                               *)
LEMMA ExitStep ==
  ASSUME Inv, NEW ready \in BOOLEAN, Cycle(ready), ex.state = "TRAP_EXIT"
  PROVE  Order!Step
<1>1. TypeOK /\ Placed /\ Owned /\ Sleeping /\ Debugging /\ ExecuteEngine(ready)
  BY DEF Inv, Cycle
<1>2. /\ InProgress /\ ~csr.we /\ Here = ex.last /\ ~Asleep /\ DueNow = "none"
      /\ Order!Ready /\ (Online <=> running)
  BY <1>1, Progress DEF TypeOK, InProgress
<1>3. /\ ex'.last = ex.last /\ ex.last = ex.pc /\ prog' = prog
      /\ ex'.state = "TRAP_EXECUTE" /\ ex'.next = IF running THEN csr.dpc ELSE csr.mepc
  BY <1>1, EngineNext, SignalsNext DEF Placed, Inside
<1>4. /\ ~csr'.we /\ csr'.mcause = csr.mcause /\ csr'.mepc = csr.mepc /\ csr'.dpc = csr.dpc
      /\ csr'.step = csr.step /\ csr'.tdata1_exe = csr.tdata1_exe
      /\ IF running
         THEN csr'.mstatus_mie = csr.mstatus_mie /\ csr'.mstatus_mpie = csr.mstatus_mpie
         ELSE csr'.mstatus_mie = csr.mstatus_mpie /\ csr'.mstatus_mpie = TRUE
  <2>1. csr' \in CsrType
    BY <1>1, CsrNext
  <2>2. QED  BY <1>1, <1>2, <2>1, CsrNext DEF Ack, End, Request, CsrType
<1>5. ~Asleep'
  BY <1>1, SignalsNext DEF Sleeping, Between, Asleep
<1>6. /\ kind = prog[Here] /\ kind \in {"mret", "dret"}
      /\ kind = "dret" <=> debug.state = "EXIT"
  BY <1>1, <1>2, <1>3 DEF Placed, Debugging, kind
<1>7. /\ kind = "dret" => running /\ Online /\ ~Online'
      /\ kind = "mret" => (Online' <=> Online)
  BY <1>1, <1>2, <1>6, OnlineNext DEF running, Ack
<1>8. trap'.exc \subseteq {"db_hw"}
  BY <1>1, <1>6, <1>7, FlagsNext DEF Owned, Illegal, Inside, DataExceptions
<1>9. ~InProgress' /\ ex'.state # "EXECUTE" /\ ~FaultPending'
  BY <1>3, <1>4, <1>8 DEF InProgress, FaultPending
<1>10. Here' = IF running THEN csr.dpc ELSE csr.mepc
  BY <1>3, <1>9, DueCasesNext DEF HereIs
<1>11. BehindDue
  BY <1>2, <1>8, <1>9, DueBehind
<1>12. Order!Finish
  BY <1>2, <1>3, <1>4, <1>5, <1>6, <1>7, <1>10, <1>11
  DEF Order!Finish, Order!Due, Order!mstatus, Order!settings, BehindDue, DueMay, Asleep, Online
<1>13. QED  BY <1>12 DEF Order!Step

(* The cycle in which a write to a CSR is made; the next instruction may    *)
(* begin, or its fetch fail, at the same time.                              *)
LEMMA WriteStep ==
  ASSUME Inv, NEW ready \in BOOLEAN, Cycle(ready), csr.we
  PROVE  Order!Step /\ (prog[ex.last] \in {"w_mie", "w_mip"} => Order!TakesBack)
<1>1. TypeOK /\ Placed /\ Owned /\ Sleeping /\ ExecuteEngine(ready) /\ TypeOK'
  BY TypeNext DEF Inv, Cycle
<1>2. /\ ex.state = "DISPATCH" /\ InProgress /\ Here = ex.last /\ ~Asleep /\ DueNow = "none"
      /\ Order!Ready /\ (Online <=> running)
  BY <1>1, Progress DEF TypeOK, InProgress
<1> DEFINE k == prog[ex.last]
<1>3. /\ ~csr'.we /\ csr'.mcause = csr.mcause /\ csr'.dpc = csr.dpc /\ csr' \in CsrType
      /\ k # "w_dcsr" => csr'.step = csr.step
      /\ k # "w_tdata" \/ ~running => csr'.tdata1_exe = csr.tdata1_exe
      /\ k # "w_mstatus" =>
           csr'.mstatus_mie = csr.mstatus_mie /\ csr'.mstatus_mpie = csr.mstatus_mpie
      /\ csr'.mepc = IF k = "w_mepc" THEN ReturnAddress ELSE csr.mepc
      /\ k \in CsrWrites /\ prog' = prog
  BY <1>1, CsrNext, SignalsNext
<1>4. ~Asleep' /\ (Online' <=> Online)
  BY <1>1, <1>2, OnlineNext, SignalsNext DEF Ack, Sleeping, Asleep
<1>5. /\ ~ex.branched /\ ex.next = Succ[ex.last] /\ Fetched = ex.next
      /\ trap.exc \subseteq {"db_hw"} /\ (k = "w_dcsr" => running)
  BY <1>1 DEF Placed, Owned, Fetched
<1>6. /\ ex'.last = ex.last
      /\ \/ ~ready /\ ex' = ex
         \/ /\ ready /\ ex'.pc = ex.next /\ ex'.next = ex.next
            /\ ex'.state = IF sleep \/ trap.exc # {} \/ trap.start \/ FetchFault(Fetched) # {}
                           THEN "TRAP_ENTER" ELSE "EXECUTE"
  BY <1>1, <1>2, <1>5, EngineNext
<1>7. trap'.exc = trap.exc \union IF ready THEN FetchFault(Fetched) ELSE {}
  BY <1>1, <1>2, FlagsNext
<1>8. ~FaultPending'
  BY <1>5, <1>7 DEF FaultPending, FetchFault
<1>9. Here' = Succ[Here]
  <2>1. CASE ex'.state = "EXECUTE"
    BY <1>2, <1>5, <1>6, <2>1, DueCasesNext DEF HereIs
  <2>2. CASE ex'.state # "EXECUTE"
    <3>1. ~InProgress'
      BY <1>2, <1>3, <1>6, <2>2 DEF InProgress
    <3>2. QED
      BY <1>2, <1>5, <1>6, <1>8, <2>2, <3>1, DueCasesNext DEF HereIs
  <2>3. QED  BY <2>1, <2>2
<1>10. BehindDue \/ (DueNow' \in Order!FetchFaults /\ ~Order!Fetchable(Here'))
  <2>1. CASE ex'.state = "EXECUTE"
    <3>1. InProgress'
      BY <2>1 DEF InProgress
    <3>2. QED  BY <3>1, DueCasesNext DEF DueIs, BehindDue, DueMay
  <2>2. CASE ex'.state # "EXECUTE" /\ trap'.exc \subseteq {"db_hw"}
    <3>1. ~InProgress'
      BY <1>2, <1>3, <1>6, <2>2 DEF InProgress
    <3>2. QED  BY <1>2, <2>2, <3>1, DueBehind
  <2>3. CASE ~(trap'.exc \subseteq {"db_hw"})
    <3>1. FetchFault(Fetched) # {} /\ ready
      BY <1>5, <1>7, <2>3
    <3>2. PICK f \in {"ialign", "iaccess"} : FetchFault(Fetched) = {f}
      BY <3>1 DEF FetchFault
    <3>3. prog[Fetched] \in {"unreachable", "misaligned"}
      BY <3>1 DEF FetchFault
    <3>4. ~InProgress'
      BY <1>3, <1>6, <3>1 DEF InProgress
    <3>5. DueNow' \in trap'.exc /\ DueNow' # "db_hw"
      BY <1>1, <1>7, <3>1, <3>2, <3>4, DueCasesNext, DueFirstNext
      DEF DueIs, DueIsFirst, ToDebug, DebugIrqs
    <3>6. DueNow' \in Order!FetchFaults
      BY <1>5, <1>7, <3>2, <3>5 DEF Order!FetchFaults
    <3>7. ~Order!Fetchable(Here')
      BY <1>2, <1>3, <1>5, <1>9, <3>3 DEF Order!Fetchable
    <3>8. QED  BY <3>6, <3>7
  <2>4. QED  BY <2>1, <2>2, <2>3
<1>11. /\ csr'.step \in BOOLEAN /\ csr'.tdata1_exe \in BOOLEAN
       /\ csr'.mstatus_mie \in BOOLEAN /\ csr'.mstatus_mpie \in BOOLEAN
  BY <1>3 DEF CsrType
<1>12. /\ \/ DueNow' = "none"
          \/ DueNow' \in {"irq", "debug"} /\ Order!Due(DueNow')
          \/ DueNow' = "db_hw" /\ csr.tdata1_exe /\ Here \in Trigger /\ ~Online
          \/ DueNow' \in Order!FetchFaults /\ ~Order!Fetchable(Here')
       /\ k = prog[Here]
  BY <1>2, <1>10 DEF BehindDue, DueMay, Order!Due, Online
<1>13. CASE k \in {"w_mie", "w_mip"}
  <2>1. Order!Finish
    BY <1>2, <1>3, <1>4, <1>6, <1>9, <1>12, <1>13
    DEF Order!Finish, Order!mstatus, Order!settings, Asleep, Online
  <2>2. QED  BY <1>12, <1>13, <2>1 DEF Order!Step, Order!TakesBack
<1>14. CASE k = "w_mstatus"
  <2>1. Order!Finish
    BY <1>2, <1>3, <1>4, <1>6, <1>9, <1>11, <1>12, <1>14
    DEF Order!Finish, Order!mstatus, Order!settings, Asleep, Online
  <2>2. QED  BY <1>14, <2>1 DEF Order!Step
<1>15. CASE k = "w_mepc"
  <2>1. Order!Finish
    BY <1>2, <1>3, <1>4, <1>6, <1>9, <1>12, <1>15
    DEF Order!Finish, Order!mstatus, Order!settings, Asleep, Online, ReturnAddress
  <2>2. QED  BY <1>15, <2>1 DEF Order!Step
<1>16. CASE k = "w_dcsr"
  <2>1. Order!Finish
    BY <1>2, <1>3, <1>4, <1>5, <1>6, <1>9, <1>11, <1>12, <1>16
    DEF Order!Finish, Order!mstatus, Order!settings, Asleep, Online
  <2>2. QED  BY <1>16, <2>1 DEF Order!Step
<1>17. CASE k = "w_tdata"
  <2>1. Order!Finish
    BY <1>2, <1>3, <1>4, <1>6, <1>9, <1>11, <1>12, <1>17
    DEF Order!Finish, Order!mstatus, Order!settings, Asleep, Online
  <2>2. QED  BY <1>17, <2>1 DEF Order!Step
<1>18. QED  BY <1>3, <1>13, <1>14, <1>15, <1>16, <1>17 DEF CsrWrites

(* Between instructions the abstract state stays, but for a request of the  *)
(* debugger that overtakes an interrupt.                                    *)
LEMMA BetweenStep ==
  ASSUME Inv, Here' = Here, DueNow' = DueNow \/ (DueNow = "irq" /\ DueNow' = "debug"),
         ex'.last = ex.last, prog' = prog, Asleep' <=> Asleep, Online' <=> Online, CsrsKept
  PROVE  Order!Step
<1>1. CASE DueNow' = DueNow
  BY <1>1, Stutter
<1>2. CASE DueNow = "irq" /\ DueNow' = "debug"
  <2>1. Order!Overtake
    BY <1>2 DEF Order!Overtake, Order!mstatus, Order!settings, CsrsKept, Asleep, Online
  <2>2. QED  BY <2>1 DEF Order!Step
<1>3. QED  BY <1>1, <1>2

(* The steps behind a jump and into a handler.                              *)
LEMMA JumpStep ==
  ASSUME Inv, NEW ready \in BOOLEAN, Cycle(ready), ex.state \in {"BRANCHED", "TRAP_EXECUTE"}
  PROVE  Order!Step
<1>1. TypeOK /\ Sleeping /\ ExecuteEngine(ready)
  BY DEF Inv, Cycle
<1>2. ~csr.we /\ ~csr'.we /\ CsrsKept
  BY <1>1, CsrsKeptNext, CsrNext DEF TypeOK, Request, Ack, End
<1>3. /\ ex'.last = ex.last /\ prog' = prog /\ trap'.exc = trap.exc
      /\ ex.state = "BRANCHED" => ex'.state = "DISPATCH" /\ ex'.branched /\ ex'.pc = ex.pc
      /\ ex.state = "TRAP_EXECUTE" => ex'.state = "BRANCHED" /\ ex'.pc = ex.next
  BY <1>1, EngineNext, SignalsNext, FlagsNext
<1>4. ~InProgress /\ ~InProgress' /\ ~Ack /\ ~Ack' /\ (FaultPending' <=> FaultPending)
  BY <1>2, <1>3 DEF InProgress, Ack, FaultPending
<1>5. DueNow' = DueNow \/ (DueNow = "irq" /\ DueNow' = "debug")
  BY <1>3, <1>4, DueKept
<1>6. Here' = Here
  BY <1>3, <1>4, DueCases, DueCasesNext DEF HereIs
<1>7. (Online' <=> Online) /\ (Asleep' <=> Asleep)
  BY <1>1, <1>4, OnlineNext, SignalsNext DEF Sleeping, Between, Asleep
<1>8. QED  BY <1>2, <1>3, <1>5, <1>6, <1>7, BetweenStep

(* The steps in DISPATCH without a write to a CSR: waiting for an           *)
(* instruction, its begin, or what comes instead of it.                     *)
LEMMA DispatchStep ==
  ASSUME Inv, NEW ready \in BOOLEAN, Cycle(ready), ex.state = "DISPATCH", ~csr.we
  PROVE  Order!Step
<1>1. TypeOK /\ Sleeping /\ Owned /\ ExecuteEngine(ready) /\ TypeOK'
  BY TypeNext DEF Inv, Cycle
<1>2. ~csr'.we /\ CsrsKept /\ prog' = prog /\ ~InProgress /\ ~Ack
  BY <1>1, CsrsKeptNext, CsrNext, SignalsNext DEF Request, Ack, End, InProgress
<1>3. /\ Online' <=> Online
      /\ sleep' <=> sleep
  BY <1>1, <1>2, OnlineNext, SignalsNext DEF Sleeping, TypeOK
<1>4. /\ ~ready => ex' = ex
      /\ ready => /\ ex'.pc = Fetched /\ ex'.last = ex.last /\ ~ex'.branched
                  /\ ex'.state = IF sleep \/ trap.exc # {} \/ trap.start \/ FetchFault(Fetched) # {}
                                 THEN "TRAP_ENTER" ELSE "EXECUTE"
      /\ trap'.exc = trap.exc \union IF ready THEN FetchFault(Fetched) ELSE {}
  BY <1>1, EngineNext, FlagsNext
<1>5. Here = IF FaultPending THEN ex.last ELSE Fetched
  BY <1>2, DueCases DEF HereIs, Fetched
<1>6. CASE ex'.state = "EXECUTE"
  <2>1. /\ ready /\ ~sleep /\ trap.exc = {} /\ ~trap.start
    BY <1>4, <1>6
  <2>2. InProgress' /\ DueNow' = "none" /\ DueNow = "none" /\ ~FaultPending
    BY <1>2, <1>6, <2>1, DueCases, DueCasesNext DEF DueIs, InProgress, FaultPending
  <2>3. Here' = Here
    BY <1>4, <1>5, <1>6, <2>1, <2>2, DueCasesNext DEF HereIs
  <2>4. QED  BY <1>2, <1>3, <1>4, <2>1, <2>2, <2>3, Stutter DEF Asleep
<1>7. CASE ex'.state # "EXECUTE"
  <2>1. /\ ex'.last = ex.last /\ ~InProgress' /\ ~Ack' /\ ex'.state \in {"DISPATCH", "TRAP_ENTER"}
        /\ (FaultPending' <=> FaultPending)
    BY <1>2, <1>4, <1>7 DEF InProgress, Ack, FaultPending, FetchFault
  <2>2. Here' = Here
    <3>1. CASE ~ready
      BY <1>2, <1>4, <1>5, <2>1, <3>1, DueCasesNext DEF HereIs, Fetched
    <3>2. CASE ready
      BY <1>4, <1>5, <1>7, <2>1, <3>2, DueCasesNext DEF HereIs
    <3>3. QED  BY <3>1, <3>2
  <2>3. Asleep' <=> Asleep
    BY <1>3, <2>1 DEF Asleep
  <2>4. CASE trap'.exc = trap.exc
    <3>1. DueNow' = DueNow \/ (DueNow = "irq" /\ DueNow' = "debug")
      BY <1>2, <2>1, <2>4, DueKept
    <3>2. QED  BY <1>2, <1>3, <2>1, <2>2, <2>3, <3>1, BetweenStep
  <2>5. CASE trap'.exc # trap.exc
    <3>1. ready /\ FetchFault(Fetched) # {}
      BY <1>4, <2>5
    <3>2. PICK f \in {"ialign", "iaccess"} : trap'.exc = trap.exc \union {f}
      BY <1>4, <3>1 DEF FetchFault
    <3>3. ~Order!Fetchable(Fetched)
      BY <3>1 DEF FetchFault, Order!Fetchable
    <3>4. f \notin ToDebug
      BY <3>2 DEF ToDebug, DebugIrqs
    <3>5. DueNow' \in trap'.exc \ ToDebug /\ IsFirst(DueNow', trap'.exc)
      BY <1>1, <2>1, <3>2, <3>4, DueCasesNext, DueFirstNext DEF DueIs, DueIsFirst
    <3>6. CASE DueNow' = f
      <4>1. ~Order!Fetchable(Here) \/ DueNow \in Order!Faults
        <5>1. CASE ~FaultPending  BY <1>5, <3>3, <5>1
        <5>2. CASE FaultPending
          <6>1. trap.exc # {} /\ DueNow = DueException /\ DueNow \in trap.exc /\ DueIsFirst
            BY <1>1, <1>2, <5>2, DueCases, DueFirst DEF DueIs, FaultPending, DueIsFirst
          <6>2. trap.exc \subseteq Exceptions /\ trap.exc \intersect {"ialign", "iaccess"} = {}
            BY <1>1 DEF TypeOK, Owned
          <6>3. DueNow # "db_hw"
            <7>1. CASE trap.exc \ ToDebug # {}
              BY <6>1, <7>1 DEF DueIsFirst, ToDebug
            <7>2. CASE trap.exc \ ToDebug = {}
              <8>1. "db_break" \in trap.exc
                BY <5>2, <6>2, <7>2 DEF FaultPending, ToDebug, DebugIrqs, Exceptions
              <8>2. QED  BY <6>1, <7>2, <8>1 DEF DueIsFirst
            <7>3. QED  BY <7>1, <7>2
          <6>4. QED  BY <6>1, <6>2, <6>3 DEF Order!Faults, Exceptions
        <5>3. QED  BY <5>1, <5>2
      <4>2. Order!FetchFault
        BY <1>2, <1>3, <2>1, <2>2, <2>3, <3>6, <4>1
        DEF Order!FetchFault, Order!FetchFaults, Order!mstatus, Order!settings, CsrsKept, Asleep, Online
      <4>3. QED  BY <4>2 DEF Order!Step
    <3>7. CASE DueNow' # f
      <4>1. DueNow' \in trap.exc \ ToDebug /\ IsFirst(DueNow', trap.exc)
        BY <3>2, <3>5, <3>7 DEF IsFirst
      <4>2. DueNow = DueException /\ DueException \in trap.exc /\ IsFirst(DueException, trap.exc)
        BY <1>1, <1>2, <4>1, DueCases, DueFirst DEF DueIs, DueIsFirst
      <4>3. DueNow' = DueNow
        <5>1. trap.exc \subseteq Causes
          BY <1>1 DEF TypeOK, Causes
        <5>2. Rank[DueNow'] = Rank[DueNow]
          BY <4>1, <4>2, <5>1, RankAssumption DEF IsFirst
        <5>3. QED  BY <4>1, <4>2, <5>1, <5>2, RankAssumption
      <4>4. QED  BY <1>2, <1>3, <2>1, <2>2, <2>3, <4>3, Stutter
    <3>8. QED  BY <3>6, <3>7
  <2>6. QED  BY <2>4, <2>5
<1>8. QED  BY <1>6, <1>7

(* The steps in TRAP_ENTER: asleep until something is due, or on to the     *)
(* trap with a cause of the same class.                                     *)
LEMMA EnterStep ==
  ASSUME Inv, NEW ready \in BOOLEAN, Cycle(ready), ex.state = "TRAP_ENTER"
  PROVE  Order!Step
<1>1. TypeOK /\ Sleeping /\ Started /\ Requested /\ ExecuteEngine(ready) /\ TypeOK'
  BY TypeNext DEF Inv, Cycle
<1>2. ~csr.we /\ ~csr'.we /\ CsrsKept /\ prog' = prog /\ ~InProgress /\ ~Ack
  BY <1>1, CsrsKeptNext, CsrNext, SignalsNext DEF TypeOK, Request, Ack, End, InProgress
<1>3. /\ ex'.last = ex.last /\ ex'.pc = ex.pc /\ trap'.exc = trap.exc
      /\ ex'.state = IF trap.start THEN "TRAP_START" ELSE "TRAP_ENTER"
  BY <1>1, EngineNext, FlagsNext
<1>4. (Online' <=> Online) /\ (Online <=> running) /\ (sleep' <=> sleep)
  BY <1>1, <1>2, OnlineNext, SignalsNext DEF Sleeping
<1>5. ~InProgress' /\ (Asleep' <=> Asleep) /\ (FaultPending' <=> FaultPending)
  BY <1>2, <1>3, <1>4 DEF InProgress, Asleep, FaultPending
<1>6. Here' = Here
  BY <1>2, <1>3, <1>5, DueCases, DueCasesNext DEF HereIs
<1>7. CASE trap.exc # {}
  <2>1. DueException' = DueException
    BY <1>3 DEF DueException
  <2>2. DueNow' = DueNow
    BY <1>2, <1>3, <1>5, <1>7, <2>1, DueCases, DueCasesNext DEF DueIs
  <2>3. QED  BY <1>2, <1>3, <1>4, <1>5, <1>6, <2>2, Stutter
<1>8. CASE trap.exc = {} /\ trap.start
  <2>1. Ack' /\ trap'.cause = cause_nxt
    BY <1>1, <1>3, <1>8, SignalsNext DEF Ack
  <2>2. /\ trap.irq \intersect DebugIrqs # {} => cause_nxt \in DebugIrqs
        /\ trap.irq \intersect DebugIrqs = {} => cause_nxt \in Irqs
    BY <1>1, <1>8, CauseFirst DEF TypeOK
  <2>3. DueNow' = IF cause_nxt \in DebugIrqs THEN "debug" ELSE "irq"
    BY <1>3, <1>5, <1>8, <2>1, DueCasesNext DEF DueIs, InterruptClass
  <2>4. DueNow = IF trap.irq \intersect DebugIrqs # {} THEN "debug" ELSE "irq"
    BY <1>2, <1>8, DueCases DEF DueIs
  <2>5. Irqs \intersect DebugIrqs = {}
    BY IrqAssumption
  <2>6. DueNow' = DueNow
    BY <2>2, <2>3, <2>4, <2>5
  <2>7. QED  BY <1>2, <1>3, <1>4, <1>5, <1>6, <2>6, Stutter
<1>9. CASE trap.exc = {} /\ ~trap.start
  <2>1. Asleep /\ DueNow = "none" /\ ~Ack'
    BY <1>1, <1>2, <1>3, <1>9, DueCases DEF Started, Asleep, DueIs, Ack
  <2>2. DueMay
    BY <1>1, <1>3, <1>5, <1>9, <2>1, MayInterrupt
  <2>3. CASE DueNow' = "none"
    BY <1>2, <1>3, <1>4, <1>5, <1>6, <2>1, <2>3, Stutter
  <2>4. CASE DueNow' # "none"
    <3>1. DueNow' \in {"irq", "debug"} /\ Order!Due(DueNow')
      BY <1>4, <2>2, <2>4 DEF DueMay, Order!Due, Online
    <3>2. Order!Wake
      BY <1>2, <1>3, <1>4, <1>5, <1>6, <2>1, <3>1
      DEF Order!Wake, Order!mstatus, Order!settings, CsrsKept, Asleep, Online
    <3>3. QED  BY <3>2 DEF Order!Step
  <2>5. QED  BY <2>3, <2>4
<1>10. QED  BY <1>7, <1>8, <1>9

(* The step of the trap itself.                                             *)
LEMMA StartStep ==
  ASSUME Inv, NEW ready \in BOOLEAN, Cycle(ready), ex.state = "TRAP_START"
  PROVE  Order!Step
<1>1. TypeOK /\ Started /\ Sleeping /\ Rightful /\ ExecuteEngine(ready)
  BY DEF Inv, Cycle
<1>2. /\ Ack /\ ~End /\ ~csr.we /\ trap.start /\ ~InProgress /\ ~csr'.we /\ prog' = prog
      /\ trap'.exc = {} /\ ~trap'.start
  <2>1. Ack /\ ~End /\ ~csr.we /\ trap.start /\ ~InProgress
    BY <1>1 DEF TypeOK, Ack, End, InProgress, Started
  <2>2. ~csr'.we /\ prog' = prog /\ ~trap'.start
    BY <1>1, <2>1, RequestNext, SignalsNext DEF EnvStart
  <2>3. trap'.exc = {}
    BY <1>1, FlagsNext
  <2>4. QED  BY <2>1, <2>2, <2>3
<1>3. /\ ex'.last = ex.last /\ ex'.state = "TRAP_EXECUTE"
      /\ ex'.next = IF trap.cause \in ToDebug THEN DebugAddr
                    ELSE IF running THEN ExceptionAddr ELSE mtvec
  BY <1>1, EngineNext
<1>4. /\ Online <=> running
      /\ Online' <=> running \/ trap.cause \in ToDebug
      /\ ~Asleep'
  BY <1>2, <1>3, OnlineNext DEF Asleep
<1>5. /\ DueNow' = "none"
      /\ Here' = ex'.next
  BY <1>2, <1>3, DueCasesNext DEF DueIs, HereIs, InProgress, FaultPending, Ack
<1>6. /\ trap.exc = {} => /\ trap.cause \in Interrupts /\ Here = ex.pc
                          /\ DueNow = InterruptClass(trap.cause)
      /\ trap.exc # {} => /\ trap.cause \in Exceptions
                          /\ DueNow \in Exceptions
                          /\ trap.cause \in ToDebug <=> DueNow \in ToDebug
                          /\ trap.cause \notin ToDebug => DueNow = trap.cause
  <2>1. CASE trap.exc = {}
    BY <1>1, <1>2, <2>1, DueCases DEF DueIs, HereIs, Started, FaultPending
  <2>2. CASE trap.exc # {}
    <3>1. trap.cause \in trap.exc /\ IsFirst(trap.cause, trap.exc) /\ trap.exc \subseteq Exceptions
      BY <1>1, <2>2 DEF Started, IsFirst, TypeOK
    <3>2. DueNow = DueException /\ DueException \in trap.exc /\ DueIsFirst
      BY <1>1, <1>2, <2>2, DueCases, DueFirst DEF DueIs, DueIsFirst
    <3>3. \A c \in Exceptions : Rank[c] \in Nat /\ c \in Causes
      BY RankAssumption DEF Causes
    <3>4. CASE trap.exc \ ToDebug = {}
      BY <2>2, <3>1, <3>2, <3>4
    <3>5. CASE trap.exc \ ToDebug # {}
      <4>1. IsFirst(DueException, trap.exc) /\ DueException \notin ToDebug
        BY <2>2, <3>2, <3>5 DEF DueIsFirst
      <4>2. Rank[DueException] = Rank[trap.cause]
        BY <3>1, <3>2, <3>3, <4>1 DEF IsFirst
      <4>3. DueException = trap.cause
        BY <3>1, <3>2, <3>3, <4>2, RankAssumption
      <4>4. QED  BY <2>2, <3>1, <3>2, <4>1, <4>3
    <3>6. QED  BY <3>4, <3>5
  <2>3. QED  BY <2>1, <2>2
<1>7. /\ Order!IntoDebug(DueNow) <=> trap.cause \in ToDebug
      /\ DueNow # "none" /\ DueNow \notin {"db_halt", "db_step"}
      /\ DueNow = "irq" <=> trap.cause \in Irqs
      /\ DueNow = "debug" <=> trap.cause \in DebugIrqs
      /\ trap.cause \in Interrupts <=> DueNow \in {"irq", "debug"}
      /\ trap.exc # {} <=> DueNow \notin {"irq", "debug"}
  <2>1. CASE trap.exc = {}
    BY <1>6, <2>1, IrqAssumption, InterruptsToDebug
    DEF Order!IntoDebug, InterruptClass, Interrupts, ToDebug, DebugIrqs
  <2>2. CASE trap.exc # {}
    BY <1>6, <2>2, IrqAssumption
    DEF Order!IntoDebug, Interrupts, ToDebug, DebugIrqs, Exceptions
  <2>3. QED  BY <2>1, <2>2
<1>8. CASE ~running /\ trap.cause \notin ToDebug
  <2>1. /\ csr'.mcause = trap.cause /\ csr'.mepc = Epc(trap.cause) /\ csr'.dpc = csr.dpc
        /\ csr'.mstatus_mie = FALSE /\ csr'.mstatus_mpie = csr.mstatus_mie
        /\ csr'.step = csr.step /\ csr'.tdata1_exe = csr.tdata1_exe
    <3>1. csr' \in CsrType
      BY <1>1, CsrNext
    <3>2. QED  BY <1>1, <1>2, <1>8, <3>1, CsrNext DEF CsrType
  <2>2. csr'.mcause \in IF DueNow = "irq" THEN Order!Entitled ELSE {DueNow}
    <3>1. CASE DueNow = "irq"
      BY <1>1, <1>6, <1>7, <2>1, <3>1 DEF Rightful, Order!Entitled, Rules
    <3>2. CASE DueNow # "irq"
      BY <1>6, <1>7, <1>8, <2>1, <3>2 DEF ToDebug
    <3>3. QED  BY <3>1, <3>2
  <2>3. csr'.mepc \in IF DueNow \in Order!FetchFaults THEN Adr ELSE {Here}
    <3>1. CASE DueNow \in Order!FetchFaults
      BY <1>1, <2>1, <3>1 DEF Epc, TypeOK
    <3>2. CASE DueNow = "irq"
      BY <1>6, <1>7, <1>8, <2>1, <3>2 DEF Epc, ToDebug, Interrupts, Order!FetchFaults
    <3>3. CASE DueNow \notin Order!FetchFaults \union {"irq"}
      <4>1. trap.exc # {} /\ trap.cause \in trap.exc /\ DueNow = trap.cause
        BY <1>1, <1>6, <1>7, <1>8, <3>3 DEF Started, IsFirst, ToDebug
      <4>2. FaultPending /\ trap.cause \notin Interrupts
        BY <1>6, <1>8, <3>3, <4>1, <1>7 DEF FaultPending, ToDebug, Order!FetchFaults
      <4>3. Here = ex.last
        BY <1>1, <4>2, DueCases DEF HereIs
      <4>4. QED  BY <2>1, <3>3, <4>2, <4>3 DEF Epc
    <3>4. QED  BY <3>1, <3>2, <3>3
  <2>4. Order!Trap
    BY <1>2, <1>3, <1>4, <1>5, <1>7, <1>8, <2>1, <2>2, <2>3
    DEF Order!Trap, Order!mstatus, Order!settings, Asleep, Online
  <2>5. QED  BY <2>4 DEF Order!Step
<1>9. CASE ~running /\ trap.cause \in ToDebug
  <2>2. /\ csr'.mcause = csr.mcause /\ csr'.mepc = csr.mepc /\ csr'.dpc = Epc(trap.cause)
        /\ csr'.mstatus_mie = csr.mstatus_mie /\ csr'.mstatus_mpie = csr.mstatus_mpie
        /\ csr'.step = csr.step /\ csr'.tdata1_exe = csr.tdata1_exe
    BY <1>1, <1>2, <1>9, CsrNext
  <2>3. csr'.dpc = IF DueNow = "debug" THEN Here ELSE ex.last
    BY <1>6, <1>7, <1>9, <2>2, InterruptsToDebug DEF Epc
  <2>4. Order!EnterDebug
    BY <1>2, <1>3, <1>4, <1>5, <1>7, <1>9, <2>2, <2>3
    DEF Order!EnterDebug, Order!mstatus, Order!settings, Asleep, Online
  <2>5. QED  BY <2>4 DEF Order!Step
<1>10. CASE running
  <2>1. CsrsKept
    BY <1>1, <1>2, <1>10, CsrNext DEF CsrsKept
  <2>2. Order!Repark
    BY <1>2, <1>3, <1>4, <1>5, <1>7, <1>10, <2>1
    DEF Order!Repark, Order!mstatus, Order!settings, CsrsKept, Asleep, Online
  <2>3. QED  BY <2>2 DEF Order!Step
<1>11. QED  BY <1>8, <1>9, <1>10

LEMMA OrderInit == Init => Order!Init
<1> SUFFICES ASSUME Init PROVE Order!Init
  OBVIOUS
<1>1. /\ ex = [state |-> "BRANCHED", pc |-> BootAddr, last |-> BootAddr, next |-> BootAddr,
               branched |-> TRUE]
      /\ trap = [exc |-> {}, irq |-> {}, start |-> FALSE, cause |-> "ialign"]
      /\ debug = [state |-> "OFFLINE", ext_halt_req |-> FALSE]
  BY DEF Init
<1>2. ~csr.we /\ ~csr.mstatus_mie /\ ~csr.step /\ ~csr.tdata1_exe
  BY DEF Init
<1>3. DueNow = "none"
  BY <1>1, <1>2, DueCases DEF DueIs, InProgress, Ack
<1>4. InForce = {}
  BY <1>1 DEF InForce
<1>5. QED  BY <1>1, <1>2, <1>3, <1>4 DEF Order!Init

(* A fast request that is in force stays so, but for a write to mie or mip. *)
LEMMA FastKept ==
  ASSUME Inv, NEW ready \in BOOLEAN, Cycle(ready),
         ~(csr.we /\ prog[ex.last] \in {"w_mie", "w_mip"})
  PROVE  InForce \intersect Firqs \subseteq InForce'
<1>1. TypeOK
  BY DEF Inv
<1>2. csr'.mie = csr.mie /\ csr'.nclr = Firqs
  BY <1>1, MaskNext
<1>3. trap.irq \intersect Firqs \intersect csr.nclr \subseteq trap'.irq
  BY <1>1, BufferNext
<1>4. QED  BY <1>2, <1>3 DEF InForce

LEMMA OrderNext == Inv /\ [Next]_vars => [Order!Next]_Order!vars
<1> SUFFICES ASSUME Inv, [Next]_vars PROVE Order!Next \/ UNCHANGED Order!vars
  OBVIOUS
<1>1. CASE UNCHANGED vars
  <2>1. /\ Here' = Here /\ DueNow' = DueNow /\ InForce' = InForce
    BY <1>1 DEF vars, Here, DueNow, InProgress, FaultPending, exc_fire, DueException, Ack,
      InterruptClass, InForce
  <2>2. QED
    BY <1>1, <2>1 DEF vars, Order!vars, Order!mstatus, Order!settings
<1>2. ASSUME NEW ready \in BOOLEAN, Cycle(ready) PROVE Order!Next
  <2>1. ex.state \in States
    BY DEF Inv, TypeOK
  <2>2. Order!Step
    <3>1. CASE ex.state = "DISPATCH"  BY <1>2, <3>1, WriteStep, DispatchStep
    <3>2. CASE ex.state = "EXECUTE"  BY <1>2, <3>2, ExecuteStep
    <3>3. CASE ex.state = "SYSTEM"  BY <1>2, <3>3, SystemStep
    <3>4. CASE ex.state = "WORK"  BY <1>2, <3>4, WorkStep
    <3>5. CASE ex.state = "BRANCH"  BY <1>2, <3>5, BranchStep
    <3>6. CASE ex.state \in {"BRANCHED", "TRAP_EXECUTE"}  BY <1>2, <3>6, JumpStep
    <3>7. CASE ex.state = "TRAP_ENTER"  BY <1>2, <3>7, EnterStep
    <3>8. CASE ex.state = "TRAP_START"  BY <1>2, <3>8, StartStep
    <3>9. CASE ex.state = "TRAP_EXIT"  BY <1>2, <3>9, ExitStep
    <3>10. QED
      BY <2>1, <3>1, <3>2, <3>3, <3>4, <3>5, <3>6, <3>7, <3>8, <3>9 DEF States
  <2>3. InForce' \subseteq Irqs
    BY <1>2, TypeNext, IrqAssumption DEF TypeOK, InForce
  <2>4. InForce \intersect Firqs \subseteq InForce' \/ Order!TakesBack
    BY <1>2, FastKept, WriteStep
  <2>5. QED  BY <2>2, <2>3, <2>4 DEF Order!Next
<1>3. QED  BY <1>1, <1>2 DEF Next

(* Whatever the program, the interrupts, their priority and the cycles in   *)
(* which they and the debugger's requests arrive: traps come between        *)
(* instructions and save the address to go on from (a fetch fault: some     *)
(* address), interrupts are taken only where they were enabled, no fast     *)
(* request is lost, where the rules for requests are kept the handler is    *)
(* told of one that is in force, and debug mode leaves the trap state alone. *)
THEOREM TrapsInOrder == Spec => ImplementsTrapOrder
  BY InitInv, InvNext, OrderInit, OrderNext, PTL DEF Spec, ImplementsTrapOrder, Order!Spec

(* What TrapOrder leaves open: behind a fetch fault mepc is the address of  *)
(* the instruction that began last.  That cannot be the one whose fetch     *)
(* failed, to which execute_engine.pc points: that has not begun.           *)
THEOREM FetchFaultSavesLast ==
  Spec => [][Ack /\ ~running /\ trap.cause \in {"ialign", "iaccess"}
               => csr'.mepc = ex.last /\ csr'.mcause = trap.cause]_vars
<1>1. ASSUME Inv, [Next]_vars
      PROVE  [Ack /\ ~running /\ trap.cause \in {"ialign", "iaccess"}
               => csr'.mepc = ex.last /\ csr'.mcause = trap.cause]_vars
  <2> SUFFICES ASSUME NEW ready \in BOOLEAN, Cycle(ready), Ack, ~running,
                      trap.cause \in {"ialign", "iaccess"}
               PROVE  csr'.mepc = ex.last /\ csr'.mcause = trap.cause
    BY <1>1 DEF Next
  <2>1. TypeOK /\ ~csr.we
    BY <1>1 DEF Inv, TypeOK, Ack
  <2>2. trap.cause \notin ToDebug /\ trap.cause \notin Interrupts
    BY IrqAssumption DEF ToDebug, DebugIrqs, Interrupts, Exceptions
  <2>3. QED  BY <2>1, <2>2, CsrNext DEF Epc
<1>2. QED  BY <1>1, InitInv, InvNext, PTL DEF Spec
=============================================================================
