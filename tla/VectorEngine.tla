---------------------------- MODULE VectorEngine ----------------------------
(***************************************************************************)
(* The vector control engine of the CPU together with the parts it drives: *)
(* the execute engine that starts it and waits for it, the trap flags that *)
(* cut it off, the data-bus unit, the register file, the ALU's accumulator *)
(* and the multiplier pipeline.                                             *)
(*                                                                          *)
(* One step is one rising clock edge: every register of the design takes    *)
(* its next value from the values of the cycle before.  Two things are      *)
(* outside: the bus slave, which answers an outstanding access in a cycle   *)
(* of its own choice, and the interrupt lines.                              *)
(***************************************************************************)
EXTENDS VectorInstr

CONSTANTS
  NoInstr,    (* Stands for "no instruction" in the refinement mapping.    *)
  Shown,      (* Bound: what i_reg may show when it is not executed.       *)
  MaxIssue    (* Bound: instructions issued in one behaviour.              *)

ASSUME MaxIssueAssumption == MaxIssue \in Nat
ASSUME ShownAssumption == Shown \subseteq InstrType

VARIABLES
  ex,         (* execute_engine.state                                      *)
  ir,         (* execute_engine.i_reg                                      *)
  ir_last,    (* execute_engine.i_reg_last, the last one executed          *)
  ctrl,       (* ctrl: the execute engine's registered control signals     *)
  exc,        (* trap_ctrl.exc_buf, its four data-access flags             *)
  env_start,  (* trap_ctrl.env_start                                       *)
  v,          (* vector_state, counters, register numbers, initial_mop_v   *)
  ctrl_vector,(* the vector engine's registered control signals            *)
  switch,     (* switch_to_vector_control                                  *)
  finished,   (* vector_op_finished                                        *)
  csr_vl,
  bus,        (* address, write-data and arbiter registers of cpu_bus      *)
  slave,      (* the access the bus slave still has to answer              *)
  rf,         (* the register file                                         *)
  dp,         (* read ports, accumulator, multiplier and load buffer       *)
  stored,     (* writes the memory accepted, in order                      *)
  issued,     (* instructions issued so far                                *)
  atIssue     (* rf, csr_vl and stored when ir was issued (history)        *)

execVars   == <<ex, ir, ir_last, ctrl, issued, atIssue>>
trapVars   == <<exc, env_start>>
vectorVars == <<v, ctrl_vector, switch, finished, csr_vl>>
busVars    == <<bus, slave, stored>>
dataVars   == <<rf, dp>>
vars == <<execVars, trapVars, vectorVars, busVars, dataVars>>

ExecStates ==
  {"DISPATCH", "TRAP_ENTER", "TRAP_START", "TRAP_EXECUTE", "EXECUTE",
   "BRANCHED", "VECTOR_WAIT", "MEM_REQ", "MEM_WAIT"}
VectorStates ==
  {"S_IDLE", "S_VECTOR_CSR", "S_MUL", "S_ALU", "S_MAC", "S_MEM_ADDR",
   "S_MEM_REQ", "S_MEM_LAST_STORE", "S_MEM_WAIT", "S_MEM_ADDR_STRIDED",
   "S_MEM_REQ_STRIDED", "S_MEM_WAIT_STRIDED"}
AccessFaults == {"laccess", "saccess"}
AlignFaults  == {"lalign", "salign"}
Answers == {"none", "ack", "err"}

-----------------------------------------------------------------------------
(* Control signals *)

(* The fields of the control bus that the modelled units look at. *)
NoCtrl ==
  [rd |-> FALSE, wr |-> FALSE,        \* ctrl_bus_rd, ctrl_bus_wr
   mo |-> FALSE,                      \* ctrl_bus_mo_we: latch address and data
   wb |-> FALSE, vwe |-> FALSE,       \* ctrl_rf_wb_en, ctrl_vector_we
   zero |-> FALSE,                    \* ctrl_rf_zero_we
   mux |-> "alu",                     \* ctrl_rf_mux: register write data
   opa |-> "rs1", opb |-> "rs2",      \* ALU operands
   alu |-> "add",                     \* ALU operation: "add" or "cp"
   trig |-> FALSE, mulw |-> FALSE,    \* start the multiplier; on single bytes
   byte |-> 0, word |-> 0,            \* byte selection of the multiplier
   mem |-> "no",                      \* vector_unit_strided_mem / vector_strided_mem
   size |-> "32"]                     \* ctrl_ir_funct3: access width

(* ctrl_output: who drives the control bus, and the register numbers on it. *)
out  == IF switch THEN ctrl_vector ELSE [ctrl EXCEPT !.size = ir.size]
rdA  == IF switch THEN v.rd  ELSE ir.rd
rs1A == IF switch THEN v.rs1 ELSE ir.rs1
rs2A == IF switch THEN v.rs2 ELSE ir.rs2

(* The request the execute engine holds up to the vector engine. *)
Kind ==
  CASE ir.op = "vload"  -> IF ir.mode = "unit" THEN "load" ELSE "load_strided"
    [] ir.op = "vstore" -> IF ir.mode = "unit" THEN "store" ELSE "store_strided"
    [] ir.op = "vadd" -> "add"
    [] ir.op = "vmul" -> "mul"
    [] ir.op = "vmac" -> "mac"
    [] ir.op = "vcsr" -> "csr"
    [] OTHER -> "none"
AccessError == exc \intersect AccessFaults # {}
(* Mutant: the request is only up in the cycle of EXECUTE. *)
start_Pulse == IF ex = "EXECUTE" THEN Kind ELSE "none"
start ==
  CASE ex = "EXECUTE" -> Kind
    [] ex = "VECTOR_WAIT" /\ ~finished ->
         IF IsMem(ir) /\ AccessError THEN "none"
         ELSE IF ir.op = "vcsr" THEN "mac" ELSE Kind  \* the last ELSE of VECTOR_WAIT
    [] OTHER -> "none"

-----------------------------------------------------------------------------
(* ALU, multiplier and load buffer *)

opa ==
  CASE out.opa = "rs1" -> dp.rs1
    [] out.opa = "acc" -> dp.acc
    [] OTHER -> Zero
cp_res == dp.prod
opb ==
  CASE out.opb = "imm" -> Scalar(IF ir.op = "lw" THEN 0 ELSE 4)  \* imm_gen
    [] out.opb = "rs2" -> dp.rs2
    [] out.opb = "cp"  -> cp_res
    [] OTHER -> Zero
add_o == Add(opa, opb)
addr  == Num(add_o)
aluRes == IF out.alu = "cp" THEN cp_res ELSE add_o

(* load_reg: the buffer collects bytes until a register can be written. *)
Collect(buf) ==
  CASE out.size = "8" ->
         IF Len(buf) < 4 THEN Append(buf, Word(bus.mar) + (addr % 4)) ELSE buf
    [] out.size = "32" ->
         IF buf = <<>> THEN WordBytes(Word(bus.mar) + (addr % 4))
         ELSE IF Len(buf) < 4 THEN buf \o WordBytes(Word(bus.mar)) ELSE buf
    [] OTHER -> <<>>                       \* half-words: the buffer is cleared
LoadReg(answer, buf) ==
  IF out.mem = "no" THEN <<>>
  ELSE IF answer = "ack" THEN Collect(buf)
  ELSE IF out.wb THEN SubSeq(buf, 5, Len(buf))
  ELSE buf

memData ==
  IF out.mem = "no" THEN dp.rdata
  ELSE Bytes(SubSeq(dp.vbuf, 1, IF Len(dp.vbuf) < 4 THEN Len(dp.vbuf) ELSE 4))

(* One clock edge of the register file and of the data-path registers.  A  *)
(* write and a read of one register in the same cycle read the old value.  *)
opaAddr == IF out.zero THEN 0 ELSE IF out.wb THEN rdA ELSE rs1A
wdata ==
  CASE out.mux = "mem" -> memData
    [] out.mux = "csr" -> Zero             \* no CSR is being read
    [] OTHER -> aluRes
rfNext ==
  IF (out.wb /\ rdA # 0) \/ out.zero THEN [rf EXCEPT ![opaAddr] = wdata]
  ELSE IF out.vwe THEN [rf EXCEPT ![rdA] = wdata]
  ELSE rf
Datapath(answer) ==
  /\ rf' = rfNext
  /\ dp' =
      [rs1   |-> rf[opaAddr],
       rs2   |-> rf[rs2A],
       acc   |-> add_o,
       dsp   |-> IF ~out.trig THEN dp.dsp
                 ELSE IF out.mulw THEN MulByte(dp.rs1, dp.rs2, 2 * out.word + out.byte)
                 ELSE Mul(dp.rs1, dp.rs2),
       prod  |-> dp.dsp,
       vbuf  |-> LoadReg(answer, dp.vbuf),
       rdata |-> IF answer = "ack" THEN Bytes(WordBytes(bus.mar)) ELSE dp.rdata]

-----------------------------------------------------------------------------
(* Data-bus unit and its slave *)

(* What the slave does this cycle: an access is answered at the earliest in *)
(* the cycle after the one that requested it, and only once.                *)
MayAnswer(answer) ==
  \/ answer = "none"
  \/ /\ slave # "idle"
     /\ answer = IF Faulty(bus.mar) THEN "err" ELSE "ack"

Misaligned(a, size) == (size = "16" /\ a % 2 # 0) \/ (size = "32" /\ a % 4 # 0)

(* mem_adr_reg, misaligned_d_check, mem_do_reg and data_access_arbiter. *)
BusUnit(answer) ==
  /\ bus' =
      [mar   |-> IF ~out.mo THEN bus.mar ELSE IF out.mem = "unit" THEN Word(addr) ELSE addr,
       mis   |-> IF ~out.mo THEN bus.mis ELSE out.mem # "unit" /\ Misaligned(addr, out.size),
       wdata |-> IF out.mo THEN dp.rs2 ELSE bus.wdata,
       size  |-> IF out.mo THEN out.size ELSE bus.size,
       pend  |-> IF bus.pend THEN answer # "ack" /\ ex # "TRAP_START" ELSE out.rd \/ out.wr,
       rw    |-> IF bus.pend THEN bus.rw ELSE out.wr,
       err   |-> bus.pend /\ (bus.err \/ answer = "err")]
  /\ slave' =
      CASE out.wr /\ ~bus.mis -> "wr"      \* no request when misaligned
        [] out.rd /\ ~out.wr /\ ~bus.mis -> "rd"
        [] OTHER -> IF answer = "none" THEN slave ELSE "idle"
  /\ stored' =
      IF slave = "wr" /\ answer = "ack"
      THEN Append(stored, <<bus.mar, bus.size, bus.wdata>>) ELSE stored

-----------------------------------------------------------------------------
(* Trap controller: the flags of data accesses, and the start of a trap.    *)
(* irq: an enabled interrupt is pending in this cycle.                      *)

TrapFlags(irq) ==
  /\ exc' =
      IF ex = "TRAP_START" THEN {}
      ELSE exc \union {f \in AccessFaults \union AlignFaults :
             /\ bus.pend
             /\ f \in (IF bus.rw THEN {"saccess", "salign"} ELSE {"laccess", "lalign"})
             /\ IF f \in AccessFaults THEN bus.err ELSE bus.mis}
  /\ env_start' =
      IF env_start THEN ex # "TRAP_START"
      ELSE exc # {} \/ (irq /\ ex \in {"EXECUTE", "TRAP_ENTER"})

-----------------------------------------------------------------------------
(* Execute engine *)

Go(state, c) == ex' = state /\ ctrl' = c
Keep == UNCHANGED <<ir, issued, atIssue>>

(* In every cycle of DISPATCH i_reg takes what the issue engine shows, also *)
(* when that is not executed, or is not even there.                         *)
Look == ir' \in Shown /\ UNCHANGED <<issued, atIssue>>

(* DISPATCH with no instruction from the issue engine. *)
DispatchWait == ex = "DISPATCH" /\ Go("DISPATCH", NoCtrl) /\ Look

(* DISPATCH with an instruction, but a trap comes first. *)
DispatchTrap ==
  /\ ex = "DISPATCH"
  /\ exc # {} \/ env_start
  /\ Go("TRAP_ENTER", NoCtrl) /\ Look

(* Mutant: the next instruction is taken without a look at traps. *)
Dispatch_NoTrapCheck ==
  /\ ex = "DISPATCH" /\ issued < MaxIssue
  /\ issued' = issued + 1
  /\ ir' \in Instrs
  /\ atIssue' = [rf |-> rf', vl |-> csr_vl, stored |-> stored']
  /\ Go("EXECUTE", NoCtrl)

Dispatch ==
  /\ ex = "DISPATCH"
  /\ exc = {} /\ ~env_start
  /\ issued < MaxIssue
  /\ issued' = issued + 1
  /\ ir' \in Instrs
  /\ atIssue' = [rf |-> rf', vl |-> csr_vl, stored |-> stored']
  /\ Go("EXECUTE", NoCtrl)

Execute ==
  /\ ex = "EXECUTE"
  /\ IF ir.op = "lw" THEN Go("MEM_REQ", [NoCtrl EXCEPT !.mo = TRUE, !.opb = "imm"])
     ELSE Go("VECTOR_WAIT", NoCtrl)
  /\ Keep

(* Mutant: a bus error does not end the wait. *)
VectorWait_NoAbort ==
  /\ ex = "VECTOR_WAIT"
  /\ Go(IF finished THEN "DISPATCH" ELSE "VECTOR_WAIT", NoCtrl)
  /\ Keep

VectorWait ==
  /\ ex = "VECTOR_WAIT"
  /\ Go(IF finished \/ (IsMem(ir) /\ AccessError) THEN "DISPATCH" ELSE "VECTOR_WAIT", NoCtrl)
  /\ Keep

(* Mutant: a load does not wait for its answer. *)
MemReq_NoWait ==
  ex = "MEM_REQ" /\ Go("DISPATCH", [NoCtrl EXCEPT !.rd = TRUE]) /\ Keep
MemReq == ex = "MEM_REQ" /\ Go("MEM_WAIT", [NoCtrl EXCEPT !.rd = TRUE]) /\ Keep

MemWait(answer) ==
  /\ ex = "MEM_WAIT"
  /\ IF exc # {} THEN Go("DISPATCH", NoCtrl)
     ELSE IF answer = "ack" THEN Go("DISPATCH", [NoCtrl EXCEPT !.wb = TRUE, !.mux = "mem"])
     ELSE Go("MEM_WAIT", NoCtrl)
  /\ Keep

TrapEnter == ex = "TRAP_ENTER" /\ Go(IF env_start THEN "TRAP_START" ELSE ex, NoCtrl) /\ Keep
TrapStart == ex = "TRAP_START" /\ Go("TRAP_EXECUTE", NoCtrl) /\ Keep
TrapExecute == ex = "TRAP_EXECUTE" /\ Go("BRANCHED", NoCtrl) /\ Keep
(* BRANCHED also re-initialises x0. *)
Branched ==
  ex = "BRANCHED" /\ Go("DISPATCH", [NoCtrl EXCEPT !.zero = TRUE, !.mux = "csr"]) /\ Keep

(* Mutant: the instruction that dispatch brings is taken for executed.      *)
LastExecuted_Early == ir_last' = IF ex = "DISPATCH" THEN ir ELSE ir_last
(* For the trap handler. *)
LastExecuted == ir_last' = IF ex = "EXECUTE" THEN ir ELSE ir_last

ExecuteEngine(answer) ==
  /\ \/ DispatchWait \/ DispatchTrap \/ Dispatch \/ Execute \/ VectorWait
     \/ MemReq \/ MemWait(answer)
     \/ TrapEnter \/ TrapStart \/ TrapExecute \/ Branched
  /\ LastExecuted

-----------------------------------------------------------------------------
(* Vector control engine (vector_control_sync), one operator per state *)

(* Mutant: register numbers that do not wrap. *)
RegAdd_NoWrap(r, n) == r + n
RegAdd(r, n) == (r + n) % NumRegs        \* std_ulogic_vector(unsigned(r) + n)
NextCtrl(c) == ctrl_vector' = c
Hold(s, f) == switch' = s /\ finished' = f
Unit    == [NoCtrl EXCEPT !.mem = "unit", !.size = ctrl_vector.size]
(* Mutant: address and data are latched again while the access is under way. *)
UnitAcc_Latching == [Unit EXCEPT !.opa = "acc", !.opb = "zero", !.mo = TRUE]
UnitAcc == [Unit EXCEPT !.opa = "acc", !.opb = "zero"]
Strided    == [NoCtrl EXCEPT !.mem = "strided", !.size = ctrl_vector.size]
StridedAcc == [Strided EXCEPT !.opa = "acc", !.opb = "zero"]
Loading == start \in {"load", "load_strided"}
Storing == start \in {"store", "store_strided"}

IdleStay ==
  /\ start = "none"
  /\ NextCtrl(NoCtrl) /\ Hold(FALSE, FALSE)
  /\ UNCHANGED v

(* Latch the register numbers of the instruction, the sources n further. *)
Latch(state, n, rs2, c1, c2, mop) ==
  v' = [state |-> state, c1 |-> c1, c2 |-> c2, mop |-> mop,
        rd |-> ir.rd, rs1 |-> RegAdd(ir.rs1, n), rs2 |-> RegAdd(rs2, n)]

StartMem ==
  /\ start \in {"load", "store"}
  /\ IF Loading THEN Latch("S_MEM_ADDR", 0, ir.rd, 0, 4, TRUE)
     ELSE Latch("S_MEM_ADDR", 0, ir.rs2, 0, v.c2, FALSE)
  /\ NextCtrl([NoCtrl EXCEPT !.mem = "unit", !.mo = TRUE, !.opb = "zero"])
  /\ Hold(TRUE, FALSE)

StartStrided ==
  /\ start \in {"load_strided", "store_strided"}
  /\ Latch("S_MEM_ADDR_STRIDED", 0, ir.rs2, 0, v.c2, TRUE)
  /\ NextCtrl([NoCtrl EXCEPT !.mem = "strided", !.mo = TRUE, !.opb = "zero",
                             !.size = ir.size])
  /\ Hold(TRUE, FALSE)

StartAdd ==
  /\ start = "add"
  /\ Latch(IF csr_vl = 1 THEN "S_IDLE" ELSE "S_ALU", 1, ir.rs2, 2, v.c2, v.mop)
  /\ NextCtrl([NoCtrl EXCEPT !.vwe = TRUE])
  /\ Hold(TRUE, csr_vl = 1)

StartMac ==
  /\ start = "mac"
  /\ Latch("S_MAC", 0, ir.rs2, v.c1, 0, TRUE)
  /\ NextCtrl([NoCtrl EXCEPT !.trig = TRUE, !.mulw = TRUE, !.opa = "zero", !.opb = "zero"])
  /\ Hold(TRUE, FALSE)

StartMul ==
  /\ start = "mul"
  /\ Latch("S_MUL", 1, ir.rs2, v.c1, 0, v.mop)
  /\ NextCtrl([NoCtrl EXCEPT !.trig = TRUE])
  /\ Hold(TRUE, FALSE)

StartCsr ==
  /\ start = "csr"
  /\ v' = [v EXCEPT !.state = "S_VECTOR_CSR", !.rs1 = ir.rd, !.mop = TRUE]
  /\ NextCtrl(NoCtrl) /\ Hold(TRUE, FALSE)

Idle ==
  /\ v.state = "S_IDLE"
  /\ IdleStay \/ StartMem \/ StartStrided \/ StartAdd \/ StartMac \/ StartMul \/ StartCsr
  /\ UNCHANGED csr_vl

(* The first cycle still shows the register of the rs1 field: csr_vl takes *)
(* it too, and is overwritten by the cycle that ends the operation.         *)
VectorCsr ==
  /\ v.state = "S_VECTOR_CSR"
  /\ v' = [v EXCEPT !.mop = FALSE, !.state = IF v.mop THEN @ ELSE "S_IDLE"]
  /\ NextCtrl(NoCtrl) /\ Hold(TRUE, ~v.mop)
  /\ csr_vl' = Count(Num(dp.rs1))

VMul ==
  /\ v.state = "S_MUL"
  /\ LET done == v.c2 = csr_vl
     IN  /\ v' = [v EXCEPT !.state = IF done THEN "S_IDLE" ELSE @, !.c2 = Count(@ + 1),
                           !.rs1 = RegAdd(@, 1), !.rs2 = RegAdd(@, 1),
                           !.rd = IF v.c2 >= 2 THEN RegAdd(@, 1) ELSE @]
         /\ NextCtrl([NoCtrl EXCEPT !.alu = "cp", !.vwe = TRUE, !.trig = TRUE, !.wb = done])
         /\ Hold(TRUE, done)
  /\ UNCHANGED csr_vl

VAlu ==
  /\ v.state = "S_ALU"
  /\ LET done == v.c1 = csr_vl
     IN  /\ v' = [v EXCEPT !.state = IF done THEN "S_IDLE" ELSE @,
                           !.c1 = IF done THEN @ ELSE Count(@ + 1),
                           !.rd = RegAdd(@, 1), !.rs1 = RegAdd(@, 1), !.rs2 = RegAdd(@, 1)]
         /\ Hold(TRUE, done)
  /\ NextCtrl([NoCtrl EXCEPT !.vwe = TRUE])
  /\ UNCHANGED csr_vl

VMac ==
  /\ v.state = "S_MAC"
  /\ LET done == v.c2 >= csr_vl
         step == IF v.c2 % 4 = 2 THEN 1 ELSE 0
     IN  /\ v' = [v EXCEPT !.state = IF done THEN "S_IDLE" ELSE @, !.c2 = Count(@ + 1),
                           !.rs1 = RegAdd(@, step), !.rs2 = RegAdd(@, step)]
         /\ NextCtrl(
              [NoCtrl EXCEPT
                !.mulw = TRUE, !.trig = ~done, !.wb = done,
                !.byte = 1 - ctrl_vector.byte,
                !.word = IF v.c2 % 2 = 1 THEN 1 - ctrl_vector.word ELSE ctrl_vector.word,
                !.opa = IF v.c2 >= 1 THEN "acc" ELSE "zero",
                !.opb = IF v.c2 >= 1 THEN "cp" ELSE "zero"])
         /\ Hold(TRUE, done)
  /\ UNCHANGED csr_vl

(* Unit-stride accesses: address, request, wait; a byte load may need one   *)
(* more write-back for the bytes left in the buffer.                         *)
MemAddr ==
  /\ v.state = "S_MEM_ADDR"
  /\ v' = [v EXCEPT
        !.state = "S_MEM_REQ",
        !.rd = IF start = "load" /\ (IF ir.size = "32" THEN ~v.mop ELSE v.c1 > 3)
               THEN RegAdd(@, 1) ELSE @]
  /\ NextCtrl(CASE start = "load"  -> [UnitAcc EXCEPT !.rd = TRUE]
                [] start = "store" -> [UnitAcc EXCEPT !.wr = TRUE]
                [] OTHER           -> Unit)
  /\ Hold(TRUE, FALSE)
  /\ UNCHANGED csr_vl

(* Mutant: the offset of the first element in its word is forgotten. *)
Brought_Aligned == IF ir.size = "32" THEN 1 ELSE 4

(* Elements that the access in flight brings: the first one of a load may  *)
(* start inside its word.                                                   *)
Brought ==
  IF v.mop /\ addr % 4 # 0 THEN 4 - (addr % 4)
  ELSE IF ir.size = "32" THEN 1 ELSE 4

MemReqUnit ==
  /\ v.state = "S_MEM_REQ"
  /\ IF AccessError
     THEN /\ v' = [v EXCEPT !.state = "S_IDLE", !.c1 = 0]
          /\ NextCtrl(UnitAcc) /\ Hold(FALSE, FALSE)
     ELSE /\ v' = [v EXCEPT
               !.state = "S_MEM_WAIT",
               !.c1 = CASE start = "load"  -> Count(@ + Brought)
                        [] start = "store" -> Count(@ + 1)
                        [] OTHER           -> @,
               !.rs2 = IF start = "store" /\ ~v.mop THEN RegAdd(@, 1) ELSE @]
          /\ NextCtrl([UnitAcc EXCEPT !.mux = "mem"])
          /\ Hold(TRUE, FALSE)
  /\ UNCHANGED csr_vl

MemWaitUnit(answer) ==
  /\ v.state = "S_MEM_WAIT"
  /\ LET stop == v.c1 >= csr_vl
         full == ir.size = "32" \/ v.c1 > 3
         last == ir.size = "8" /\ v.c2 < csr_vl
         more == [UnitAcc EXCEPT !.mux = "mem", !.size = "32", !.opb = "imm", !.mo = TRUE]
     IN  IF AccessError
         THEN /\ v' = [v EXCEPT !.state = "S_IDLE", !.c1 = 0]
              /\ NextCtrl([Unit EXCEPT !.size = "32"]) /\ Hold(FALSE, FALSE)
         ELSE IF answer # "ack" \/ start \notin {"load", "store"}
         THEN /\ UNCHANGED v
              /\ NextCtrl([UnitAcc EXCEPT !.mux = "mem"]) /\ Hold(TRUE, FALSE)
         ELSE IF start = "load"
         THEN /\ v' = [v EXCEPT
                   !.state = IF ~stop THEN "S_MEM_ADDR"
                             ELSE IF last THEN "S_MEM_LAST_STORE" ELSE "S_IDLE",
                   !.c1 = IF stop THEN 0 ELSE @,
                   !.c2 = IF ir.size # "32" /\ v.c1 > 3 THEN Count(@ + 4) ELSE @,
                   !.mop = FALSE]
              /\ NextCtrl([more EXCEPT !.mo = ~stop, !.wb = full \/ stop])
              /\ Hold(TRUE, stop)
         ELSE /\ v' = [v EXCEPT !.state = IF stop THEN "S_IDLE" ELSE "S_MEM_ADDR",
                                !.c1 = IF stop THEN 0 ELSE @,
                                !.mop = stop /\ @]
              /\ NextCtrl(IF stop THEN [UnitAcc EXCEPT !.mux = "mem"] ELSE more)
              /\ Hold(TRUE, stop)
  /\ UNCHANGED csr_vl

(* Mutant: the engine does not go back to idle after the last write-back. *)
MemLastStore_Stay ==
  /\ v.state = "S_MEM_LAST_STORE"
  /\ v' = [v EXCEPT !.rd = RegAdd(@, 1), !.rs2 = RegAdd(@, 1)]
  /\ NextCtrl([Unit EXCEPT !.mo = TRUE, !.mux = "mem", !.wb = TRUE, !.size = "32"])
  /\ Hold(TRUE, TRUE)
  /\ UNCHANGED csr_vl

MemLastStore ==
  /\ v.state = "S_MEM_LAST_STORE"
  /\ v' = [v EXCEPT !.state = "S_IDLE", !.rd = RegAdd(@, 1), !.rs2 = RegAdd(@, 1)]
  /\ NextCtrl([Unit EXCEPT !.mo = TRUE, !.mux = "mem", !.wb = TRUE, !.size = "32"])
  /\ Hold(TRUE, TRUE)
  /\ UNCHANGED csr_vl

(* Strided accesses.  A store takes its data from rs2 on and its stride from *)
(* rd: the two swap places on the second read port in every element.         *)
MemAddrStrided ==
  /\ v.state = "S_MEM_ADDR_STRIDED"
  /\ LET next == ~v.mop /\ (ir.size = "8" => v.c1 % 4 = 0)
     IN  v' = CASE start = "load_strided" ->
                     [v EXCEPT !.state = "S_MEM_REQ_STRIDED",
                               !.rd = IF next THEN RegAdd(@, 1) ELSE @]
                [] start = "store_strided" ->
                     [v EXCEPT !.state = "S_MEM_REQ_STRIDED",
                               !.rs2 = v.rd, !.rd = RegAdd(v.rs2, 1)]
                [] OTHER -> [v EXCEPT !.state = "S_MEM_REQ_STRIDED"]
  /\ LET c == [StridedAcc EXCEPT !.size = ir.size]
     IN  NextCtrl(CASE start = "load_strided"  -> [c EXCEPT !.rd = TRUE]
                    [] start = "store_strided" -> [c EXCEPT !.wr = TRUE]
                    [] OTHER -> [Strided EXCEPT !.size = ir.size])
  /\ Hold(TRUE, FALSE)
  /\ UNCHANGED csr_vl

MemReqStrided ==
  /\ v.state = "S_MEM_REQ_STRIDED"
  /\ v' = CASE start = "load_strided" ->
                 [v EXCEPT !.state = "S_MEM_WAIT_STRIDED", !.c1 = Count(@ + 1),
                           !.rs1 = ir.rs1, !.rs2 = ir.rs2]
            [] start = "store_strided" ->
                 [v EXCEPT !.state = "S_MEM_WAIT_STRIDED", !.c1 = Count(@ + 1),
                           !.rd = v.rs2, !.rs2 = v.rd]
            [] OTHER -> [v EXCEPT !.state = "S_MEM_WAIT_STRIDED"]
  /\ NextCtrl([StridedAcc EXCEPT !.mux = "mem",
                 !.opb = IF start = "store_strided" THEN "rs2" ELSE "zero"])
  /\ Hold(TRUE, FALSE)
  /\ UNCHANGED csr_vl

(* No look at exc_buf here: only an answer of the bus leaves this state. *)
MemWaitStrided(answer) ==
  /\ v.state = "S_MEM_WAIT_STRIDED"
  /\ LET stop == v.c1 = csr_vl
         wait == [StridedAcc EXCEPT !.mux = "mem"]
     IN  IF answer # "ack" \/ start \notin {"load_strided", "store_strided"}
         THEN UNCHANGED v /\ NextCtrl(wait) /\ Hold(TRUE, FALSE)
         ELSE /\ v' = [v EXCEPT !.state = IF stop THEN "S_IDLE" ELSE "S_MEM_ADDR_STRIDED",
                                !.c1 = IF stop THEN 0 ELSE @,
                                !.mop = stop /\ @]
              /\ NextCtrl(
                   IF start = "load_strided"
                   THEN [wait EXCEPT !.mo = ~stop, !.opb = IF stop THEN @ ELSE "rs2",
                           !.wb = stop \/ ir.size # "8" \/ v.c1 % 4 = 0]
                   ELSE [wait EXCEPT !.mo = ~stop])
              /\ Hold(TRUE, stop)
  /\ UNCHANGED csr_vl

VectorControl(answer) ==
  \/ Idle \/ VectorCsr \/ VMul \/ VAlu \/ VMac
  \/ MemAddr \/ MemReqUnit \/ MemWaitUnit(answer) \/ MemLastStore
  \/ MemAddrStrided \/ MemReqStrided \/ MemWaitStrided(answer)

-----------------------------------------------------------------------------
(* The clock *)

Init ==
  /\ ex = "BRANCHED"
  /\ ir \in Shown /\ ir_last \in Shown   \* neither has a reset value
  /\ ctrl = NoCtrl
  /\ exc = {} /\ env_start = FALSE
  /\ v = [state |-> "S_IDLE", c1 |-> 0, c2 |-> 0, rd |-> 0, rs1 |-> 0, rs2 |-> 0,
          mop |-> FALSE]
  /\ ctrl_vector = NoCtrl /\ switch = FALSE /\ finished = FALSE
  /\ csr_vl \in VLs                      \* no reset value either
  /\ bus = [mar |-> 0, mis |-> FALSE, wdata |-> Zero, size |-> "32",
            pend |-> FALSE, rw |-> FALSE, err |-> FALSE]
  /\ slave = "idle" /\ stored = <<>>
  /\ rf = InitRegs
  /\ dp = [rs1 |-> Zero, rs2 |-> Zero, acc |-> Zero, dsp |-> Zero, prod |-> Zero,
           vbuf |-> <<>>, rdata |-> Zero]
  /\ issued = 0
  /\ atIssue = [rf |-> rf, vl |-> csr_vl, stored |-> <<>>]

Cycle(answer, irq) ==
  /\ MayAnswer(answer)
  /\ VectorControl(answer)
  /\ BusUnit(answer)
  /\ TrapFlags(irq)
  /\ Datapath(answer)
  /\ ExecuteEngine(answer)

Next == \E answer \in Answers, irq \in BOOLEAN : Cycle(answer, irq)

Spec == Init /\ [][Next]_vars

(* A cycle in which the issue engine has an instruction to show.            *)
Delivered == Next /\ ex = "DISPATCH" /\ ex' # "DISPATCH"

(* The clock always comes; a slave answers every access in the end, because *)
(* the bus keeper ends an access with an error when no slave does; and the  *)
(* issue engine shows an instruction in the end (InstrFrontEnd, Supplied).  *)
Fairness ==
  /\ WF_vars(Next)
  /\ WF_vars(Delivered)
  /\ WF_vars(\E answer \in Answers \ {"none"}, irq \in BOOLEAN : Cycle(answer, irq))

FairSpec == Spec /\ Fairness
-----------------------------------------------------------------------------
(* Properties *)

(* The registers hold values of their widths, and the request registers     *)
(* only the values the two engines drive.                                   *)
CtrlType ==
  [rd : BOOLEAN, wr : BOOLEAN, mo : BOOLEAN, wb : BOOLEAN, vwe : BOOLEAN, zero : BOOLEAN,
   mux : {"alu", "mem", "csr"}, opa : {"rs1", "acc", "zero"},
   opb : {"rs2", "imm", "cp", "zero"}, alu : {"add", "cp"}, trig : BOOLEAN,
   mulw : BOOLEAN, byte : {0, 1}, word : {0, 1}, mem : {"no", "unit", "strided"},
   size : {"8", "16", "32"}]
VectorType ==
  [state : VectorStates, c1 : Counter, c2 : Counter, rd : Regs, rs1 : Regs, rs2 : Regs,
   mop : BOOLEAN]
ControlTypeOK ==
  /\ ex \in ExecStates /\ {ir, ir_last} \subseteq InstrType /\ ctrl \in CtrlType
  /\ exc \subseteq AccessFaults \union AlignFaults /\ env_start \in BOOLEAN
  /\ v \in VectorType /\ ctrl_vector \in CtrlType
  /\ switch \in BOOLEAN /\ finished \in BOOLEAN
  /\ issued \in 0 .. MaxIssue
TypeOK ==
  /\ ControlTypeOK
  /\ csr_vl \in Counter
  /\ bus.pend \in BOOLEAN /\ bus.rw \in BOOLEAN /\ bus.err \in BOOLEAN
  /\ slave \in {"idle", "rd", "wr"}
  /\ DOMAIN rf = Regs

(* An instruction is between its issue and the return to DISPATCH. *)
Active == ex \in {"EXECUTE", "VECTOR_WAIT", "MEM_REQ", "MEM_WAIT"}

(* The vector engine holds the control bus only while the execute engine    *)
(* waits for it, or for the one cycle after that in which its last register *)
(* write happens.  After an operation that a bus error cut off, the trap    *)
(* handler therefore runs with its own control signals.                     *)
Released ==
  (switch \/ v.state # "S_IDLE") =>
     \/ ex = "VECTOR_WAIT"
     \/ ex = "DISPATCH" /\ v.state = "S_IDLE"

(* At most one access is under way: no request goes out while the slave     *)
(* still owes an answer, so an answer always belongs to the last request.   *)
OneOutstanding == (out.rd \/ out.wr) => slave = "idle" /\ ~bus.pend

(* The address, the data and the width of an access do not change before it *)
(* has been answered.                                                       *)
BusStable ==
  [][slave # "idle" /\ slave' # "idle" =>
       bus'.mar = bus.mar /\ bus'.wdata = bus.wdata /\ bus'.size = bus.size]_vars

(* Faults are precise: while a data-access flag is up, and until the trap  *)
(* it starts has saved it, the last instruction executed is the one that    *)
(* caused it, of the kind of the flag, and the address register, which goes *)
(* to mtval, points at the word that answered with an error - whatever      *)
(* dispatch has already loaded into i_reg.                                  *)
FaultPrecise ==
  exc # {} \/ bus.pend =>
     /\ ex \in {"VECTOR_WAIT", "MEM_WAIT", "DISPATCH", "TRAP_ENTER", "TRAP_START"}
     /\ ir_last.op \in {"vload", "vstore", "lw"}
     /\ exc \subseteq IF ir_last.op = "vstore" THEN {"saccess", "salign"}
                      ELSE {"laccess", "lalign"}
     /\ AccessError => Faulty(bus.mar)

(* The engine does what the instructions promise.  Until an instruction is  *)
(* over the program sees the state it was issued in; the write-back that is *)
(* still on the control bus when it ends counts as done.                    *)
ISA == INSTANCE VectorIsa WITH
  None <- NoInstr,
  regs <- IF Active THEN atIssue.rf ELSE rfNext,
  vl   <- IF Active THEN atIssue.vl ELSE csr_vl,
  mem  <- IF Active THEN atIssue.stored ELSE stored,
  cur  <- IF Active THEN ir ELSE NoInstr
ImplementsIsa == ISA!Spec

(* Every instruction that is issued ends: the execute engine comes back to  *)
(* DISPATCH, whatever the latencies of the bus.                             *)
Completes == ex = "EXECUTE" ~> ex = "DISPATCH"

(* A bus error always ends in the trap handler, also in the middle of a     *)
(* vector access and when an interrupt arrives in the same cycles.          *)
FaultTaken == bus.pend /\ bus.err ~> ex = "TRAP_START"

-----------------------------------------------------------------------------
(* What a document of the repository promises about every instruction; it   *)
(* is false of the strided ones.                                            *)

(* README.md:33 "the CPU ensures that all memory access are acknowledged":  *)
(* a load that has requested the bus gets its data or an exception, also    *)
(* the first load of the handler of a bus error.                            *)
LoadAnswered == ex = "MEM_REQ" ~> ex = "DISPATCH"
=============================================================================
