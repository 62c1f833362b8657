------------------------ MODULE VectorEngine_proofs ------------------------
(***************************************************************************)
(* Proofs about the vector engine, for every register file, instruction set *)
(* and memory map: first its types, then its handshakes with the execute    *)
(* engine that waits for it, with the bus it requests accesses from, and    *)
(* with the exception buffer that reports their faults.                     *)
(*                                                                          *)
(* The inductive invariant of the handshakes is Handshake. It relates three *)
(* engines that never see each other's state, only registered signals of    *)
(* the cycle before: who runs (EngineRuns), who may request (Requests), and *)
(* whose access the pending one is (Pending).                               *)
(*                                                                          *)
(* A bus error in a strided access breaks it, and leaves the two engines    *)
(* Stuck for good. Guarded, the disjunction of the two, is inductive        *)
(* without any condition on the behaviour.                                  *)
(*                                                                          *)
(* The second half of the module is about the data: that the two engines    *)
(* implement the instructions of VectorIsa. Its invariant is Faithful: in   *)
(* every cycle of every operation, which elements are done, which of them   *)
(* are on their way, and where (in an operand register, in the multiplier,  *)
(* in the collecting buffer, on the bus). The lemmas come operation by      *)
(* operation, each with its start, its steps and its end, then the cycles   *)
(* of the execute engine, then the theorem IsaCorrect.                      *)
(***************************************************************************)
EXTENDS VectorEngine, WellFoundedInduction, SequenceTheorems, TLAPS

-----------------------------------------------------------------------------
(* Helpers: what the operators of the data path return.                    *)

(* A register number plus one is a register number again.                   *)
LEMMA RegAddType == ASSUME NEW r \in Regs, NEW n \in {0, 1} PROVE RegAdd(r, n) \in Regs
  BY NumRegsAssumption DEF RegAdd, Regs

(* A counter value wraps to seven bits.                                     *)
LEMMA CountType == ASSUME NEW n \in Int PROVE Count(n) \in Counter
  BY DEF Count, Counter

(* The number in a word is an integer, whatever the word is.                *)
LEMMA NumType == ASSUME NEW x, IsWord(x) PROVE Num(x) \in Int
  BY DEF IsWord, Num

(* The adder returns words for words.                                       *)
LEMMA AddWord == ASSUME NEW x, NEW y, IsWord(x), IsWord(y) PROVE IsWord(Add(x, y))
  BY DEF IsWord, Add, Scalar, Zero

(* Every way to make a word makes a word.                                   *)
LEMMA ConstructorWords ==
  /\ \A n \in Int : IsWord(Scalar(n))
  /\ IsWord(Zero)
  /\ \A s : IsWord(Bytes(s))
  /\ \A x, y : IsWord(Mul(x, y))
  /\ \A x, y, b : IsWord(MulByte(x, y, b))
  BY DEF IsWord, Scalar, Zero, Bytes, Mul, MulByte

-----------------------------------------------------------------------------
(* Types.  csr_vl is taken from a register, so that its type rests on every *)
(* integer in the register file and in the data path being one.             *)

WordsOK ==
  /\ DOMAIN rf = Regs
  /\ \A r \in Regs : IsWord(rf[r])
  /\ IsWord(dp.rs1) /\ IsWord(dp.rs2) /\ IsWord(dp.acc) /\ IsWord(dp.dsp)
  /\ IsWord(dp.prod) /\ IsWord(dp.rdata)
TypeInv == TypeOK /\ WordsOK

(* The fields of an instruction.                                            *)
LEMMA InstrFields ==
  ASSUME ir \in InstrType
  PROVE  /\ ir.op \in VectorOps \union {"lw"} /\ ir.mode \in {"unit", "strided"}
         /\ ir.size \in {"8", "16", "32"}
         /\ ir.rd \in Regs /\ ir.rs1 \in Regs /\ ir.rs2 \in Regs
  BY DEF InstrType

(* The fields of the vector engine's state.                                 *)
LEMMA VectorFields ==
  ASSUME v \in VectorType
  PROVE  /\ v.state \in VectorStates /\ v.c1 \in Counter /\ v.c2 \in Counter
         /\ v.rd \in Regs /\ v.rs1 \in Regs /\ v.rs2 \in Regs /\ v.mop \in BOOLEAN
  BY DEF VectorType

(* The idle control word is well typed.                                     *)
LEMMA NoCtrlType == NoCtrl \in CtrlType
  BY DEF NoCtrl, CtrlType

(* Changing a field keeps the type of a record of control signals, and of   *)
(* the vector engine's state.                                               *)
LEMMA CtrlUpdate ==
  ASSUME NEW c \in CtrlType
  PROVE  /\ \A b \in BOOLEAN : [c EXCEPT !.rd = b] \in CtrlType
         /\ \A b \in BOOLEAN : [c EXCEPT !.wr = b] \in CtrlType
         /\ \A b \in BOOLEAN : [c EXCEPT !.mo = b] \in CtrlType
         /\ \A b \in BOOLEAN : [c EXCEPT !.wb = b] \in CtrlType
         /\ \A b \in BOOLEAN : [c EXCEPT !.vwe = b] \in CtrlType
         /\ \A b \in BOOLEAN : [c EXCEPT !.zero = b] \in CtrlType
         /\ \A b \in BOOLEAN : [c EXCEPT !.trig = b] \in CtrlType
         /\ \A b \in BOOLEAN : [c EXCEPT !.mulw = b] \in CtrlType
         /\ \A k \in {0, 1} : [c EXCEPT !.byte = k] \in CtrlType
         /\ \A k \in {0, 1} : [c EXCEPT !.word = k] \in CtrlType
  BY DEF CtrlType
(* The same for the fields that select an operand or a width.               *)
LEMMA CtrlSelect ==
  ASSUME NEW c \in CtrlType
  PROVE  /\ \A m \in {"alu", "mem", "csr"} : [c EXCEPT !.mux = m] \in CtrlType
         /\ \A o \in {"rs1", "acc", "zero"} : [c EXCEPT !.opa = o] \in CtrlType
         /\ \A o \in {"rs2", "imm", "cp", "zero"} : [c EXCEPT !.opb = o] \in CtrlType
         /\ \A a \in {"add", "cp"} : [c EXCEPT !.alu = a] \in CtrlType
         /\ \A m \in {"no", "unit", "strided"} : [c EXCEPT !.mem = m] \in CtrlType
         /\ \A z \in {"8", "16", "32"} : [c EXCEPT !.size = z] \in CtrlType
  BY DEF CtrlType
(* The same for the state of the vector engine.                             *)
LEMMA VectorUpdate ==
  ASSUME NEW w \in VectorType
  PROVE  /\ \A z \in VectorStates : [w EXCEPT !.state = z] \in VectorType
         /\ \A n \in Counter : [w EXCEPT !.c1 = n] \in VectorType
         /\ \A n \in Counter : [w EXCEPT !.c2 = n] \in VectorType
         /\ \A r \in Regs : [w EXCEPT !.rd = r] \in VectorType
         /\ \A r \in Regs : [w EXCEPT !.rs1 = r] \in VectorType
         /\ \A r \in Regs : [w EXCEPT !.rs2 = r] \in VectorType
         /\ \A b \in BOOLEAN : [w EXCEPT !.mop = b] \in VectorType
  BY DEF VectorType

(* The ALU works on words and an address is an integer.                     *)
LEMMA OperandWords ==
  ASSUME TypeInv
  PROVE  IsWord(opa) /\ IsWord(opb) /\ IsWord(add_o) /\ addr \in Int /\ IsWord(aluRes)
<1>1. IsWord(opa) /\ IsWord(opb)
  BY ConstructorWords DEF TypeInv, WordsOK, opa, opb, cp_res
<1>2. IsWord(add_o)
  BY <1>1, AddWord DEF add_o
<1>3. addr \in Int
  BY <1>2, NumType DEF addr
<1>4. IsWord(aluRes)
  BY <1>2 DEF aluRes, cp_res, TypeInv, WordsOK
<1>. QED BY <1>1, <1>2, <1>3, <1>4

(* Latching an instruction keeps the type of the vector state.              *)
LEMMA LatchType ==
  ASSUME ir \in InstrType, NEW state \in VectorStates, NEW n \in {0, 1}, NEW r2 \in Regs,
         NEW c1 \in Counter, NEW c2 \in Counter, NEW mop \in BOOLEAN,
         Latch(state, n, r2, c1, c2, mop)
  PROVE  v' \in VectorType
<1>1. ir.rd \in Regs /\ RegAdd(ir.rs1, n) \in Regs /\ RegAdd(r2, n) \in Regs
  BY InstrFields, RegAddType
<1>. QED BY <1>1 DEF Latch, VectorType

-----------------------------------------------------------------------------
(* The vector engine keeps its types: one lemma for each group of states.   *)

VectorTypes ==
  /\ v \in VectorType /\ ctrl_vector \in CtrlType
  /\ switch \in BOOLEAN /\ finished \in BOOLEAN /\ csr_vl \in Counter

(* What the type invariant says of the fields the engine reads.             *)
LEMMA TypeFacts ==
  ASSUME TypeInv
  PROVE  /\ VectorTypes /\ ir \in InstrType
         /\ ir.size \in {"8", "16", "32"} /\ ir.rd \in Regs /\ ir.rs1 \in Regs /\ ir.rs2 \in Regs
         /\ v.state \in VectorStates /\ v.c1 \in Counter /\ v.c2 \in Counter /\ v.mop \in BOOLEAN
         /\ v.rd \in Regs /\ v.rs1 \in Regs /\ v.rs2 \in Regs
         /\ ctrl_vector.size \in {"8", "16", "32"}
         /\ ctrl_vector.byte \in {0, 1} /\ ctrl_vector.word \in {0, 1}
<1>1. VectorTypes /\ ir \in InstrType
  BY DEF TypeInv, TypeOK, ControlTypeOK, VectorTypes
<1>2. ctrl_vector \in CtrlType
  BY <1>1 DEF VectorTypes
<1>3. /\ ctrl_vector.size \in {"8", "16", "32"}
      /\ ctrl_vector.byte \in {0, 1} /\ ctrl_vector.word \in {0, 1}
  BY <1>2 DEF CtrlType
<1>. QED BY <1>1, <1>3, InstrFields, VectorFields DEF VectorTypes

(* The constants that the counters are set to.                              *)
LEMMA SmallNumbers == {0, 2, 4} \subseteq Counter
  BY DEF Counter

(* S_IDLE: every start of an operation.                                     *)
LEMMA IdleType == ASSUME TypeInv, Idle PROVE VectorTypes'
<1>0. csr_vl' \in Counter
  BY TypeFacts DEF Idle, VectorTypes
<1>1. CASE IdleStay
  BY <1>0, <1>1, TypeFacts, NoCtrlType DEF IdleStay, NextCtrl, Hold, VectorTypes
<1>2. CASE StartMem
  <2>1. v' \in VectorType
    BY <1>2, TypeFacts, LatchType, SmallNumbers DEF StartMem, VectorStates
  <2>2. ctrl_vector' \in CtrlType
    BY <1>2, TypeFacts, NoCtrlType, CtrlUpdate, CtrlSelect DEF StartMem, NextCtrl
  <2>. QED BY <1>2, <2>1, <2>2, <1>0 DEF StartMem, Hold, VectorTypes
<1>3. CASE StartStrided
  <2>1. v' \in VectorType
    BY <1>3, TypeFacts, LatchType, SmallNumbers DEF StartStrided, VectorStates
  <2>2. ctrl_vector' \in CtrlType
    BY <1>3, TypeFacts, NoCtrlType, CtrlUpdate, CtrlSelect DEF StartStrided, NextCtrl
  <2>. QED BY <1>3, <2>1, <2>2, <1>0 DEF StartStrided, Hold, VectorTypes
<1>4. CASE StartAdd
  <2>1. v' \in VectorType
    BY <1>4, TypeFacts, LatchType, SmallNumbers DEF StartAdd, VectorStates
  <2>2. ctrl_vector' \in CtrlType
    BY <1>4, TypeFacts, NoCtrlType, CtrlUpdate, CtrlSelect DEF StartAdd, NextCtrl
  <2>. QED BY <1>4, <2>1, <2>2, <1>0 DEF StartAdd, Hold, VectorTypes
<1>5. CASE StartMac
  <2>1. v' \in VectorType
    BY <1>5, TypeFacts, LatchType, SmallNumbers DEF StartMac, VectorStates
  <2>2. ctrl_vector' \in CtrlType
    BY <1>5, TypeFacts, NoCtrlType, CtrlUpdate, CtrlSelect DEF StartMac, NextCtrl
  <2>. QED BY <1>5, <2>1, <2>2, <1>0 DEF StartMac, Hold, VectorTypes
<1>6. CASE StartMul
  <2>1. v' \in VectorType
    BY <1>6, TypeFacts, LatchType, SmallNumbers DEF StartMul, VectorStates
  <2>2. ctrl_vector' \in CtrlType
    BY <1>6, TypeFacts, NoCtrlType, CtrlUpdate, CtrlSelect DEF StartMul, NextCtrl
  <2>. QED BY <1>6, <2>1, <2>2, <1>0 DEF StartMul, Hold, VectorTypes
<1>7. CASE StartCsr
  <2>1. v' \in VectorType
    BY <1>7, TypeFacts, VectorUpdate DEF StartCsr, VectorStates, VectorTypes
  <2>. QED BY <1>0, <1>7, <2>1, NoCtrlType DEF StartCsr, NextCtrl, Hold, VectorTypes
<1>. QED BY <1>1, <1>2, <1>3, <1>4, <1>5, <1>6, <1>7 DEF Idle

(* The control words of the memory states.                                  *)
LEMMA ControlWords ==
  ASSUME TypeInv
  PROVE  Unit \in CtrlType /\ UnitAcc \in CtrlType /\ Strided \in CtrlType /\ StridedAcc \in CtrlType
  BY TypeFacts, NoCtrlType, CtrlUpdate, CtrlSelect DEF Unit, UnitAcc, Strided, StridedAcc

(* Incremented register numbers and counters.                               *)
LEMMA NextValues ==
  ASSUME TypeInv, NEW n \in {0, 1}
  PROVE  /\ RegAdd(v.rd, n) \in Regs /\ RegAdd(v.rs1, n) \in Regs /\ RegAdd(v.rs2, n) \in Regs
         /\ Count(v.c1 + 1) \in Counter /\ Count(v.c2 + 1) \in Counter /\ Count(v.c2 + 4) \in Counter
<1>1. v.c1 \in Int /\ v.c2 \in Int
  BY TypeFacts DEF Counter
<1>. QED BY <1>1, TypeFacts, RegAddType, CountType

(* S_VECTOR_CSR, S_MUL, S_ALU and S_MAC.                                    *)
LEMMA ArithmeticType ==
  ASSUME TypeInv, VectorCsr \/ VMul \/ VAlu \/ VMac PROVE VectorTypes'
<1>1. CASE VectorCsr
  <2>1. v' \in VectorType
    BY <1>1, TypeFacts, VectorUpdate DEF VectorCsr, VectorTypes, VectorStates
  <2>2. csr_vl' \in Counter
    BY <1>1, NumType, CountType DEF VectorCsr, TypeInv, WordsOK
  <2>. QED BY <1>1, <2>1, <2>2, NoCtrlType DEF VectorCsr, NextCtrl, Hold, VectorTypes
<1>2. CASE VMul
  <2>1. v' \in VectorType
    <3>. DEFINE s == IF v.c2 = csr_vl THEN "S_IDLE" ELSE v.state
                c == Count(v.c2 + 1)
                r == IF v.c2 >= 2 THEN RegAdd(v.rd, 1) ELSE v.rd
    <3>1. s \in VectorStates /\ c \in Counter /\ r \in Regs
      BY TypeFacts, NextValues DEF VectorStates
    <3>2. v' = [v EXCEPT !.state = s, !.c2 = c, !.rs1 = RegAdd(@, 1),
                         !.rs2 = RegAdd(@, 1), !.rd = r]
      BY <1>2 DEF VMul
    <3>. HIDE DEF s, c, r
    <3>. QED BY <3>1, <3>2, TypeFacts, NextValues, VectorUpdate DEF VectorTypes
  <2>2. ctrl_vector' \in CtrlType
    BY <1>2, NoCtrlType, CtrlUpdate, CtrlSelect DEF VMul, NextCtrl
  <2>. QED BY <1>2, <2>1, <2>2, TypeFacts DEF VMul, Hold, VectorTypes
<1>3. CASE VAlu
  <2>1. v' \in VectorType
    <3>. DEFINE s == IF v.c1 = csr_vl THEN "S_IDLE" ELSE v.state
                c == IF v.c1 = csr_vl THEN v.c1 ELSE Count(v.c1 + 1)
    <3>1. s \in VectorStates /\ c \in Counter
      BY TypeFacts, NextValues DEF VectorStates
    <3>2. v' = [v EXCEPT !.state = s, !.c1 = c, !.rd = RegAdd(@, 1),
                         !.rs1 = RegAdd(@, 1), !.rs2 = RegAdd(@, 1)]
      BY <1>3 DEF VAlu
    <3>. HIDE DEF s, c
    <3>. QED BY <3>1, <3>2, TypeFacts, NextValues, VectorUpdate DEF VectorTypes
  <2>. QED BY <1>3, <2>1, TypeFacts, NoCtrlType, CtrlUpdate DEF VAlu, NextCtrl, Hold, VectorTypes
<1>4. CASE VMac
  <2>1. v' \in VectorType
    <3>. DEFINE s == IF v.c2 >= csr_vl THEN "S_IDLE" ELSE v.state
                c == Count(v.c2 + 1)
                n == IF v.c2 % 4 = 2 THEN 1 ELSE 0
    <3>1. s \in VectorStates /\ c \in Counter /\ n \in {0, 1}
      BY TypeFacts, NextValues DEF VectorStates
    <3>2. v' = [v EXCEPT !.state = s, !.c2 = c, !.rs1 = RegAdd(@, n), !.rs2 = RegAdd(@, n)]
      BY <1>4 DEF VMac
    <3>. HIDE DEF s, c, n
    <3>3. RegAdd(v.rs1, n) \in Regs /\ RegAdd(v.rs2, n) \in Regs
      BY <3>1, NextValues
    <3>. QED BY <3>1, <3>2, <3>3, TypeFacts, VectorUpdate DEF VectorTypes
  <2>2. ctrl_vector' \in CtrlType
    <3>. DEFINE done == v.c2 >= csr_vl
                b == 1 - ctrl_vector.byte
                w == IF v.c2 % 2 = 1 THEN 1 - ctrl_vector.word ELSE ctrl_vector.word
                o == IF v.c2 >= 1 THEN "acc" ELSE "zero"
                q == IF v.c2 >= 1 THEN "cp" ELSE "zero"
    <3>1. done \in BOOLEAN
      OBVIOUS
    <3>a. ctrl_vector.byte \in {0, 1} /\ ctrl_vector.word \in {0, 1}
      BY TypeFacts
    <3>b. b \in {0, 1} /\ w \in {0, 1}
      BY <3>a
    <3>c. o \in {"rs1", "acc", "zero"} /\ q \in {"rs2", "imm", "cp", "zero"}
      OBVIOUS
    <3>2. ctrl_vector' =
            [NoCtrl EXCEPT !.mulw = TRUE, !.trig = ~done, !.wb = done, !.byte = b,
                           !.word = w, !.opa = o, !.opb = q]
      BY <1>4 DEF VMac, NextCtrl
    <3>. HIDE DEF done, b, w, o, q
    <3>. QED BY <3>1, <3>b, <3>c, <3>2, NoCtrlType, CtrlUpdate, CtrlSelect
  <2>. QED BY <1>4, <2>1, <2>2, TypeFacts DEF VMac, Hold, VectorTypes
<1>. QED BY <1>1, <1>2, <1>3, <1>4

(* The unit-stride memory states.                                           *)
LEMMA UnitType ==
  ASSUME TypeInv, NEW answer \in Answers,
         MemAddr \/ MemReqUnit \/ MemWaitUnit(answer) \/ MemLastStore
  PROVE  VectorTypes'
<1>1. CASE MemAddr
  <2>1. v' \in VectorType
    BY <1>1, TypeFacts, VectorUpdate, RegAddType DEF MemAddr, VectorTypes, VectorStates
  <2>2. ctrl_vector' \in CtrlType
    BY <1>1, ControlWords, CtrlUpdate DEF MemAddr, NextCtrl
  <2>. QED BY <1>1, <2>1, <2>2, TypeFacts DEF MemAddr, Hold, VectorTypes
<1>2. CASE MemReqUnit
  <2>1. Brought \in Int
    BY OperandWords DEF Brought
  <2>2. v' \in VectorType
    <3>1. {"S_IDLE", "S_MEM_WAIT"} \subseteq VectorStates
      BY DEF VectorStates
    <3>2. CASE AccessError
      <4>1. v' = [v EXCEPT !.state = "S_IDLE", !.c1 = 0]
        BY <1>2, <3>2 DEF MemReqUnit
      <4>. QED BY <3>1, <4>1, TypeFacts, SmallNumbers, VectorUpdate DEF VectorTypes
    <3>3. CASE ~AccessError
      <4>. DEFINE c == CASE start = "load" -> Count(v.c1 + Brought)
                         [] start = "store" -> Count(v.c1 + 1)
                         [] OTHER -> v.c1
                  r == IF start = "store" /\ ~v.mop THEN RegAdd(v.rs2, 1) ELSE v.rs2
      <4>1. Count(v.c1 + Brought) \in Counter
        BY <2>1, TypeFacts, CountType DEF Counter
      <4>2. c \in Counter /\ r \in Regs
        BY <4>1, TypeFacts, NextValues
      <4>3. v' = [v EXCEPT !.state = "S_MEM_WAIT", !.c1 = c, !.rs2 = r]
        BY <1>2, <3>3 DEF MemReqUnit
      <4>. HIDE DEF c, r
      <4>. QED BY <3>1, <4>2, <4>3, TypeFacts, VectorUpdate DEF VectorTypes
    <3>. QED BY <3>2, <3>3
  <2>3. ctrl_vector' \in CtrlType
    BY <1>2, ControlWords, CtrlSelect DEF MemReqUnit, NextCtrl
  <2>. QED BY <1>2, <2>2, <2>3, TypeFacts DEF MemReqUnit, Hold, VectorTypes
<1>3. CASE MemWaitUnit(answer)
  <2>1. v' \in VectorType
    <3>. DEFINE stop == v.c1 >= csr_vl
                next == IF ~stop THEN "S_MEM_ADDR"
                        ELSE IF ir.size = "8" /\ v.c2 < csr_vl THEN "S_MEM_LAST_STORE"
                        ELSE "S_IDLE"
                back == IF stop THEN "S_IDLE" ELSE "S_MEM_ADDR"
                c1 == IF stop THEN 0 ELSE v.c1
                c2 == IF ir.size # "32" /\ v.c1 > 3 THEN Count(v.c2 + 4) ELSE v.c2
                m == stop /\ v.mop
    <3>1. /\ next \in VectorStates /\ back \in VectorStates /\ "S_IDLE" \in VectorStates
      BY DEF VectorStates
    <3>2. c1 \in Counter /\ c2 \in Counter /\ 0 \in Counter
      BY TypeFacts, SmallNumbers, NextValues
    <3>3. m \in BOOLEAN /\ FALSE \in BOOLEAN
      OBVIOUS
    <3>4. \/ v' = v
          \/ v' = [v EXCEPT !.state = "S_IDLE", !.c1 = 0]
          \/ v' = [v EXCEPT !.state = next, !.c1 = c1, !.c2 = c2, !.mop = FALSE]
          \/ v' = [v EXCEPT !.state = back, !.c1 = c1, !.mop = m]
      BY <1>3 DEF MemWaitUnit
    <3>5. v \in VectorType
      BY TypeFacts DEF VectorTypes
    <3>. HIDE DEF stop, next, back, c1, c2, m
    <3>6. CASE v' = [v EXCEPT !.state = "S_IDLE", !.c1 = 0]
      BY <3>1, <3>2, <3>5, <3>6, VectorUpdate
    <3>7. CASE v' = [v EXCEPT !.state = next, !.c1 = c1, !.c2 = c2, !.mop = FALSE]
      BY <3>1, <3>2, <3>3, <3>5, <3>7, VectorUpdate
    <3>8. CASE v' = [v EXCEPT !.state = back, !.c1 = c1, !.mop = m]
      BY <3>1, <3>2, <3>3, <3>5, <3>8, VectorUpdate
    <3>. QED BY <3>4, <3>5, <3>6, <3>7, <3>8
  <2>2. ctrl_vector' \in CtrlType
    <3>. DEFINE stop == v.c1 >= csr_vl
                wb == ir.size = "32" \/ v.c1 > 3 \/ stop
                more == [UnitAcc EXCEPT !.mux = "mem", !.size = "32", !.opb = "imm", !.mo = TRUE]
    <3>1. stop \in BOOLEAN /\ wb \in BOOLEAN
      OBVIOUS
    <3>2. more \in CtrlType /\ [UnitAcc EXCEPT !.mux = "mem"] \in CtrlType
      BY ControlWords, CtrlUpdate, CtrlSelect
    <3>3. \/ ctrl_vector' = [Unit EXCEPT !.size = "32"]
          \/ ctrl_vector' = [UnitAcc EXCEPT !.mux = "mem"]
          \/ ctrl_vector' = [more EXCEPT !.mo = ~stop, !.wb = wb]
          \/ ctrl_vector' = more
      BY <1>3 DEF MemWaitUnit, NextCtrl
    <3>. DEFINE mo == ~stop
    <3>4. mo \in BOOLEAN
      OBVIOUS
    <3>5. CASE ctrl_vector' = [Unit EXCEPT !.size = "32"]
      BY <3>5, ControlWords, CtrlSelect
    <3>6. CASE ctrl_vector' = [more EXCEPT !.mo = mo, !.wb = wb]
      <4>. HIDE DEF wb, more, mo
      <4>. QED BY <3>1, <3>2, <3>4, <3>6, CtrlUpdate
    <3>. QED BY <3>2, <3>3, <3>5, <3>6
  <2>3. switch' \in BOOLEAN /\ finished' \in BOOLEAN
    <3>1. (v.c1 >= csr_vl) \in BOOLEAN
      OBVIOUS
    <3>2. Hold(FALSE, FALSE) \/ Hold(TRUE, FALSE) \/ Hold(TRUE, v.c1 >= csr_vl)
      BY <1>3 DEF MemWaitUnit
    <3>. QED BY <3>1, <3>2 DEF Hold
  <2>4. csr_vl' = csr_vl
    BY <1>3 DEF MemWaitUnit
  <2>. QED BY <2>1, <2>2, <2>3, <2>4, TypeFacts DEF VectorTypes
<1>4. CASE MemLastStore
  <2>1. v' \in VectorType
    BY <1>4, TypeFacts, VectorUpdate, RegAddType DEF MemLastStore, VectorTypes, VectorStates
  <2>2. ctrl_vector' \in CtrlType
    BY <1>4, ControlWords, CtrlUpdate, CtrlSelect DEF MemLastStore, NextCtrl
  <2>. QED BY <1>4, <2>1, <2>2, TypeFacts DEF MemLastStore, Hold, VectorTypes
<1>. QED BY <1>1, <1>2, <1>3, <1>4

(* The strided memory states.                                               *)
LEMMA StridedType ==
  ASSUME TypeInv, NEW answer \in Answers,
         MemAddrStrided \/ MemReqStrided \/ MemWaitStrided(answer)
  PROVE  VectorTypes'
<1>1. CASE MemAddrStrided
  <2>1. v' \in VectorType
    BY <1>1, TypeFacts, VectorUpdate, RegAddType DEF MemAddrStrided, VectorTypes, VectorStates
  <2>2. ctrl_vector' \in CtrlType
    <3>. DEFINE c == [StridedAcc EXCEPT !.size = ir.size]
    <3>1. c \in CtrlType
      BY TypeFacts, ControlWords, CtrlSelect
    <3>2. \/ ctrl_vector' = [c EXCEPT !.rd = TRUE]
          \/ ctrl_vector' = [c EXCEPT !.wr = TRUE]
          \/ ctrl_vector' = [Strided EXCEPT !.size = ir.size]
      BY <1>1 DEF MemAddrStrided, NextCtrl
    <3>. HIDE DEF c
    <3>3. CASE ctrl_vector' = [Strided EXCEPT !.size = ir.size]
      BY <3>3, TypeFacts, ControlWords, CtrlSelect
    <3>. QED BY <3>1, <3>2, <3>3, CtrlUpdate
  <2>. QED BY <1>1, <2>1, <2>2, TypeFacts DEF MemAddrStrided, Hold, VectorTypes
<1>2. CASE MemReqStrided
  <2>1. v' \in VectorType
    <3>. DEFINE c == Count(v.c1 + 1)
    <3>1. \/ v' = [v EXCEPT !.state = "S_MEM_WAIT_STRIDED", !.c1 = c, !.rs1 = ir.rs1, !.rs2 = ir.rs2]
          \/ v' = [v EXCEPT !.state = "S_MEM_WAIT_STRIDED", !.c1 = c, !.rd = v.rs2, !.rs2 = v.rd]
          \/ v' = [v EXCEPT !.state = "S_MEM_WAIT_STRIDED"]
      BY <1>2 DEF MemReqStrided
    <3>2. c \in Counter /\ "S_MEM_WAIT_STRIDED" \in VectorStates
      BY NextValues DEF VectorStates
    <3>3. v \in VectorType
      BY TypeFacts DEF VectorTypes
    <3>. HIDE DEF c
    <3>4. CASE v' = [v EXCEPT !.state = "S_MEM_WAIT_STRIDED", !.c1 = c, !.rs1 = ir.rs1, !.rs2 = ir.rs2]
      BY <3>2, <3>3, <3>4, TypeFacts, VectorUpdate
    <3>5. CASE v' = [v EXCEPT !.state = "S_MEM_WAIT_STRIDED", !.c1 = c, !.rd = v.rs2, !.rs2 = v.rd]
      BY <3>2, <3>3, <3>5, TypeFacts, VectorUpdate
    <3>6. CASE v' = [v EXCEPT !.state = "S_MEM_WAIT_STRIDED"]
      BY <3>2, <3>3, <3>6, VectorUpdate
    <3>. QED BY <3>1, <3>4, <3>5, <3>6
  <2>2. ctrl_vector' \in CtrlType
    <3>. DEFINE o == IF start = "store_strided" THEN "rs2" ELSE "zero"
    <3>1. ctrl_vector' = [StridedAcc EXCEPT !.mux = "mem", !.opb = o]
      BY <1>2 DEF MemReqStrided, NextCtrl
    <3>2. o \in {"rs2", "imm", "cp", "zero"}
      OBVIOUS
    <3>. HIDE DEF o
    <3>. QED BY <3>1, <3>2, ControlWords, CtrlSelect
  <2>. QED BY <1>2, <2>1, <2>2, TypeFacts DEF MemReqStrided, Hold, VectorTypes
<1>3. CASE MemWaitStrided(answer)
  <2>. DEFINE stop == v.c1 = csr_vl
              wait == [StridedAcc EXCEPT !.mux = "mem"]
  <2>1. v' \in VectorType
    <3>. DEFINE next == IF stop THEN "S_IDLE" ELSE "S_MEM_ADDR_STRIDED"
                c == IF stop THEN 0 ELSE v.c1
                m == stop /\ v.mop
    <3>1. next \in VectorStates /\ c \in Counter /\ m \in BOOLEAN
      BY TypeFacts, SmallNumbers DEF VectorStates
    <3>2. v' = v \/ v' = [v EXCEPT !.state = next, !.c1 = c, !.mop = m]
      BY <1>3 DEF MemWaitStrided
    <3>3. v \in VectorType
      BY TypeFacts DEF VectorTypes
    <3>. HIDE DEF next, c, m
    <3>. QED BY <3>1, <3>2, <3>3, VectorUpdate
  <2>2. ctrl_vector' \in CtrlType
    <3>. DEFINE mo == ~stop
                o == IF stop THEN wait.opb ELSE "rs2"
                wb == stop \/ ir.size # "8" \/ v.c1 % 4 = 0
    <3>1. mo \in BOOLEAN /\ wb \in BOOLEAN
      OBVIOUS
    <3>2. wait \in CtrlType
      BY ControlWords, CtrlSelect
    <3>3. o \in {"rs2", "imm", "cp", "zero"}
      BY <3>2 DEF CtrlType
    <3>4. \/ ctrl_vector' = wait
          \/ ctrl_vector' = [wait EXCEPT !.mo = mo, !.opb = o, !.wb = wb]
          \/ ctrl_vector' = [wait EXCEPT !.mo = mo]
      BY <1>3 DEF MemWaitStrided, NextCtrl
    <3>. HIDE DEF wait, mo, o, wb
    <3>5. CASE ctrl_vector' = wait
      BY <3>2, <3>5
    <3>6. CASE ctrl_vector' = [wait EXCEPT !.mo = mo, !.opb = o, !.wb = wb]
      BY <3>1, <3>2, <3>3, <3>6, CtrlUpdate, CtrlSelect
    <3>7. CASE ctrl_vector' = [wait EXCEPT !.mo = mo]
      BY <3>1, <3>2, <3>7, CtrlUpdate
    <3>. QED BY <3>4, <3>5, <3>6, <3>7
  <2>3. switch' \in BOOLEAN /\ finished' \in BOOLEAN
    BY <1>3 DEF MemWaitStrided, Hold
  <2>4. csr_vl' = csr_vl
    BY <1>3 DEF MemWaitStrided
  <2>. QED BY <2>1, <2>2, <2>3, <2>4, TypeFacts DEF VectorTypes
<1>. QED BY <1>1, <1>2, <1>3

-----------------------------------------------------------------------------
(* The units around the vector engine keep their types.                     *)

(* What ctrl_output puts on the control bus.                                *)
LEMMA OutType ==
  ASSUME TypeInv
  PROVE  /\ out \in CtrlType /\ rdA \in Regs /\ rs1A \in Regs /\ rs2A \in Regs
         /\ out.rd \in BOOLEAN /\ out.wr \in BOOLEAN /\ out.wb \in BOOLEAN
         /\ out.mux \in {"alu", "mem", "csr"}
<1>1. ctrl \in CtrlType /\ ctrl_vector \in CtrlType
  BY DEF TypeInv, TypeOK, ControlTypeOK
<1>2. out \in CtrlType
  BY <1>1, TypeFacts, CtrlSelect DEF out
<1>3. /\ out.rd \in BOOLEAN /\ out.wr \in BOOLEAN /\ out.wb \in BOOLEAN
      /\ out.mux \in {"alu", "mem", "csr"}
  BY <1>2 DEF CtrlType
<1>. QED BY <1>2, <1>3, TypeFacts DEF rdA, rs1A, rs2A

(* The arbiter and the slave.                                               *)
LEMMA BusType ==
  ASSUME TypeInv, NEW answer \in Answers, BusUnit(answer)
  PROVE  /\ bus'.pend \in BOOLEAN /\ bus'.rw \in BOOLEAN /\ bus'.err \in BOOLEAN
         /\ slave' \in {"idle", "rd", "wr"}
<1>1. /\ bus.pend \in BOOLEAN /\ bus.rw \in BOOLEAN /\ bus.err \in BOOLEAN
      /\ slave \in {"idle", "rd", "wr"}
  BY DEF TypeInv, TypeOK
<1>2. /\ bus'.pend = IF bus.pend THEN answer # "ack" /\ ex # "TRAP_START" ELSE out.rd \/ out.wr
      /\ bus'.rw = (IF bus.pend THEN bus.rw ELSE out.wr)
      /\ bus'.err = (bus.pend /\ (bus.err \/ answer = "err"))
  BY DEF BusUnit
<1>3. slave' \in {"idle", "rd", "wr"}
  BY <1>1 DEF BusUnit
<1>. QED BY <1>1, <1>2, <1>3, OutType

(* The exception buffer and env_start.                                      *)
LEMMA TrapType ==
  ASSUME TypeInv, NEW irq \in BOOLEAN, TrapFlags(irq)
  PROVE  exc' \subseteq AccessFaults \union AlignFaults /\ env_start' \in BOOLEAN
<1>1. exc \subseteq AccessFaults \union AlignFaults /\ env_start \in BOOLEAN
  BY DEF TypeInv, TypeOK, ControlTypeOK
<1>2. exc' \subseteq AccessFaults \union AlignFaults
  BY <1>1 DEF TrapFlags
<1>3. env_start' = IF env_start THEN ex # "TRAP_START"
                   ELSE exc # {} \/ (irq /\ ex \in {"EXECUTE", "TRAP_ENTER"})
  BY DEF TrapFlags
<1>. QED BY <1>1, <1>2, <1>3

(* The register file holds words.                                           *)
LEMMA RegisterWords ==
  ASSUME TypeInv PROVE \A r \in Regs : IsWord(rf[r]) /\ DOMAIN rf = Regs
  BY DEF TypeInv, WordsOK

(* The register file and the data path.                                     *)
LEMMA DataType ==
  ASSUME TypeInv, NEW answer \in Answers, Datapath(answer) PROVE WordsOK'
<1>0. 0 \in Regs
  BY NumRegsAssumption DEF Regs
<1>1. opaAddr \in Regs
  BY <1>0, OutType DEF opaAddr
<1>2. IsWord(memData)
  BY ConstructorWords DEF memData, TypeInv, WordsOK
<1>3. IsWord(wdata)
  BY <1>2, OperandWords, ConstructorWords DEF wdata
<1>4. DOMAIN rfNext = Regs /\ \A r \in Regs : IsWord(rfNext[r])
  BY <1>3, OutType, RegisterWords DEF rfNext, TypeInv, WordsOK
<1>5. DOMAIN rf' = Regs /\ \A r \in Regs : IsWord(rf'[r])
  BY <1>4 DEF Datapath
<1>6. IsWord(rf[opaAddr]) /\ IsWord(rf[rs2A])
  BY <1>1, OutType, RegisterWords
<1>7. /\ dp'.rs1 = rf[opaAddr] /\ dp'.rs2 = rf[rs2A] /\ dp'.acc = add_o /\ dp'.prod = dp.dsp
      /\ dp'.dsp = IF ~out.trig THEN dp.dsp
                   ELSE IF out.mulw THEN MulByte(dp.rs1, dp.rs2, 2 * out.word + out.byte)
                   ELSE Mul(dp.rs1, dp.rs2)
      /\ dp'.rdata = IF answer = "ack" THEN Bytes(WordBytes(bus.mar)) ELSE dp.rdata
  BY DEF Datapath
<1>8. IsWord(dp.dsp) /\ IsWord(dp.rdata)
  BY DEF TypeInv, WordsOK
<1>. QED BY <1>5, <1>6, <1>7, <1>8, OperandWords, ConstructorWords DEF WordsOK

(* The execute engine.                                                      *)
LEMMA ExecType ==
  ASSUME TypeInv, NEW answer \in Answers, ExecuteEngine(answer)
  PROVE  /\ ex' \in ExecStates /\ {ir', ir_last'} \subseteq InstrType /\ ctrl' \in CtrlType
         /\ issued' \in 0 .. MaxIssue
<1>0. ir_last' \in InstrType
  BY DEF ExecuteEngine, LastExecuted, TypeInv, TypeOK, ControlTypeOK
<1>. USE <1>0, InstrsAssumption, ShownAssumption, MaxIssueAssumption, NoCtrlType
     DEF TypeInv, TypeOK, ControlTypeOK, ExecStates, Go, Keep, Look
<1>1. CASE DispatchWait
  BY <1>1 DEF DispatchWait
<1>2. CASE DispatchTrap
  BY <1>2 DEF DispatchTrap
<1>3. CASE Dispatch
  BY <1>3 DEF Dispatch
<1>4. CASE Execute
  <2>1. [NoCtrl EXCEPT !.mo = TRUE, !.opb = "imm"] \in CtrlType
    BY CtrlUpdate, CtrlSelect
  <2>. QED BY <1>4, <2>1 DEF Execute
<1>5. CASE VectorWait
  BY <1>5 DEF VectorWait
<1>6. CASE MemReq
  BY <1>6, CtrlUpdate DEF MemReq
<1>7. CASE MemWait(answer)
  <2>1. [NoCtrl EXCEPT !.wb = TRUE, !.mux = "mem"] \in CtrlType
    BY CtrlUpdate, CtrlSelect
  <2>. QED BY <1>7, <2>1 DEF MemWait
<1>8. CASE TrapEnter
  BY <1>8 DEF TrapEnter
<1>9. CASE TrapStart
  BY <1>9 DEF TrapStart
<1>10. CASE TrapExecute
  BY <1>10 DEF TrapExecute
<1>11. CASE Branched
  <2>1. [NoCtrl EXCEPT !.zero = TRUE, !.mux = "csr"] \in CtrlType
    BY CtrlUpdate, CtrlSelect
  <2>. QED BY <1>11, <2>1 DEF Branched
<1>. QED BY <1>1, <1>2, <1>3, <1>4, <1>5, <1>6, <1>7, <1>8, <1>9, <1>10, <1>11 DEF ExecuteEngine

-----------------------------------------------------------------------------
(* Type correctness *)

(* The reset state.                                                         *)
LEMMA InitType == Init => TypeInv
<1>. SUFFICES ASSUME Init PROVE TypeInv
  OBVIOUS
<1>1. v \in VectorType
  BY NumRegsAssumption DEF Init, VectorType, VectorStates, Counter, Regs
<1>2. ControlTypeOK
  <2>1. {ir, ir_last} \subseteq InstrType /\ issued \in 0 .. MaxIssue
    BY ShownAssumption, MaxIssueAssumption DEF Init
  <2>2. ctrl \in CtrlType /\ ctrl_vector \in CtrlType
    BY NoCtrlType DEF Init
  <2>3. ex \in ExecStates /\ exc = {} /\ env_start = FALSE /\ switch = FALSE /\ finished = FALSE
    BY DEF Init, ExecStates
  <2>. QED BY <1>1, <2>1, <2>2, <2>3 DEF ControlTypeOK
<1>3. TypeOK
  BY <1>2, VLsAssumption, InitRegsAssumption DEF Init, TypeOK
<1>4. WordsOK
  BY InitRegsAssumption, ConstructorWords DEF Init, WordsOK
<1>. QED BY <1>3, <1>4 DEF TypeInv

(* Every clock edge.                                                        *)
LEMMA StepType == TypeInv /\ [Next]_vars => TypeInv'
<1>. SUFFICES ASSUME TypeInv, [Next]_vars PROVE TypeInv'
  OBVIOUS
<1>1. CASE Next
  <2>1. PICK answer \in Answers, irq \in BOOLEAN : Cycle(answer, irq)
    BY <1>1 DEF Next
  <2>2. VectorTypes'
    BY <2>1, IdleType, ArithmeticType, UnitType, StridedType DEF Cycle, VectorControl
  <2>3. WordsOK'
    BY <2>1, DataType DEF Cycle
  <2>4. /\ bus'.pend \in BOOLEAN /\ bus'.rw \in BOOLEAN /\ bus'.err \in BOOLEAN
        /\ slave' \in {"idle", "rd", "wr"}
    BY <2>1, BusType DEF Cycle
  <2>5. exc' \subseteq AccessFaults \union AlignFaults /\ env_start' \in BOOLEAN
    BY <2>1, TrapType DEF Cycle
  <2>6. /\ ex' \in ExecStates /\ {ir', ir_last'} \subseteq InstrType /\ ctrl' \in CtrlType
        /\ issued' \in 0 .. MaxIssue
    BY <2>1, ExecType DEF Cycle
  <2>. QED BY <2>2, <2>3, <2>4, <2>5, <2>6
       DEF TypeInv, TypeOK, ControlTypeOK, VectorTypes, WordsOK
<1>2. CASE UNCHANGED vars
  BY <1>2 DEF vars, execVars, trapVars, vectorVars, busVars, dataVars,
     TypeInv, TypeOK, ControlTypeOK, WordsOK
<1>. QED BY <1>1, <1>2

(* Every register of the engine holds a value of its width, for every       *)
(* register file, program and memory map: TypeOK.                           *)
THEOREM TypeCorrect == Spec => []TypeOK
<1>1. TypeInv => TypeOK
  BY DEF TypeInv
<1>. QED BY <1>1, InitType, StepType, PTL DEF Spec

-----------------------------------------------------------------------------
(* The handshakes between the execute engine, the vector engine and the bus. *)

AddressStates == {"S_MEM_ADDR", "S_MEM_ADDR_STRIDED"}
RequestStates == {"S_MEM_REQ", "S_MEM_REQ_STRIDED"}
WaitStates == {"S_MEM_WAIT", "S_MEM_WAIT_STRIDED"}
MemStates == AddressStates \union RequestStates \union WaitStates \union {"S_MEM_LAST_STORE"}
ArithStates == {"S_VECTOR_CSR", "S_MUL", "S_ALU", "S_MAC"}
LoadKinds == {"load", "load_strided"}
StoreKinds == {"store", "store_strided"}
TrapStates == {"DISPATCH", "TRAP_ENTER", "TRAP_START"}
FaultsOf(i) == IF i.op = "vstore" THEN {"saccess", "salign"} ELSE {"laccess", "lalign"}

(* The vector engine only runs while it is waited for, and a wait with an   *)
(* idle engine ends in this cycle.  While an instruction waits, i_reg_last  *)
(* is i_reg.                                                                *)
EngineRuns ==
  /\ ex # "VECTOR_WAIT" => v.state = "S_IDLE" /\ (switch => ex = "DISPATCH" /\ ~bus.pend)
  /\ ex = "VECTOR_WAIT" =>
       /\ v.state = "S_IDLE" => finished
       /\ finished => v.state \in {"S_IDLE", "S_MEM_LAST_STORE"}
  /\ v.state \in MemStates => IsMem(ir)
  /\ ex \in {"VECTOR_WAIT", "MEM_REQ", "MEM_WAIT"} => ir_last = ir

(* A request is on the control bus for one cycle, without a new address.    *)
Requests ==
  /\ switch /\ (ctrl_vector.rd \/ ctrl_vector.wr) =>
       /\ ex = "VECTOR_WAIT" /\ v.state \in RequestStates /\ ~ctrl_vector.mo
       /\ ctrl_vector.rd => ir.op = "vload"
       /\ ctrl_vector.wr => ir.op = "vstore"
  /\ ctrl.rd => ex = "MEM_WAIT"
  /\ ~ctrl.wr
  /\ ctrl.mo => ex = "MEM_REQ"
  /\ ex \in {"MEM_REQ", "MEM_WAIT"} => ir.op = "lw"

(* An access is pending while somebody waits for it or a trap is under way  *)
(* for it, and the slave owes an answer for no other.  It is the access of  *)
(* the last instruction executed, for i_reg may have moved on.              *)
Pending ==
  /\ slave # "idle" => bus.pend /\ ~bus.err /\ ~bus.mis
  /\ exc # {} => bus.pend /\ slave = "idle"
  /\ bus.pend =>
       /\ \/ ex = "VECTOR_WAIT" /\ v.state \in WaitStates
          \/ ex = "MEM_WAIT" /\ ~ctrl.rd
          \/ ex \in TrapStates /\ exc # {}
       /\ switch => ~ctrl_vector.mo
       /\ ir_last.op \in {"vload", "vstore", "lw"} /\ bus.rw = (ir_last.op = "vstore")
  /\ exc \subseteq FaultsOf(ir_last)

Handshake == TypeInv /\ EngineRuns /\ Requests /\ Pending

(* No bus error reaches a strided access: S_MEM_WAIT_STRIDED does not look  *)
(* at the exception buffer, so the handshake is lost when one does.         *)
NoStridedFault == v.state = "S_MEM_WAIT_STRIDED" => ~AccessError

-----------------------------------------------------------------------------
(* What one clock does to the vector engine, by groups of its states.       *)

Silent == ~ctrl_vector'.rd /\ ~ctrl_vector'.wr

(* S_IDLE starts what is requested, and nothing else.                       *)
LEMMA IdleStep ==
  ASSUME TypeInv, Idle
  PROVE  /\ v.state = "S_IDLE" /\ Silent
         /\ start = "none" => v'.state = "S_IDLE" /\ ~switch'
         /\ start # "none" /\ v'.state = "S_IDLE" => finished'
         /\ finished' => v'.state = "S_IDLE"
         /\ v'.state \notin RequestStates \union WaitStates \union {"S_MEM_LAST_STORE"}
         /\ v'.state \in AddressStates => start \in LoadKinds \union StoreKinds
<1>. USE DEF Silent, NextCtrl, Hold, NoCtrl, Latch, AddressStates, RequestStates, WaitStates,
             LoadKinds, StoreKinds
<1>0. v.state = "S_IDLE" /\ v \in VectorType
  BY TypeFacts DEF Idle, VectorTypes
<1>1. CASE IdleStay
  BY <1>0, <1>1 DEF IdleStay
<1>2. CASE StartMem
  <2>1. start \in {"load", "store"} /\ v'.state = "S_MEM_ADDR" /\ Silent /\ ~finished'
    BY <1>2 DEF StartMem
  <2>. QED BY <1>0, <2>1
<1>3. CASE StartStrided
  <2>1. start \in {"load_strided", "store_strided"} /\ v'.state = "S_MEM_ADDR_STRIDED"
        /\ Silent /\ ~finished'
    BY <1>3 DEF StartStrided
  <2>. QED BY <1>0, <2>1
<1>4. CASE StartAdd
  <2>1. /\ start = "add" /\ Silent /\ finished' = (csr_vl = 1)
        /\ v'.state = IF csr_vl = 1 THEN "S_IDLE" ELSE "S_ALU"
    BY <1>4 DEF StartAdd
  <2>. QED BY <1>0, <2>1
<1>5. CASE StartMac
  <2>1. start = "mac" /\ v'.state = "S_MAC" /\ Silent /\ ~finished'
    BY <1>5 DEF StartMac
  <2>. QED BY <1>0, <2>1
<1>6. CASE StartMul
  <2>1. start = "mul" /\ v'.state = "S_MUL" /\ Silent /\ ~finished'
    BY <1>6 DEF StartMul
  <2>. QED BY <1>0, <2>1
<1>7. CASE StartCsr
  <2>1. start = "csr" /\ v'.state = "S_VECTOR_CSR" /\ Silent /\ ~finished'
    BY <1>0, <1>7 DEF StartCsr, VectorType
  <2>. QED BY <1>0, <2>1
<1>. QED BY <1>1, <1>2, <1>3, <1>4, <1>5, <1>6, <1>7 DEF Idle

(* An arithmetic state goes on, or finishes and goes idle.                  *)
LEMMA ArithStep ==
  ASSUME TypeInv, VectorCsr \/ VMul \/ VAlu \/ VMac
  PROVE  /\ v.state \in ArithStates /\ Silent
         /\ v'.state \in {v.state, "S_IDLE"}
         /\ finished' <=> v'.state = "S_IDLE"
<1>. USE DEF Silent, NextCtrl, Hold, NoCtrl, ArithStates
<1>0. v \in VectorType
  BY TypeFacts DEF VectorTypes
<1>1. CASE VectorCsr
  <2>1. /\ v.state = "S_VECTOR_CSR" /\ finished' = ~v.mop
        /\ v'.state = IF v.mop THEN "S_VECTOR_CSR" ELSE "S_IDLE"
    BY <1>0, <1>1 DEF VectorCsr, VectorType
  <2>. QED BY <1>1, <2>1 DEF VectorCsr
<1>2. CASE VMul
  <2>1. /\ v.state = "S_MUL" /\ finished' = (v.c2 = csr_vl)
        /\ v'.state = IF v.c2 = csr_vl THEN "S_IDLE" ELSE "S_MUL"
    BY <1>0, <1>2 DEF VMul, VectorType
  <2>2. Silent
    BY <1>2 DEF VMul
  <2>. QED BY <2>1, <2>2
<1>3. CASE VAlu
  <2>1. /\ v.state = "S_ALU" /\ finished' = (v.c1 = csr_vl)
        /\ v'.state = IF v.c1 = csr_vl THEN "S_IDLE" ELSE "S_ALU"
    BY <1>0, <1>3 DEF VAlu, VectorType
  <2>. QED BY <1>3, <2>1 DEF VAlu
<1>4. CASE VMac
  <2>1. /\ v.state = "S_MAC" /\ finished' = (v.c2 >= csr_vl)
        /\ v'.state = IF v.c2 >= csr_vl THEN "S_IDLE" ELSE "S_MAC"
    BY <1>0, <1>4 DEF VMac, VectorType
  <2>2. Silent
    BY <1>4 DEF VMac
  <2>. QED BY <2>1, <2>2
<1>. QED BY <1>1, <1>2, <1>3, <1>4

(* An address state requests, of the kind it was asked for.                 *)
LEMMA AddressStep ==
  ASSUME TypeInv, MemAddr \/ MemAddrStrided
  PROVE  /\ v.state \in AddressStates /\ v'.state \in RequestStates
         /\ ~finished' /\ ~ctrl_vector'.mo
         /\ ctrl_vector'.rd => start \in LoadKinds
         /\ ctrl_vector'.wr => start \in StoreKinds
<1>. USE DEF NextCtrl, Hold, AddressStates, RequestStates, LoadKinds, StoreKinds
<1>0. v \in VectorType
  BY TypeFacts DEF VectorTypes
<1>1. CASE MemAddr
  <2>1. v.state = "S_MEM_ADDR" /\ v'.state = "S_MEM_REQ" /\ ~finished'
    BY <1>0, <1>1 DEF MemAddr, VectorType
  <2>2. ctrl_vector' = CASE start = "load"  -> [UnitAcc EXCEPT !.rd = TRUE]
                         [] start = "store" -> [UnitAcc EXCEPT !.wr = TRUE]
                         [] OTHER           -> Unit
    BY <1>1 DEF MemAddr
  <2>. QED BY <2>1, <2>2 DEF UnitAcc, Unit, NoCtrl
<1>2. CASE MemAddrStrided
  <2>1. v.state = "S_MEM_ADDR_STRIDED" /\ v'.state = "S_MEM_REQ_STRIDED" /\ ~finished'
    BY <1>0, <1>2 DEF MemAddrStrided, VectorType
  <2>2. ctrl_vector' =
          CASE start = "load_strided"  -> [[StridedAcc EXCEPT !.size = ir.size] EXCEPT !.rd = TRUE]
            [] start = "store_strided" -> [[StridedAcc EXCEPT !.size = ir.size] EXCEPT !.wr = TRUE]
            [] OTHER -> [Strided EXCEPT !.size = ir.size]
    BY <1>2 DEF MemAddrStrided
  <2>. QED BY <2>1, <2>2 DEF StridedAcc, Strided, NoCtrl
<1>. QED BY <1>1, <1>2

(* A request state waits next, without a second request.                    *)
LEMMA RequestStep ==
  ASSUME TypeInv, ~AccessError, MemReqUnit \/ MemReqStrided
  PROVE  /\ v.state \in RequestStates /\ v'.state \in WaitStates
         /\ ~finished' /\ ~ctrl_vector'.mo /\ Silent
<1>. USE DEF NextCtrl, Hold, WaitStates, RequestStates, Silent
<1>0. v \in VectorType
  BY TypeFacts DEF VectorTypes
<1>1. CASE MemReqUnit
  <2>1. v.state = "S_MEM_REQ" /\ v'.state = "S_MEM_WAIT" /\ ~finished'
    BY <1>0, <1>1 DEF MemReqUnit, VectorType
  <2>2. ctrl_vector' = [UnitAcc EXCEPT !.mux = "mem"]
    BY <1>1 DEF MemReqUnit
  <2>. QED BY <2>1, <2>2 DEF UnitAcc, Unit, NoCtrl
<1>2. CASE MemReqStrided
  <2>1. v.state = "S_MEM_REQ_STRIDED" /\ v'.state = "S_MEM_WAIT_STRIDED" /\ ~finished'
    BY <1>0, <1>2 DEF MemReqStrided, VectorType
  <2>2. ctrl_vector' = [StridedAcc EXCEPT !.mux = "mem",
                          !.opb = IF start = "store_strided" THEN "rs2" ELSE "zero"]
    BY <1>2 DEF MemReqStrided
  <2>. QED BY <2>1, <2>2 DEF StridedAcc, Strided, NoCtrl
<1>. QED BY <1>1, <1>2

(* A wait goes on without an answer; an answer moves on or finishes.        *)
LEMMA WaitStep ==
  ASSUME TypeInv, NEW answer \in Answers,
         \/ MemWaitUnit(answer) /\ ~AccessError
         \/ MemWaitStrided(answer)
  PROVE  /\ v.state \in WaitStates /\ Silent
         /\ answer # "ack" => v'.state = v.state /\ ~finished' /\ ~ctrl_vector'.mo
         /\ v'.state \in MemStates \union {"S_IDLE"}
         /\ v'.state = "S_IDLE" => finished'
         /\ finished' => v'.state \in {"S_IDLE", "S_MEM_LAST_STORE"}
<1>. USE DEF NextCtrl, Hold, WaitStates, AddressStates, MemStates, Silent
<1>0. v \in VectorType
  BY TypeFacts DEF VectorTypes
<1>1. CASE MemWaitUnit(answer) /\ ~AccessError
  <2>. DEFINE stop == v.c1 >= csr_vl
  <2>0. v.state = "S_MEM_WAIT"
    BY <1>1 DEF MemWaitUnit
  <2>1. CASE answer # "ack" \/ start \notin {"load", "store"}
    <3>1. v' = v /\ ctrl_vector' = [UnitAcc EXCEPT !.mux = "mem"] /\ ~finished'
      BY <1>1, <2>1 DEF MemWaitUnit
    <3>. QED BY <2>0, <3>1 DEF UnitAcc, Unit, NoCtrl
  <2>2. CASE answer = "ack" /\ start = "load"
    <3>1. /\ finished' = stop
          /\ v'.state = IF ~stop THEN "S_MEM_ADDR"
                        ELSE IF ir.size = "8" /\ v.c2 < csr_vl THEN "S_MEM_LAST_STORE"
                        ELSE "S_IDLE"
      BY <1>0, <1>1, <2>2 DEF MemWaitUnit, VectorType
    <3>2. Silent
      <4>. DEFINE more == [UnitAcc EXCEPT !.mux = "mem", !.size = "32", !.opb = "imm", !.mo = TRUE]
                  mo == ~stop
                  wb == ir.size = "32" \/ v.c1 > 3 \/ stop
      <4>1. ctrl_vector' = [more EXCEPT !.mo = mo, !.wb = wb]
        BY <1>1, <2>2 DEF MemWaitUnit
      <4>. HIDE DEF mo, wb
      <4>. QED BY <4>1 DEF UnitAcc, Unit, NoCtrl
    <3>. QED BY <2>0, <2>2, <3>1, <3>2
  <2>3. CASE answer = "ack" /\ start = "store"
    <3>1. finished' = stop /\ v'.state = IF stop THEN "S_IDLE" ELSE "S_MEM_ADDR"
      BY <1>0, <1>1, <2>3 DEF MemWaitUnit, VectorType
    <3>2. Silent
      BY <1>1, <2>3 DEF MemWaitUnit, UnitAcc, Unit, NoCtrl
    <3>. QED BY <2>0, <2>3, <3>1, <3>2
  <2>. QED BY <2>1, <2>2, <2>3
<1>2. CASE MemWaitStrided(answer)
  <2>. DEFINE stop == v.c1 = csr_vl
  <2>0. v.state = "S_MEM_WAIT_STRIDED"
    BY <1>2 DEF MemWaitStrided
  <2>1. CASE answer # "ack" \/ start \notin {"load_strided", "store_strided"}
    <3>1. v' = v /\ ctrl_vector' = [StridedAcc EXCEPT !.mux = "mem"] /\ ~finished'
      BY <1>2, <2>1 DEF MemWaitStrided
    <3>. QED BY <2>0, <3>1 DEF StridedAcc, Strided, NoCtrl
  <2>2. CASE answer = "ack" /\ start \in {"load_strided", "store_strided"}
    <3>1. finished' = stop /\ v'.state = IF stop THEN "S_IDLE" ELSE "S_MEM_ADDR_STRIDED"
      BY <1>0, <1>2, <2>2 DEF MemWaitStrided, VectorType
    <3>2. Silent
      <4>. DEFINE wait == [StridedAcc EXCEPT !.mux = "mem"]
                  side == IF stop THEN wait.opb ELSE "rs2"
                  wb == stop \/ ir.size # "8" \/ v.c1 % 4 = 0
      <4>1. \/ ctrl_vector' = [wait EXCEPT !.mo = ~stop, !.opb = side, !.wb = wb]
            \/ ctrl_vector' = [wait EXCEPT !.mo = ~stop]
        BY <1>2, <2>2 DEF MemWaitStrided
      <4>. HIDE DEF stop, side, wb
      <4>. QED BY <4>1 DEF StridedAcc, Strided, NoCtrl
    <3>. QED BY <2>0, <2>2, <3>1, <3>2
  <2>. QED BY <2>1, <2>2
<1>. QED BY <1>1, <1>2

(* A bus error in S_MEM_WAIT gives the control bus back.                    *)
LEMMA AbortStep ==
  ASSUME TypeInv, NEW answer \in Answers, MemWaitUnit(answer), AccessError
  PROVE  v'.state = "S_IDLE" /\ ~switch' /\ Silent
<1>1. v \in VectorType
  BY TypeFacts DEF VectorTypes
<1>2. v' = [v EXCEPT !.state = "S_IDLE", !.c1 = 0] /\ ctrl_vector' = [Unit EXCEPT !.size = "32"]
      /\ ~switch'
  BY DEF MemWaitUnit, NextCtrl, Hold
<1>. QED BY <1>1, <1>2 DEF VectorType, Silent, Unit, NoCtrl

(* S_MEM_LAST_STORE finishes.                                               *)
LEMMA LastStoreStep ==
  ASSUME TypeInv, MemLastStore
  PROVE  v.state = "S_MEM_LAST_STORE" /\ v'.state = "S_IDLE" /\ finished' /\ Silent
<1>1. v \in VectorType
  BY TypeFacts DEF VectorTypes
<1>. QED BY <1>1 DEF MemLastStore, VectorType, NextCtrl, Hold, Silent, Unit, NoCtrl

(* What one clock does to the execute engine.                               *)
LEMMA ExecStep ==
  ASSUME TypeInv, NEW answer \in Answers, ExecuteEngine(answer)
  PROVE  /\ ex' = "VECTOR_WAIT" <=>
              \/ ex = "EXECUTE" /\ ir.op # "lw"
              \/ ex = "VECTOR_WAIT" /\ ~finished /\ ~(IsMem(ir) /\ AccessError)
         /\ ex = "VECTOR_WAIT" => ex' \in {"VECTOR_WAIT", "DISPATCH"}
         /\ ex = "DISPATCH" => ex' \in {"DISPATCH", "TRAP_ENTER", "EXECUTE"}
         /\ ex = "EXECUTE" => ex' = IF ir.op = "lw" THEN "MEM_REQ" ELSE "VECTOR_WAIT"
         /\ ex = "MEM_REQ" => ex' = "MEM_WAIT"
         /\ ex = "MEM_WAIT" =>
              ex' = IF exc # {} \/ answer = "ack" THEN "DISPATCH" ELSE "MEM_WAIT"
         /\ ex = "TRAP_ENTER" => ex' \in {"TRAP_ENTER", "TRAP_START"}
         /\ ex \in {"TRAP_START", "TRAP_EXECUTE", "BRANCHED"} =>
              ex' \in {"TRAP_EXECUTE", "BRANCHED", "DISPATCH"}
         /\ ctrl'.rd <=> ex = "MEM_REQ"
         /\ ~ctrl'.wr
         /\ ctrl'.mo => ex = "EXECUTE" /\ ir.op = "lw"
         /\ ex # "DISPATCH" => ir' = ir
         /\ ir_last' = IF ex = "EXECUTE" THEN ir ELSE ir_last
         /\ ex' = "EXECUTE" => ex = "DISPATCH" /\ exc = {}
<1>0. ir_last' = IF ex = "EXECUTE" THEN ir ELSE ir_last
  BY DEF ExecuteEngine, LastExecuted
<1>. USE <1>0 DEF Go, Keep, NoCtrl
<1>1. CASE DispatchWait
  BY <1>1 DEF DispatchWait
<1>2. CASE DispatchTrap
  BY <1>2 DEF DispatchTrap
<1>3. CASE Dispatch
  BY <1>3 DEF Dispatch
<1>4. CASE Execute
  <2>1. CASE ir.op = "lw"
    BY <1>4, <2>1 DEF Execute
  <2>2. CASE ir.op # "lw"
    BY <1>4, <2>2 DEF Execute
  <2>. QED BY <2>1, <2>2
<1>5. CASE VectorWait
  BY <1>5 DEF VectorWait
<1>6. CASE MemReq
  BY <1>6 DEF MemReq
<1>7. CASE MemWait(answer)
  <2>1. CASE exc = {} /\ answer = "ack"
    BY <1>7, <2>1 DEF MemWait
  <2>2. CASE exc # {} \/ answer # "ack"
    BY <1>7, <2>2 DEF MemWait
  <2>. QED BY <2>1, <2>2
<1>8. CASE TrapEnter
  BY <1>8 DEF TrapEnter
<1>9. CASE TrapStart
  BY <1>9 DEF TrapStart
<1>10. CASE TrapExecute
  BY <1>10 DEF TrapExecute
<1>11. CASE Branched
  BY <1>11 DEF Branched
<1>. QED BY <1>1, <1>2, <1>3, <1>4, <1>5, <1>6, <1>7, <1>8, <1>9, <1>10, <1>11 DEF ExecuteEngine

(* The request of the execute engine, and what it says of i_reg.            *)
LEMMA StartFacts ==
  ASSUME TypeInv
  PROVE  /\ start # "none" => \/ ex = "EXECUTE" /\ ir.op # "lw"
                              \/ ex = "VECTOR_WAIT" /\ ~finished /\ ~(IsMem(ir) /\ AccessError)
         /\ ex = "EXECUTE" /\ ir.op # "lw" => start # "none"
         /\ start \in LoadKinds => ir.op = "vload"
         /\ start \in StoreKinds => ir.op = "vstore"
<1>. USE DEF LoadKinds, StoreKinds, start, Kind
<1>1. ir.op \in VectorOps \union {"lw"}
  BY TypeFacts, InstrFields
<1>2. start # "none" => \/ ex = "EXECUTE" /\ ir.op # "lw"
                        \/ ex = "VECTOR_WAIT" /\ ~finished /\ ~(IsMem(ir) /\ AccessError)
  OBVIOUS
<1>3. ex = "EXECUTE" /\ ir.op # "lw" => start # "none"
  BY <1>1 DEF VectorOps
<1>4. start \in LoadKinds => ir.op = "vload"
  OBVIOUS
<1>5. start \in StoreKinds => ir.op = "vstore"
  OBVIOUS
<1>. QED BY <1>2, <1>3, <1>4, <1>5

(* An access fault shows up in the vector engine in S_MEM_WAIT only.        *)
LEMMA FaultPlace ==
  ASSUME Handshake, NoStridedFault, AccessError, ex = "VECTOR_WAIT" \/ v.state # "S_IDLE"
  PROVE  ex = "VECTOR_WAIT" /\ v.state = "S_MEM_WAIT" /\ IsMem(ir) /\ ~finished
<1>1. exc # {}
  BY DEF AccessError
<1>2. ex = "VECTOR_WAIT"
  BY DEF Handshake, EngineRuns
<1>3. v.state \in WaitStates
  BY <1>1, <1>2 DEF Handshake, Pending, TrapStates
<1>4. v.state = "S_MEM_WAIT"
  BY <1>3 DEF NoStridedFault, WaitStates
<1>. QED BY <1>2, <1>4 DEF Handshake, EngineRuns, MemStates, WaitStates

(* One clock of the vector engine, for every state it may be in.            *)
LEMMA ControlStep ==
  ASSUME Handshake, NoStridedFault, NEW answer \in Answers, VectorControl(answer)
  PROVE  \/ Idle
         \/ VectorCsr \/ VMul \/ VAlu \/ VMac
         \/ MemAddr \/ MemAddrStrided
         \/ (MemReqUnit \/ MemReqStrided) /\ ~AccessError
         \/ (MemWaitUnit(answer) /\ ~AccessError) \/ MemWaitStrided(answer)
         \/ MemWaitUnit(answer) /\ AccessError
         \/ MemLastStore
<1>1. CASE MemReqUnit \/ MemReqStrided
  <2>1. v.state \in {"S_MEM_REQ", "S_MEM_REQ_STRIDED"}
    BY <1>1 DEF MemReqUnit, MemReqStrided
  <2>. QED BY <1>1, <2>1, FaultPlace
<1>. QED BY <1>1 DEF VectorControl

(* EngineRuns is kept.                                                      *)
LEMMA RunsStep ==
  ASSUME Handshake, NoStridedFault, NEW answer \in Answers, NEW irq \in BOOLEAN, Cycle(answer, irq)
  PROVE  EngineRuns'
<1>0. TypeInv /\ VectorControl(answer) /\ ExecuteEngine(answer) /\ BusUnit(answer) /\ MayAnswer(answer)
  BY DEF Handshake, Cycle
<1>. DEFINE P == /\ ex' # "VECTOR_WAIT" => v'.state = "S_IDLE"
                 /\ ex' = "VECTOR_WAIT" /\ v'.state = "S_IDLE" => finished'
                 /\ finished' => v'.state \in {"S_IDLE", "S_MEM_LAST_STORE"}
                 /\ v'.state \in MemStates => IsMem(ir)
                 /\ ex' # "VECTOR_WAIT" /\ switch' => ex = "VECTOR_WAIT" /\ v.state \in {"S_IDLE", "S_MEM_LAST_STORE"}
<1>1. P
  <2>. USE DEF MemStates, AddressStates, RequestStates, WaitStates, ArithStates
  <2>a. ex = "VECTOR_WAIT" \/ v.state = "S_IDLE"
    BY DEF Handshake, EngineRuns
  <2>b. ex = "VECTOR_WAIT" /\ v.state = "S_IDLE" => finished
    BY DEF Handshake, EngineRuns
  <2>c. ex = "VECTOR_WAIT" /\ finished => v.state \in {"S_IDLE", "S_MEM_LAST_STORE"}
    BY DEF Handshake, EngineRuns
  <2>d. v.state \in MemStates => IsMem(ir)
    BY DEF Handshake, EngineRuns
  <2>e. v.state # "S_IDLE" /\ AccessError => v.state = "S_MEM_WAIT"
    BY FaultPlace
  <2>1. CASE Idle
    <3>1. start \in LoadKinds \union StoreKinds => IsMem(ir)
      BY <1>0, StartFacts DEF IsMem
    <3>2. CASE start = "none"
      <4>1. v'.state = "S_IDLE" /\ ~switch'
        BY <1>0, <2>1, <3>2, IdleStep
      <4>2. ex' # "VECTOR_WAIT"
        <5>1. ~(ex = "EXECUTE" /\ ir.op # "lw")
          BY <1>0, <3>2, StartFacts
        <5>2. ex = "VECTOR_WAIT" => finished
          BY <1>0, <2>1, <2>b, IdleStep
        <5>. QED BY <1>0, <5>1, <5>2, ExecStep
      <4>. QED BY <4>1, <4>2
    <3>3. CASE start # "none"
      <4>1. ex' = "VECTOR_WAIT"
        BY <1>0, <3>3, ExecStep, StartFacts
      <4>. QED BY <1>0, <2>1, <3>1, <3>3, <4>1, IdleStep
    <3>. QED BY <3>2, <3>3
  <2>2. CASE VectorCsr \/ VMul \/ VAlu \/ VMac
    <3>1. v.state \in ArithStates
      BY <1>0, <2>2, ArithStep
    <3>2. ex = "VECTOR_WAIT" /\ ~finished /\ ~AccessError
      BY <2>a, <2>c, <2>e, <3>1
    <3>3. ex' = "VECTOR_WAIT"
      BY <1>0, <3>2, ExecStep
    <3>. QED BY <1>0, <2>2, <3>1, <3>3, ArithStep
  <2>3. CASE MemAddr \/ MemAddrStrided
    <3>1. v.state \in AddressStates /\ v'.state \in RequestStates /\ ~finished'
      BY <1>0, <2>3, AddressStep
    <3>2. ex = "VECTOR_WAIT" /\ ~finished /\ ~AccessError
      BY <2>a, <2>c, <2>e, <3>1
    <3>3. ex' = "VECTOR_WAIT"
      BY <1>0, <3>2, ExecStep
    <3>. QED BY <2>d, <3>1, <3>3
  <2>4. CASE (MemReqUnit \/ MemReqStrided) /\ ~AccessError
    <3>1. v.state \in RequestStates /\ v'.state \in WaitStates /\ ~finished'
      BY <1>0, <2>4, RequestStep
    <3>2. ex = "VECTOR_WAIT" /\ ~finished /\ ~AccessError
      BY <2>a, <2>c, <2>4, <3>1
    <3>3. ex' = "VECTOR_WAIT"
      BY <1>0, <3>2, ExecStep
    <3>. QED BY <2>d, <3>1, <3>3
  <2>5. CASE (MemWaitUnit(answer) /\ ~AccessError) \/ MemWaitStrided(answer)
    <3>1. v.state \in WaitStates
      BY <1>0, <2>5, WaitStep
    <3>2. ~AccessError
      BY <2>5 DEF NoStridedFault, MemWaitStrided
    <3>3. ex = "VECTOR_WAIT" /\ ~finished
      BY <2>a, <2>c, <3>1
    <3>4. ex' = "VECTOR_WAIT"
      BY <1>0, <3>2, <3>3, ExecStep
    <3>. QED BY <1>0, <2>5, <2>d, <3>1, <3>4, WaitStep
  <2>6. CASE MemWaitUnit(answer) /\ AccessError
    <3>1. v'.state = "S_IDLE" /\ ~switch'
      BY <1>0, <2>6, AbortStep
    <3>2. v.state = "S_MEM_WAIT"
      BY <2>6 DEF MemWaitUnit
    <3>3. ex' # "VECTOR_WAIT"
      BY <1>0, <2>6, <2>a, <2>d, <3>2, ExecStep
    <3>. QED BY <3>1, <3>3
  <2>7. CASE MemLastStore
    <3>1. v.state = "S_MEM_LAST_STORE" /\ v'.state = "S_IDLE" /\ finished'
      BY <1>0, <2>7, LastStoreStep
    <3>. QED BY <2>a, <3>1
  <2>. QED BY <1>0, <2>1, <2>2, <2>3, <2>4, <2>5, <2>6, <2>7, ControlStep
<1>2. v'.state \in MemStates => IsMem(ir')
  <2>1. CASE ex # "DISPATCH"
    BY <1>0, <1>1, <2>1, ExecStep
  <2>2. CASE ex = "DISPATCH"
    <3>1. ex' # "VECTOR_WAIT"
      BY <1>0, <2>2, ExecStep
    <3>. QED BY <1>1, <3>1 DEF MemStates, AddressStates, RequestStates, WaitStates
  <2>. QED BY <2>1, <2>2
<1>3. ex' # "VECTOR_WAIT" /\ switch' => ex' = "DISPATCH" /\ ~bus'.pend
  <2>. SUFFICES ASSUME ex' # "VECTOR_WAIT", switch' PROVE ex' = "DISPATCH" /\ ~bus'.pend
    OBVIOUS
  <2>1. ex = "VECTOR_WAIT" /\ v.state \in {"S_IDLE", "S_MEM_LAST_STORE"}
    BY <1>1
  <2>2. ex' = "DISPATCH"
    BY <1>0, <2>1, ExecStep
  <2>3. ~bus.pend
    BY <2>1 DEF Handshake, Pending, WaitStates, TrapStates
  <2>4. ~out.rd /\ ~out.wr
    BY <2>1 DEF Handshake, Requests, RequestStates, out
  <2>. QED BY <1>0, <2>2, <2>3, <2>4 DEF BusUnit
<1>4. ex' \in {"VECTOR_WAIT", "MEM_REQ", "MEM_WAIT"} => ir_last' = ir'
  <2>. SUFFICES ASSUME ex' \in {"VECTOR_WAIT", "MEM_REQ", "MEM_WAIT"} PROVE ir_last' = ir'
    OBVIOUS
  <2>1. ex \in {"EXECUTE", "VECTOR_WAIT", "MEM_REQ", "MEM_WAIT"}
    BY <1>0, ExecStep DEF TypeInv, TypeOK, ControlTypeOK, ExecStates
  <2>. QED BY <1>0, <2>1, ExecStep DEF Handshake, EngineRuns
<1>. QED BY <1>1, <1>2, <1>3, <1>4 DEF EngineRuns

(* The request lines belong to whoever holds the control bus.               *)
LEMMA OutFlags ==
  ASSUME TypeInv
  PROVE  /\ switch => out = ctrl_vector
         /\ ~switch => out.rd = ctrl.rd /\ out.wr = ctrl.wr /\ out.mo = ctrl.mo
<1>1. ctrl \in CtrlType
  BY DEF TypeInv, TypeOK, ControlTypeOK
<1>. QED BY <1>1 DEF out, CtrlType

(* While an access is pending nothing is latched and nothing is requested.  *)
LEMMA PendingQuiet ==
  ASSUME Handshake, bus.pend PROVE ~out.rd /\ ~out.wr /\ ~out.mo
<1>1. CASE ex = "VECTOR_WAIT" /\ v.state \in WaitStates
  BY <1>1, OutFlags DEF Handshake, Requests, Pending, RequestStates, WaitStates
<1>2. CASE ex = "MEM_WAIT" /\ ~ctrl.rd
  BY <1>2, OutFlags DEF Handshake, EngineRuns, Requests
<1>3. CASE ex \in TrapStates /\ exc # {}
  <2>1. ~switch
    BY <1>3 DEF Handshake, EngineRuns, TrapStates
  <2>. QED BY <1>3, <2>1, OutFlags DEF Handshake, Requests, TrapStates
<1>. QED BY <1>1, <1>2, <1>3 DEF Handshake, Pending

(* Who makes a request, and that it finds the bus idle.                     *)
LEMMA RequestFacts ==
  ASSUME Handshake, out.rd \/ out.wr
  PROVE  /\ ~bus.pend /\ slave = "idle" /\ exc = {} /\ ~out.mo
         /\ \/ ex = "VECTOR_WAIT" /\ v.state \in RequestStates
            \/ ex = "MEM_WAIT" /\ ctrl.rd
         /\ ir.op \in {"vload", "vstore", "lw"} /\ (out.wr <=> ir.op = "vstore")
         /\ ir_last = ir
<1>1. ~bus.pend
  BY PendingQuiet
<1>2. slave = "idle" /\ exc = {}
  BY <1>1 DEF Handshake, Pending
<1>3. CASE switch
  BY <1>1, <1>2, <1>3, OutFlags DEF Handshake, Requests, EngineRuns
<1>4. CASE ~switch
  BY <1>1, <1>2, <1>4, OutFlags DEF Handshake, Requests, EngineRuns
<1>. QED BY <1>3, <1>4

(* Requests is kept.                                                        *)
LEMMA RequestsStep ==
  ASSUME Handshake, NoStridedFault, NEW answer \in Answers, NEW irq \in BOOLEAN, Cycle(answer, irq)
  PROVE  Requests'
<1>0. TypeInv /\ VectorControl(answer) /\ ExecuteEngine(answer)
  BY DEF Handshake, Cycle
<1>1. ASSUME ctrl_vector'.rd \/ ctrl_vector'.wr
      PROVE  /\ ex' = "VECTOR_WAIT" /\ v'.state \in RequestStates /\ ~ctrl_vector'.mo
             /\ ctrl_vector'.rd => ir'.op = "vload"
             /\ ctrl_vector'.wr => ir'.op = "vstore"
  <2>1. MemAddr \/ MemAddrStrided
    BY <1>0, <1>1, ControlStep, IdleStep, ArithStep, RequestStep, WaitStep, AbortStep,
       LastStoreStep DEF Silent
  <2>2. /\ v'.state \in RequestStates /\ ~ctrl_vector'.mo
        /\ ctrl_vector'.rd => start \in LoadKinds
        /\ ctrl_vector'.wr => start \in StoreKinds
    BY <1>0, <2>1, AddressStep
  <2>3. ex' = "VECTOR_WAIT"
    BY <2>2, RunsStep DEF EngineRuns, RequestStates
  <2>4. ir' = ir
    <3>1. ex # "DISPATCH"
      BY <1>0, <2>3, ExecStep
    <3>. QED BY <1>0, <3>1, ExecStep
  <2>. QED BY <1>0, <2>2, <2>3, <2>4, StartFacts
<1>2. /\ ctrl'.rd => ex' = "MEM_WAIT"
      /\ ~ctrl'.wr
      /\ ctrl'.mo => ex' = "MEM_REQ"
  BY <1>0, ExecStep
<1>3. ex' \in {"MEM_REQ", "MEM_WAIT"} => ir'.op = "lw"
  <2>. SUFFICES ASSUME ex' \in {"MEM_REQ", "MEM_WAIT"} PROVE ir'.op = "lw"
    OBVIOUS
  <2>1. ex \in {"MEM_REQ", "MEM_WAIT"} \/ (ex = "EXECUTE" /\ ir.op = "lw")
    BY <1>0, ExecStep DEF TypeInv, TypeOK, ControlTypeOK, ExecStates
  <2>2. ir' = ir
    BY <1>0, <2>1, ExecStep
  <2>. QED BY <2>1, <2>2 DEF Handshake, Requests
<1>. QED BY <1>1, <1>2, <1>3 DEF Requests

(* Pending is kept.                                                         *)
LEMMA PendingStep ==
  ASSUME Handshake, NoStridedFault, NEW answer \in Answers, NEW irq \in BOOLEAN, Cycle(answer, irq)
  PROVE  Pending'
<1>0. /\ TypeInv /\ VectorControl(answer) /\ ExecuteEngine(answer) /\ BusUnit(answer)
      /\ MayAnswer(answer) /\ TrapFlags(irq)
  BY DEF Handshake, Cycle
<1>. DEFINE flags == IF ex = "TRAP_START" THEN {}
                     ELSE exc \union {f \in AccessFaults \union AlignFaults :
                       /\ bus.pend
                       /\ f \in (IF bus.rw THEN {"saccess", "salign"} ELSE {"laccess", "lalign"})
                       /\ IF f \in AccessFaults THEN bus.err ELSE bus.mis}
<1>1. exc' = flags
  BY <1>0 DEF TrapFlags
<1>2. /\ bus'.pend = IF bus.pend THEN answer # "ack" /\ ex # "TRAP_START" ELSE out.rd \/ out.wr
      /\ bus'.rw = (IF bus.pend THEN bus.rw ELSE out.wr)
      /\ bus'.err = (bus.pend /\ (bus.err \/ answer = "err"))
      /\ ~out.mo => bus'.mis = bus.mis
  BY <1>0 DEF BusUnit
<1>3. CASE bus.pend
  <2>1. ~out.rd /\ ~out.wr /\ ~out.mo
    BY <1>3, PendingQuiet
  <2>2. slave' = IF answer = "none" THEN slave ELSE "idle"
    BY <1>0, <2>1 DEF BusUnit
  <2>3. /\ slave # "idle" => ~bus.err /\ ~bus.mis /\ exc = {}
        /\ slave = "idle" => answer = "none"
    BY <1>0, <1>3 DEF Handshake, Pending, MayAnswer
  <2>4. ir_last' = ir_last
    <3>1. ex # "EXECUTE"
      BY <1>3 DEF Handshake, Pending, TrapStates
    <3>. QED BY <1>0, <3>1, ExecStep
  <2>5. slave' # "idle" => bus'.pend /\ ~bus'.err /\ ~bus'.mis
    <3>1. slave # "idle" => ex # "TRAP_START"
      BY <1>3, <2>3 DEF Handshake, Pending
    <3>. QED BY <1>2, <1>3, <2>1, <2>2, <2>3, <3>1
  <2>6. exc' # {} => bus'.pend /\ slave' = "idle"
    <3>. SUFFICES ASSUME exc' # {} PROVE bus'.pend /\ slave' = "idle"
      OBVIOUS
    <3>1. ex # "TRAP_START" /\ (exc # {} \/ bus.err \/ bus.mis)
      BY <1>1
    <3>2. slave = "idle"
      BY <2>3, <3>1
    <3>. QED BY <1>2, <1>3, <2>2, <2>3, <3>1, <3>2
  <2>7. exc' \subseteq FaultsOf(ir_last')
    <3>1. exc \subseteq FaultsOf(ir_last) /\ bus.rw = (ir_last.op = "vstore")
      BY <1>3 DEF Handshake, Pending
    <3>. QED BY <1>1, <2>4, <3>1 DEF FaultsOf
  <2>8. ASSUME bus'.pend
        PROVE  /\ \/ ex' = "VECTOR_WAIT" /\ v'.state \in WaitStates
                  \/ ex' = "MEM_WAIT" /\ ~ctrl'.rd
                  \/ ex' \in TrapStates /\ exc' # {}
               /\ switch' => ~ctrl_vector'.mo
    <3>1. answer # "ack" /\ ex # "TRAP_START" /\ exc \subseteq exc'
      BY <1>1, <1>2, <1>3, <2>8
    <3>2. ex' # "VECTOR_WAIT" => ~switch'
      BY <2>8, RunsStep DEF EngineRuns
    <3>3. CASE ex = "VECTOR_WAIT" /\ v.state \in WaitStates
      <4>1. ~finished /\ IsMem(ir)
        BY <3>3 DEF Handshake, EngineRuns, WaitStates, MemStates
      <4>2. CASE AccessError
        <5>1. ex' = "DISPATCH"
          BY <1>0, <3>3, <4>1, <4>2, ExecStep
        <5>2. exc # {}
          BY <4>2 DEF AccessError
        <5>. QED BY <3>1, <3>2, <5>1, <5>2 DEF TrapStates
      <4>3. CASE ~AccessError
        <5>1. ex' = "VECTOR_WAIT"
          BY <1>0, <3>3, <4>1, <4>3, ExecStep
        <5>2. MemWaitUnit(answer) \/ MemWaitStrided(answer)
          BY <1>0, <3>3 DEF WaitStates, VectorControl, Idle, VectorCsr, VMul, VAlu, VMac, MemAddr,
             MemReqUnit, MemLastStore, MemAddrStrided, MemReqStrided
        <5>3. v'.state = v.state /\ ~ctrl_vector'.mo
          BY <1>0, <3>1, <4>3, <5>2, WaitStep
        <5>. QED BY <3>3, <5>1, <5>3
      <4>. QED BY <4>2, <4>3
    <3>4. CASE ex = "MEM_WAIT" /\ ~ctrl.rd
      <4>1. ~ctrl'.rd
        BY <1>0, <3>4, ExecStep
      <4>2. ex' = IF exc # {} THEN "DISPATCH" ELSE "MEM_WAIT"
        BY <1>0, <3>1, <3>4, ExecStep
      <4>. QED BY <3>1, <3>2, <4>1, <4>2 DEF TrapStates
    <3>5. CASE ex \in TrapStates /\ exc # {}
      <4>1. ex' \in TrapStates
        BY <1>0, <3>1, <3>5, ExecStep DEF TrapStates
      <4>. QED BY <3>1, <3>2, <3>5, <4>1 DEF TrapStates
    <3>. QED BY <1>3, <3>3, <3>4, <3>5 DEF Handshake, Pending
  <2>9. ir_last'.op \in {"vload", "vstore", "lw"} /\ bus'.rw = (ir_last'.op = "vstore")
    BY <1>2, <1>3, <2>4 DEF Handshake, Pending
  <2>. QED BY <2>5, <2>6, <2>7, <2>8, <2>9 DEF Pending
<1>4. CASE ~bus.pend
  <2>1. slave = "idle" /\ exc = {} /\ answer = "none"
    BY <1>0, <1>4 DEF Handshake, Pending, MayAnswer
  <2>2. exc' = {}
    BY <1>1, <1>4, <2>1
  <2>3. CASE ~out.rd /\ ~out.wr
    <3>1. slave' = "idle" /\ ~bus'.pend
      BY <1>0, <1>2, <1>4, <2>1, <2>3 DEF BusUnit
    <3>. QED BY <2>2, <3>1 DEF Pending
  <2>4. CASE out.rd \/ out.wr
    <3>1. /\ ~out.mo
          /\ \/ ex = "VECTOR_WAIT" /\ v.state \in RequestStates
             \/ ex = "MEM_WAIT" /\ ctrl.rd
          /\ ir_last.op \in {"vload", "vstore", "lw"} /\ (out.wr <=> ir_last.op = "vstore")
      BY <2>4, RequestFacts DEF Handshake
    <3>2. bus'.pend /\ bus'.rw = out.wr /\ ~bus'.err /\ bus'.mis = bus.mis
      BY <1>2, <1>4, <2>4, <3>1
    <3>3. slave' # "idle" => ~bus'.mis
      BY <1>0, <2>1, <3>2 DEF BusUnit
    <3>4. ir_last' = ir_last
      BY <1>0, <3>1, ExecStep
    <3>a. bus'.rw = (ir_last'.op = "vstore")
      BY <1>0, <3>1, <3>2, <3>4, OutType
    <3>5. CASE ex = "VECTOR_WAIT" /\ v.state \in RequestStates
      <4>1. ~AccessError
        BY <2>1 DEF AccessError
      <4>2. MemReqUnit \/ MemReqStrided
        BY <1>0, <3>5 DEF RequestStates, VectorControl, Idle, VectorCsr, VMul, VAlu, VMac, MemAddr,
           MemWaitUnit, MemLastStore, MemAddrStrided, MemWaitStrided
      <4>3. v'.state \in WaitStates /\ ~ctrl_vector'.mo
        BY <1>0, <4>1, <4>2, RequestStep
      <4>4. ex' = "VECTOR_WAIT"
        BY <4>3, RunsStep DEF EngineRuns, WaitStates
      <4>. QED BY <2>2, <3>1, <3>2, <3>3, <3>4, <3>a, <4>3, <4>4 DEF Pending
    <3>6. CASE ex = "MEM_WAIT" /\ ctrl.rd
      <4>1. ex' = "MEM_WAIT" /\ ~ctrl'.rd
        BY <1>0, <2>1, <3>6, ExecStep
      <4>2. ~switch'
        BY <4>1, RunsStep DEF EngineRuns
      <4>. QED BY <2>2, <3>1, <3>2, <3>3, <3>4, <3>a, <4>1, <4>2 DEF Pending
    <3>. QED BY <3>1, <3>5, <3>6
  <2>. QED BY <2>3, <2>4
<1>. QED BY <1>3, <1>4

(* The handshake holds after reset.                                         *)
LEMMA InitHandshake == Init => Handshake
<1>. SUFFICES ASSUME Init PROVE Handshake
  OBVIOUS
<1>1. TypeInv
  BY InitType
<1>2. EngineRuns /\ Requests /\ Pending
  BY DEF Init, EngineRuns, Requests, Pending, NoCtrl, MemStates, AddressStates, RequestStates,
     WaitStates
<1>. QED BY <1>1, <1>2 DEF Handshake

(* The handshake is inductive while no bus error hits a strided access.     *)
LEMMA StepHandshake == Handshake /\ NoStridedFault /\ [Next]_vars => Handshake'
<1>. SUFFICES ASSUME Handshake, NoStridedFault, [Next]_vars PROVE Handshake'
  OBVIOUS
<1>0. TypeInv'
  BY StepType DEF Handshake
<1>1. CASE Next
  <2>1. PICK answer \in Answers, irq \in BOOLEAN : Cycle(answer, irq)
    BY <1>1 DEF Next
  <2>. QED BY <1>0, <2>1, RunsStep, RequestsStep, PendingStep DEF Handshake
<1>2. CASE UNCHANGED vars
  BY <1>0, <1>2 DEF vars, execVars, trapVars, vectorVars, busVars, dataVars, Handshake,
     EngineRuns, Requests, Pending, IsMem, FaultsOf
<1>. QED BY <1>1, <1>2

(* What the handshake is for.                                               *)
LEMMA HandshakeImplies == Handshake => Released /\ OneOutstanding
<1>. SUFFICES ASSUME Handshake PROVE Released /\ OneOutstanding
  OBVIOUS
<1>1. Released
  BY DEF Handshake, EngineRuns, Released
<1>2. OneOutstanding
  BY RequestFacts DEF OneOutstanding
<1>. QED BY <1>1, <1>2

(* A pending access keeps its address, data and width.                      *)
LEMMA HandshakeStable ==
  Handshake /\ [Next]_vars =>
    [slave # "idle" /\ slave' # "idle" =>
       bus'.mar = bus.mar /\ bus'.wdata = bus.wdata /\ bus'.size = bus.size]_vars
<1>. SUFFICES ASSUME Handshake, Next, slave # "idle"
              PROVE  bus'.mar = bus.mar /\ bus'.wdata = bus.wdata /\ bus'.size = bus.size
  BY DEF vars
<1>1. ~out.mo
  BY PendingQuiet DEF Handshake, Pending
<1>2. PICK answer \in Answers, irq \in BOOLEAN : Cycle(answer, irq)
  BY DEF Next
<1>. QED BY <1>1, <1>2 DEF Cycle, BusUnit

-----------------------------------------------------------------------------
(* After a bus error in a strided access.  The execute engine goes on to    *)
(* the trap handler, the vector engine stays in S_MEM_WAIT_STRIDED with the *)
(* control bus in its hand, and what it drives there requests nothing: the  *)
(* hand-over is lost, but nothing else is.                                  *)

Stuck ==
  /\ v.state = "S_MEM_WAIT_STRIDED" /\ switch /\ ~finished
  /\ ~ctrl_vector.rd /\ ~ctrl_vector.wr /\ ~ctrl_vector.mo
  /\ slave = "idle"
  /\ exc # {} => bus.pend
  /\ bus.pend =>
       /\ ex \in TrapStates /\ exc # {}
       /\ ir_last.op \in {"vload", "vstore", "lw"} /\ bus.rw = (ir_last.op = "vstore")
  /\ exc \subseteq FaultsOf(ir_last)

(* The address register points at the word that answered with the error.    *)
FaultAt == bus.err \/ AccessError => Faulty(bus.mar)

(* Every reachable state is one of the handshake or one after its loss.     *)
Guarded == TypeInv /\ FaultAt /\ (Handshake \/ Stuck)

(* An answer is all that leaves S_MEM_WAIT_STRIDED, and none comes while no *)
(* access is open.                                                          *)
LEMMA UnansweredStep ==
  ASSUME TypeInv, v.state = "S_MEM_WAIT_STRIDED", slave = "idle",
         NEW answer \in Answers, NEW irq \in BOOLEAN, Cycle(answer, irq)
  PROVE  /\ answer = "none" /\ v' = v /\ switch' /\ ~finished'
         /\ ~ctrl_vector'.rd /\ ~ctrl_vector'.wr /\ ~ctrl_vector'.mo
<1>1. answer = "none"
  BY DEF Cycle, MayAnswer
<1>2. MemWaitStrided(answer)
  BY DEF Cycle, VectorControl, Idle, VectorCsr, VMul, VAlu, VMac, MemAddr, MemReqUnit,
     MemWaitUnit, MemLastStore, MemAddrStrided, MemReqStrided
<1>3. v' = v /\ ctrl_vector' = [StridedAcc EXCEPT !.mux = "mem"] /\ switch' /\ ~finished'
  BY <1>1, <1>2 DEF MemWaitStrided, NextCtrl, Hold
<1>. QED BY <1>1, <1>3 DEF StridedAcc, Strided, NoCtrl

(* The cycle in which the exception buffer shows the error: the execute     *)
(* engine leaves, the vector engine does not.                               *)
LEMMA FaultSticks ==
  ASSUME Handshake, ~NoStridedFault, NEW answer \in Answers, NEW irq \in BOOLEAN,
         Cycle(answer, irq)
  PROVE  Stuck'
<1>0. /\ TypeInv /\ ExecuteEngine(answer) /\ BusUnit(answer) /\ TrapFlags(irq)
  BY DEF Handshake, Cycle
<1>1. v.state = "S_MEM_WAIT_STRIDED" /\ AccessError /\ exc # {}
  BY DEF NoStridedFault, AccessError
<1>2. ex = "VECTOR_WAIT" /\ ~finished /\ IsMem(ir)
  BY <1>1 DEF Handshake, EngineRuns, MemStates, WaitStates
<1>3. bus.pend /\ slave = "idle" /\ ~out.rd /\ ~out.wr /\ ~out.mo
  BY <1>1, PendingQuiet DEF Handshake, Pending
<1>4. /\ answer = "none" /\ v' = v /\ switch' /\ ~finished'
      /\ ~ctrl_vector'.rd /\ ~ctrl_vector'.wr /\ ~ctrl_vector'.mo
  BY <1>0, <1>1, <1>3, UnansweredStep
<1>5. ex' = "DISPATCH" /\ ir_last' = ir_last
  BY <1>0, <1>1, <1>2, ExecStep
<1>6. bus'.pend /\ bus'.rw = bus.rw /\ slave' = "idle"
  BY <1>0, <1>2, <1>3, <1>4 DEF BusUnit
<1>7. exc \subseteq FaultsOf(ir_last) /\ ir_last.op \in {"vload", "vstore", "lw"}
      /\ bus.rw = (ir_last.op = "vstore")
  BY <1>3 DEF Handshake, Pending
<1>8. exc \subseteq exc' /\ exc' \subseteq FaultsOf(ir_last)
  BY <1>0, <1>2, <1>3, <1>7 DEF TrapFlags, FaultsOf
<1>. QED BY <1>1, <1>4, <1>5, <1>6, <1>7, <1>8 DEF Stuck, TrapStates

(* Nothing brings it back: not the trap, and no later instruction.          *)
LEMMA StuckStep ==
  ASSUME TypeInv, Stuck, [Next]_vars PROVE Stuck'
<1>1. CASE Next
  <2>1. PICK answer \in Answers, irq \in BOOLEAN : Cycle(answer, irq)
    BY <1>1 DEF Next
  <2>2. /\ ExecuteEngine(answer) /\ BusUnit(answer) /\ TrapFlags(irq)
    BY <2>1 DEF Cycle
  <2>3. /\ answer = "none" /\ v' = v /\ switch' /\ ~finished'
        /\ ~ctrl_vector'.rd /\ ~ctrl_vector'.wr /\ ~ctrl_vector'.mo
    BY <2>1, UnansweredStep DEF Stuck
  <2>4. ~out.rd /\ ~out.wr /\ ~out.mo
    BY OutFlags DEF Stuck
  <2>5. slave' = "idle" /\ bus'.rw = (IF bus.pend THEN bus.rw ELSE out.wr)
        /\ bus'.pend = (bus.pend /\ ex # "TRAP_START")
    BY <2>2, <2>3, <2>4 DEF BusUnit, Stuck
  <2>6. CASE bus.pend /\ ex # "TRAP_START"
    <3>1. ex \in TrapStates /\ exc # {} /\ exc \subseteq FaultsOf(ir_last)
          /\ ir_last.op \in {"vload", "vstore", "lw"} /\ bus.rw = (ir_last.op = "vstore")
      BY <2>6 DEF Stuck
    <3>2. ir_last' = ir_last /\ ex' \in TrapStates
      BY <2>2, <2>6, <3>1, ExecStep DEF TrapStates
    <3>3. exc \subseteq exc' /\ exc' \subseteq FaultsOf(ir_last)
      BY <2>2, <2>6, <3>1 DEF TrapFlags, FaultsOf
    <3>. QED BY <2>3, <2>5, <2>6, <3>1, <3>2, <3>3 DEF Stuck
  <2>7. CASE ~bus.pend \/ ex = "TRAP_START"
    <3>1. exc' = {}
      BY <2>2, <2>7 DEF TrapFlags, Stuck
    <3>. QED BY <2>3, <2>5, <2>7, <3>1 DEF Stuck
  <2>. QED BY <2>6, <2>7
<1>2. CASE UNCHANGED vars
  BY <1>2 DEF vars, execVars, trapVars, vectorVars, busVars, Stuck, FaultsOf
<1>. QED BY <1>1, <1>2

(* The address stays until the trap has saved it.                           *)
LEMMA FaultAtStep ==
  ASSUME FaultAt, bus.pend => ~out.mo, exc # {} => bus.pend,
         NEW answer \in Answers, NEW irq \in BOOLEAN, Cycle(answer, irq)
  PROVE  FaultAt'
<1>1. CASE bus.pend
  <2>1. bus'.mar = bus.mar /\ bus'.err = (bus.err \/ answer = "err")
    BY <1>1 DEF Cycle, BusUnit
  <2>2. answer = "err" => Faulty(bus.mar)
    BY DEF Cycle, MayAnswer
  <2>3. AccessError' => AccessError \/ bus.err
    BY DEF Cycle, TrapFlags, AccessError, AccessFaults, AlignFaults
  <2>. QED BY <2>1, <2>2, <2>3 DEF FaultAt
<1>2. CASE ~bus.pend
  <2>1. ~bus'.err /\ exc' = {}
    BY <1>2 DEF Cycle, BusUnit, TrapFlags
  <2>. QED BY <2>1 DEF FaultAt, AccessError
<1>. QED BY <1>1, <1>2

(* Guarded is inductive, whatever the program and the memory are.           *)
LEMMA InitGuarded == Init => Guarded
BY InitHandshake DEF Guarded, Handshake, FaultAt, AccessError, Init

LEMMA StepGuarded == Guarded /\ [Next]_vars => Guarded'
<1>. SUFFICES ASSUME Guarded, [Next]_vars PROVE Guarded'
  OBVIOUS
<1>0. TypeInv'
  BY StepType DEF Guarded
<1>1. TypeInv' /\ FaultAt'
  <2>1. CASE Next
    <3>1. PICK answer \in Answers, irq \in BOOLEAN : Cycle(answer, irq)
      BY <2>1 DEF Next
    <3>2. (bus.pend => ~out.mo) /\ (exc # {} => bus.pend)
      <4>1. CASE Handshake
        BY <4>1, PendingQuiet DEF Handshake, Pending
      <4>2. CASE Stuck
        BY <4>2, OutFlags DEF Guarded, Stuck
      <4>. QED BY <4>1, <4>2 DEF Guarded
    <3>. QED BY <1>0, <3>1, <3>2, FaultAtStep DEF Guarded
  <2>2. CASE UNCHANGED vars
    BY <1>0, <2>2 DEF vars, trapVars, busVars, Guarded, FaultAt, AccessError
  <2>. QED BY <2>1, <2>2
<1>2. CASE Stuck
  BY <1>1, <1>2, StuckStep DEF Guarded
<1>3. CASE Handshake /\ NoStridedFault
  BY <1>1, <1>3, StepHandshake DEF Guarded
<1>4. CASE Handshake /\ ~NoStridedFault
  <2>1. CASE Next
    <3>1. PICK answer \in Answers, irq \in BOOLEAN : Cycle(answer, irq)
      BY <2>1 DEF Next
    <3>. QED BY <1>1, <1>4, <3>1, FaultSticks DEF Guarded
  <2>2. CASE UNCHANGED vars
    BY <1>1, <1>4, <2>2 DEF vars, execVars, trapVars, vectorVars, busVars, dataVars, Guarded,
       Handshake, EngineRuns, Requests, Pending, IsMem, FaultsOf
  <2>. QED BY <2>1, <2>2
<1>. QED BY <1>2, <1>3, <1>4 DEF Guarded

(* What holds also after the loss.                                          *)
LEMMA GuardedImplies == Guarded => OneOutstanding /\ FaultPrecise
<1>. SUFFICES ASSUME Guarded PROVE OneOutstanding /\ FaultPrecise
  OBVIOUS
<1>1. CASE Handshake
  <2>1. FaultPrecise
    BY <1>1 DEF Guarded, FaultAt, Handshake, Pending, FaultPrecise, FaultsOf, TrapStates
  <2>. QED BY <1>1, <2>1, HandshakeImplies
<1>2. CASE Stuck
  <2>1. OneOutstanding
    BY <1>2, OutFlags DEF Guarded, Stuck, OneOutstanding
  <2>2. FaultPrecise
    BY <1>2 DEF Guarded, FaultAt, Stuck, FaultPrecise, FaultsOf, TrapStates
  <2>. QED BY <2>1, <2>2
<1>. QED BY <1>1, <1>2 DEF Guarded

(* Only one access is under way at a time, and an answer belongs to the     *)
(* last request: for every program, every memory map, and also after a bus  *)
(* error has cut off a strided access.                                      *)
THEOREM OneOutstandingCorrect == Spec => []OneOutstanding
BY InitGuarded, StepGuarded, GuardedImplies, PTL DEF Spec

(* A data-access flag is up only while i_reg_last still holds the           *)
(* instruction that caused it and the address register the word that        *)
(* failed, which the trap saves as mtval; its kind is the kind of that      *)
(* access: for every program, every memory map, and whatever i_reg shows    *)
(* while it is not executed.                                                *)
THEOREM FaultPreciseCorrect == Spec => []FaultPrecise
BY InitGuarded, StepGuarded, GuardedImplies, PTL DEF Spec

(* An access keeps its address, data and width until it is answered, for    *)
(* every program and every memory map.                                      *)
THEOREM BusStableCorrect == Spec => BusStable
<1>1. Init => Guarded
  BY InitGuarded
<1>2. Guarded /\ [Next]_vars =>
        [slave # "idle" /\ slave' # "idle" =>
           bus'.mar = bus.mar /\ bus'.wdata = bus.wdata /\ bus'.size = bus.size]_vars
  BY HandshakeStable DEF Guarded, Stuck
<1>. QED BY <1>1, <1>2, StepGuarded, PTL DEF Spec, BusStable

(* As long as no bus error reaches a strided access, the vector engine      *)
(* gives the control bus back after every operation.                        *)
THEOREM HandshakeCorrect == Spec /\ []NoStridedFault => []Released
  BY InitHandshake, StepHandshake, HandshakeImplies, PTL DEF Spec

(* What a bus error in a strided access leads to, in every system: from the *)
(* cycle that flags it on the vector engine never leaves its wait, and no   *)
(* request is put on the bus any more, by the trap handler or by any later  *)
(* instruction.                                                             *)
Silenced == v.state = "S_MEM_WAIT_STRIDED" /\ ~out.rd /\ ~out.wr
THEOREM StridedFaultSilences == Spec => [](~NoStridedFault => []Silenced)
<1>. DEFINE Lost == Guarded /\ (Stuck \/ ~NoStridedFault)
<1>1. Init => Guarded
  BY InitGuarded
<1>2. Lost /\ [Next]_vars => Lost'
  <2>. SUFFICES ASSUME Lost, [Next]_vars PROVE Lost'
    OBVIOUS
  <2>1. Guarded'
    BY StepGuarded
  <2>2. CASE Stuck
    BY <2>1, <2>2, StuckStep DEF Guarded
  <2>3. CASE Handshake /\ ~NoStridedFault /\ Next
    <3>1. PICK answer \in Answers, irq \in BOOLEAN : Cycle(answer, irq)
      BY <2>3 DEF Next
    <3>. QED BY <2>1, <2>3, <3>1, FaultSticks
  <2>4. CASE ~NoStridedFault /\ UNCHANGED vars
    BY <2>1, <2>4 DEF vars, trapVars, vectorVars, NoStridedFault, AccessError
  <2>. QED BY <2>2, <2>3, <2>4 DEF Guarded
<1>3. Lost => Silenced
  <2>. SUFFICES ASSUME Lost PROVE Silenced
    OBVIOUS
  <2>1. CASE Stuck
    BY <2>1, OutFlags DEF Guarded, Stuck, Silenced
  <2>2. CASE Handshake /\ ~NoStridedFault
    <3>1. v.state = "S_MEM_WAIT_STRIDED" /\ exc # {}
      BY <2>2 DEF NoStridedFault, AccessError
    <3>2. bus.pend
      BY <2>2, <3>1 DEF Handshake, Pending
    <3>. QED BY <2>2, <3>1, <3>2, PendingQuiet DEF Silenced
  <2>. QED BY <2>1, <2>2 DEF Guarded
<1>4. Guarded /\ ~NoStridedFault => Lost
  OBVIOUS
<1>. HIDE DEF Lost
<1>. QED BY <1>1, <1>2, <1>3, <1>4, StepGuarded, PTL DEF Spec

-----------------------------------------------------------------------------
(* Systems in which no bus error reaches a strided access, whatever happens:*)
(* programs without strided accesses, and memories without faulty words.    *)

StridedStates == {"S_MEM_ADDR_STRIDED", "S_MEM_REQ_STRIDED", "S_MEM_WAIT_STRIDED"}
UnitPrograms == \A i \in Instrs : i.mode = "unit"
NoFaultyWords == FaultWords = {}

UnitInv == TypeInv /\ (Active => ir \in Instrs) /\ v.state \notin StridedStates
ErrorFree == ~bus.err /\ ~AccessError

(* Unit-stride instructions never lead to a strided state.                  *)
LEMMA UnitStates ==
  ASSUME TypeInv, v.state \notin StridedStates, Active => ir.mode = "unit",
         NEW answer \in Answers, VectorControl(answer)
  PROVE  v'.state \notin StridedStates
<1>. USE DEF StridedStates
<1>0. v \in VectorType
  BY TypeFacts DEF VectorTypes
<1>1. CASE Idle
  <2>1. start \notin {"load_strided", "store_strided"}
    BY DEF start, Kind, Active
  <2>2. ~StartStrided
    BY <2>1 DEF StartStrided
  <2>3. CASE IdleStay \/ StartCsr
    BY <1>0, <1>1, <2>3 DEF Idle, IdleStay, StartCsr, VectorType
  <2>4. CASE StartMem
    BY <2>4 DEF StartMem, Latch
  <2>5. CASE StartAdd
    BY <2>5 DEF StartAdd, Latch
  <2>6. CASE StartMac
    BY <2>6 DEF StartMac, Latch
  <2>7. CASE StartMul
    BY <2>7 DEF StartMul, Latch
  <2>. QED BY <1>1, <2>2, <2>3, <2>4, <2>5, <2>6, <2>7 DEF Idle
<1>2. CASE VectorCsr \/ VMul \/ VAlu \/ VMac
  BY <1>2, ArithStep
<1>3. CASE MemAddr
  BY <1>0, <1>3 DEF MemAddr, VectorType
<1>4. CASE MemReqUnit
  <2>1. v'.state \in {"S_IDLE", "S_MEM_WAIT"}
    BY <1>0, <1>4 DEF MemReqUnit, VectorType
  <2>. QED BY <2>1
<1>5. CASE MemWaitUnit(answer)
  <2>1. CASE AccessError
    BY <1>5, <2>1, AbortStep
  <2>2. CASE ~AccessError
    <3>1. v'.state \in {"S_MEM_WAIT", "S_IDLE", "S_MEM_ADDR", "S_MEM_LAST_STORE"}
      BY <1>0, <1>5, <2>2 DEF MemWaitUnit, VectorType
    <3>. QED BY <3>1
  <2>. QED BY <2>1, <2>2
<1>6. CASE MemLastStore
  BY <1>6, LastStoreStep
<1>7. ~(MemAddrStrided \/ MemReqStrided \/ MemWaitStrided(answer))
  BY DEF MemAddrStrided, MemReqStrided, MemWaitStrided
<1>. QED BY <1>1, <1>2, <1>3, <1>4, <1>5, <1>6, <1>7 DEF VectorControl

(* A program of unit-stride instructions stays out of the strided states.   *)
LEMMA UnitStep ==
  ASSUME UnitPrograms, UnitInv, [Next]_vars PROVE UnitInv'
<1>0. TypeInv'
  BY StepType DEF UnitInv
<1>1. CASE Next
  <2>1. PICK answer \in Answers, irq \in BOOLEAN : Cycle(answer, irq)
    BY <1>1 DEF Next
  <2>2. v'.state \notin StridedStates
    BY <2>1, UnitStates DEF Cycle, UnitInv, UnitPrograms
  <2>3. Active' => ir' \in Instrs
    BY <2>1 DEF Cycle, ExecuteEngine, Go, Keep, DispatchWait, DispatchTrap, Dispatch, Execute,
       VectorWait, MemReq, MemWait, TrapEnter, TrapStart, TrapExecute, Branched, UnitInv, Active
  <2>. QED BY <1>0, <2>2, <2>3 DEF UnitInv
<1>2. CASE UNCHANGED vars
  BY <1>0, <1>2 DEF vars, execVars, vectorVars, UnitInv, Active
<1>. QED BY <1>1, <1>2

(* Without faulty words no access error is ever flagged.                    *)
LEMMA ErrorFreeStep ==
  ASSUME NoFaultyWords, ErrorFree, [Next]_vars PROVE ErrorFree'
<1>1. CASE Next
  <2>1. PICK answer \in Answers, irq \in BOOLEAN : Cycle(answer, irq)
    BY <1>1 DEF Next
  <2>2. answer # "err"
    BY <2>1 DEF Cycle, MayAnswer, Faulty, NoFaultyWords
  <2>3. ~bus'.err
    BY <2>1, <2>2 DEF Cycle, BusUnit, ErrorFree
  <2>4. ~AccessError'
    BY <2>1 DEF Cycle, TrapFlags, ErrorFree, AccessError, AccessFaults, AlignFaults
  <2>. QED BY <2>3, <2>4 DEF ErrorFree
<1>2. CASE UNCHANGED vars
  BY <1>2 DEF vars, trapVars, busVars, ErrorFree, AccessError
<1>. QED BY <1>1, <1>2

(* Programs without strided accesses, and memories in which every word      *)
(* answers, need no condition: the vector engine always gives the control   *)
(* bus back.                                                                *)
THEOREM ReleasedCorrect ==
  ASSUME UnitPrograms \/ NoFaultyWords
  PROVE  Spec => []Released
<1>1. CASE UnitPrograms
  <2>1. Init => UnitInv
    BY InitType DEF Init, UnitInv, StridedStates, Active
  <2>2. UnitInv /\ [Next]_vars => UnitInv'
    BY <1>1, UnitStep
  <2>3. UnitInv => NoStridedFault
    BY DEF UnitInv, NoStridedFault, StridedStates
  <2>. QED BY <2>1, <2>2, <2>3, HandshakeCorrect, PTL DEF Spec
<1>2. CASE NoFaultyWords
  <2>1. Init => ErrorFree
    BY DEF Init, ErrorFree, AccessError
  <2>2. ErrorFree /\ [Next]_vars => ErrorFree'
    BY <1>2, ErrorFreeStep
  <2>3. ErrorFree => NoStridedFault
    BY DEF ErrorFree, NoStridedFault
  <2>. QED BY <2>1, <2>2, <2>3, HandshakeCorrect, PTL DEF Spec
<1>. QED BY <1>1, <1>2

-----------------------------------------------------------------------------
(***************************************************************************)
(* The data: what a program has to keep to, the state of every operation in *)
(* every cycle, and the refinement of VectorIsa.                            *)
(***************************************************************************)

(* A word that an address can be computed from.                             *)
Pointer(w) == w[1] = "int"

(* The word w holds the integer a, as a register that the program uses as a *)
(* pointer or as a stride does.                                             *)
Points(w, a) == w[1] = "int" /\ w[2] = a

(* The register that holds the stride: rs2 of a load, rd of a store.        *)
StrideReg(i) == IF i.op = "vload" THEN i.rs2 ELSE i.rd

(* The destination registers do not wrap around onto one another, and x0 is *)
(* none of them (the engine writes v.rd also when it is 0 with vector_we).  *)
Separate(i, n) == DestCount(i, n) <= NumRegs /\ 0 \notin Dest(i, n)

(* A source of element j is no destination of an element before j - 1. An   *)
(* addition reads one element ahead of its writes and would take a result   *)
(* for a source; a multiplication reads two ahead and would bear one more.  *)
Behind(i, n) ==
  \A j \in 0 .. n - 1, m \in 0 .. n - 1 :
    m + 2 <= j => Reg(i.rd, m) \notin {Reg(i.rs1, j), Reg(i.rs2, j)}

(* Unit-stride accesses run in words. A byte load may start at any byte,    *)
(* but counts up to a word beyond its last element with a counter of seven  *)
(* bits: beyond 124 it may wrap, and the load never ends. Every other       *)
(* access starts at a word; elsewhere it moves the wrong bytes.             *)
UnitProper(i, R, n) ==
  IF i.op = "vload" /\ i.size = "8" THEN n <= 124
  ELSE Base(i, R) % 4 = 0

(* A strided access needs an integer stride, elements that are aligned (the *)
(* engine waits for ever for one that is not), and a stride register that   *)
(* the load does not overwrite: the engine reads it again for every         *)
(* element.                                                                 *)
StridedProper(i, R, n) ==
  /\ Pointer(R[StrideReg(i)])
  /\ \A k \in 0 .. n - 1 : ~Misaligned(ElemAddr(i, R, k), i.size)
  /\ StrideReg(i) \notin Dest(i, n)

(* What a program has to keep to so that an instruction i, issued with the  *)
(* registers R and the vector length n, does what the instruction set       *)
(* promises. A length of 0 still moves one element, since the engine        *)
(* compares after it, and a vector load of half-words collects them as if   *)
(* they were words.                                                         *)
Proper(i, R, n) ==
  /\ Separate(i, n)
  /\ i.op \in {"vload", "vstore", "vadd", "vmul"} => n >= 1
  /\ i.op \in {"vadd", "vmul"} => Behind(i, n)
  /\ i.op = "vload" => i.size # "16"
  /\ IsMem(i) => Pointer(R[i.rs1])
  /\ IsMem(i) /\ i.mode = "unit" => UnitProper(i, R, n)
  /\ IsMem(i) /\ i.mode = "strided" => StridedProper(i, R, n)

(* The condition on a behaviour: the instruction in progress keeps to the   *)
(* rules. The instructions of the run MCVectorEngine all do, in every       *)
(* state.                                                                   *)
ProgramProper == Active => Proper(ir, atIssue.rf, atIssue.vl)
-----------------------------------------------------------------------------
(* The byte product that is step k of a dot product.                        *)
Prod(i, R, k) == MulByte(R[Reg(i.rs1, k \div 4)], R[Reg(i.rs2, k \div 4)], k % 4)

(* The sum of the first c products, with the adder of the data path.        *)
SumTo(i, R, n, c) ==
  LET sum[k \in 0 .. n] == IF k = 0 THEN Zero ELSE Add(sum[k - 1], Prod(i, R, k - 1))
  IN  sum[c]

(* The address of byte j of the register m that a load fills.               *)
ByteOf(i, R, m, j) ==
  IF i.size = "8" THEN ElemAddr(i, R, 4 * m + j) ELSE ElemAddr(i, R, m) + j

(* The word w holds, for every element that belongs into register m, its    *)
(* byte of the memory; what is past the last element may be anything.       *)
Brings(i, R, n, w, m) ==
  /\ w[1] = "ld"
  /\ \A j \in 0 .. 3 :
       (i.size = "8" => 4 * m + j < n) =>
          j + 1 \in DOMAIN w[2] /\ w[2][j + 1] = ByteOf(i, R, m, j)

(* The word w is what register m of the destination group is to hold when   *)
(* instruction i is complete.                                               *)
Wanted(i, R, n, w, m) ==
  CASE i.op = "vload" -> Brings(i, R, n, w, m)
    [] i.op = "vadd"  -> w = Add(R[Reg(i.rs1, m)], R[Reg(i.rs2, m)])
    [] i.op = "vmul"  -> w = Mul(R[Reg(i.rs1, m)], R[Reg(i.rs2, m)])
    [] i.op = "vmac"  -> w = SumTo(i, R, n, n)
    [] i.op = "lw"    -> w = Bytes(WordBytes(Base(i, R)))

(* The register file f has k registers of the destination group written as  *)
(* they should be, the rest of the group not yet, and no other register     *)
(* changed.                                                                 *)
Done(i, R, n, f, k) ==
  /\ DOMAIN f = Regs
  /\ \A r \in Regs \ Dest(i, n) : f[r] = R[r]
  /\ \A m \in 0 .. DestCount(i, n) - 1 :
       IF m < k THEN Wanted(i, R, n, f[Reg(i.rd, m)], m)
       ELSE f[Reg(i.rd, m)] = R[Reg(i.rd, m)]

(* The first k stores of a store instruction.                               *)
StoresTo(i, R, k) ==
  [j \in 1 .. k |-> <<ElemAddr(i, R, j - 1), StoreSize(i), R[Reg(i.rs2, j - 1)]>>]

(* A sequence, whatever its elements are.                                   *)
IsList(s) == s \in Seq({s[j] : j \in 1 .. Len(s)})

(* A register file.                                                         *)
IsFile(f) == f = [r \in Regs |-> f[r]]

(* The same for the instruction in progress.                                *)
DoneOf(f, k) == Done(ir, atIssue.rf, atIssue.vl, f, k)

(* The memory has got the first k stores of the instruction in progress,    *)
(* and nothing else since it was issued.                                    *)
Stored(k) == stored = atIssue.stored \o StoresTo(ir, atIssue.rf, k)

(* The address of element k of the instruction in progress.                 *)
Elem(k) == ElemAddr(ir, atIssue.rf, k)

(* What the k-th source register from r on held at issue.                   *)
Src(r, k) == atIssue.rf[Reg(r, k)]

(* The vector length, and with it the number of elements.                   *)
Last == atIssue.vl

(* No register has changed since the instruction was issued.                *)
Untouched == rf = atIssue.rf

(* An addition in the cycle that writes element k: its operands are at the  *)
(* adder and the registers of the next element are being read.              *)
AddingAt(k) ==
  /\ \/ v.state = "S_ALU" /\ v.c1 = k + 2 /\ k + 1 < Last
     \/ v.state = "S_IDLE" /\ k + 1 = Last
  /\ ctrl_vector = [NoCtrl EXCEPT !.vwe = TRUE]
  /\ dp.rs1 = Src(ir.rs1, k) /\ dp.rs2 = Src(ir.rs2, k)
  /\ v.rd = Reg(ir.rd, k) /\ v.rs1 = Reg(ir.rs1, k + 1) /\ v.rs2 = Reg(ir.rs2, k + 1)
  /\ DoneOf(rf, k)

(* Some element is being written.                                           *)
Adding == \E k \in 0 .. Last - 1 : AddingAt(k)

(* A multiplication c cycles after its start. The product takes two cycles, *)
(* so that three elements are on their way: the operands of c, the product  *)
(* of c - 1 in the multiplier, and that of c - 2 at the write port.         *)
(* Register 0 of the group is written twice, first with a product that is   *)
(* not yet one: until then (c = 2) nothing is known of it.                  *)
MultiplyingAt(c) ==
  /\ \/ v.state = "S_MUL" /\ v.c2 = c /\ c <= Last
     \/ v.state = "S_IDLE" /\ c = Last + 1
  /\ ctrl_vector = IF c = 0 THEN [NoCtrl EXCEPT !.trig = TRUE]
                   ELSE [NoCtrl EXCEPT !.alu = "cp", !.vwe = TRUE, !.trig = TRUE,
                                       !.wb = c = Last + 1]
  /\ c < Last => dp.rs1 = Src(ir.rs1, c) /\ dp.rs2 = Src(ir.rs2, c)
  /\ c \in 1 .. Last => dp.dsp = Mul(Src(ir.rs1, c - 1), Src(ir.rs2, c - 1))
  /\ c >= 2 => dp.prod = Mul(Src(ir.rs1, c - 2), Src(ir.rs2, c - 2))
  /\ v.rs1 = Reg(ir.rs1, c + 1) /\ v.rs2 = Reg(ir.rs2, c + 1)
  /\ v.rd = Reg(ir.rd, IF c < 2 THEN 0 ELSE c - 2)
  /\ IF c = 2 THEN DOMAIN rf = Regs /\ \A r \in Regs \ {Reg(ir.rd, 0)} : rf[r] = atIssue.rf[r]
     ELSE DoneOf(rf, IF c < 2 THEN 0 ELSE c - 2)

(* The start, every element, and the cycle that drains the multiplier.      *)
Multiplying == \E c \in 0 .. Last + 1 : MultiplyingAt(c)

(* A dot product c cycles after its start: the same pipeline, with a byte   *)
(* product in each stage and the sum of all earlier ones in the             *)
(* accumulator.                                                             *)
AccumulatingAt(c) ==
  /\ \/ v.state = "S_MAC" /\ v.c2 = c /\ c <= Last
     \/ v.state = "S_IDLE" /\ c = Last + 1
  /\ ctrl_vector = [NoCtrl EXCEPT !.mulw = TRUE, !.trig = c <= Last, !.wb = c = Last + 1,
                      !.byte = c % 2, !.word = (c \div 2) % 2,
                      !.opa = IF c >= 2 THEN "acc" ELSE "zero",
                      !.opb = IF c >= 2 THEN "cp" ELSE "zero"]
  /\ c < Last => dp.rs1 = Src(ir.rs1, c \div 4) /\ dp.rs2 = Src(ir.rs2, c \div 4)
  /\ c \in 1 .. Last => dp.dsp = Prod(ir, atIssue.rf, c - 1)
  /\ c >= 2 => /\ dp.prod = Prod(ir, atIssue.rf, c - 2)
               /\ dp.acc = SumTo(ir, atIssue.rf, Last, c - 2)
  /\ c <= Last => v.rs1 = Reg(ir.rs1, (c + 1) \div 4) /\ v.rs2 = Reg(ir.rs2, (c + 1) \div 4)
  /\ v.rd = ir.rd
  /\ Untouched

(* The start, every product, and the cycle that drains the multiplier.      *)
Accumulating == \E c \in 0 .. Last + 1 : AccumulatingAt(c)

(* Setting the vector length: the register that holds it is read, then      *)
(* csr_vl is loaded.                                                        *)
Setting ==
  /\ Untouched /\ ctrl_vector = NoCtrl
  /\ v.state \in {"S_VECTOR_CSR", "S_IDLE"}
  /\ v.state = "S_VECTOR_CSR" => v.rs1 = ir.rd /\ (~v.mop => dp.rs1 = atIssue.rf[ir.rd])
  /\ v.state = "S_IDLE" => csr_vl = Count(Num(atIssue.rf[ir.rd]))

-----------------------------------------------------------------------------
(* The address of the first element.                                        *)
Start == Base(ir, atIssue.rf)

(* The control signals that every cycle of a memory operation has in        *)
(* common: the kind of access, its size, and that only the memory may write *)
(* a register.                                                              *)
MemWord(mem, size) ==
  /\ ctrl_vector.mem = mem /\ ctrl_vector.size = size
  /\ ~ctrl_vector.vwe /\ ~ctrl_vector.zero
  /\ ctrl_vector.wb => ctrl_vector.mux = "mem"
(* What the collecting buffer holds after this cycle's write-back.          *)
Kept == LoadReg("none", dp.vbuf)

(* The words before word k have been answered without a fault, and the      *)
(* address of word k is in the adder or, once requested, on the bus.        *)
UnitAccess(k) ==
  /\ MemWord("unit", "32")
  /\ Points(add_o, Start + 4 * k)
  /\ v.state = "S_MEM_ADDR" => ctrl_vector.mo
  /\ v.state \in {"S_MEM_REQ", "S_MEM_WAIT"} =>
       /\ bus.mar = Word(Start + 4 * k) /\ ~bus.mis
       /\ ~ctrl_vector.wb /\ ctrl_vector.opa = "acc" /\ ctrl_vector.opb = "zero"
       /\ ~ctrl_vector.mo
  /\ \A j \in 0 .. k - 1 : ~Faulty(Start + 4 * j)

(* A store at element k: what is stored is read a cycle ahead, is in the    *)
(* operand register in the cycle of the address, and on the bus after it.   *)
StoringUnitAt(k) ==
  /\ UnitAccess(k) /\ Stored(k)
  /\ v.state \in {"S_MEM_ADDR", "S_MEM_REQ"} => v.c1 = k /\ v.rs2 = Reg(ir.rs2, k)
  /\ v.state = "S_MEM_ADDR" => dp.rs2 = Src(ir.rs2, k)
  /\ v.state \in {"S_MEM_REQ", "S_MEM_WAIT"} => bus.wdata = Src(ir.rs2, k) /\ bus.size = "32"
  /\ v.state = "S_MEM_WAIT" => v.c1 = k + 1 /\ v.rs2 = Reg(ir.rs2, k + 1)

(* A unit-stride store in any of its states.                                *)
StoringUnit ==
  /\ v.state \in {"S_IDLE", "S_MEM_ADDR", "S_MEM_REQ", "S_MEM_WAIT"}
  /\ Untouched /\ ~v.mop /\ ~ctrl_vector.wb /\ ~ctrl_vector.vwe /\ ~ctrl_vector.zero
  /\ v.state = "S_IDLE" => Stored(Last)
  /\ v.state # "S_IDLE" => \E k \in 0 .. Last - 1 : StoringUnitAt(k)

(* How far into its word the first byte is.                                 *)
Offset == Start % 4

(* The element counter before access k: a load of bytes that starts inside  *)
(* a word counts what the access brings beyond it.                          *)
Count1(k) == IF ir.size = "8" THEN IF k = 0 THEN 0 ELSE 4 * k - Offset ELSE k

(* The number of registers that are full before access k.                   *)
Full(k) == IF Offset = 0 \/ k = 0 THEN k ELSE k - 1

(* len bytes from byte 4 m of the load on, as the collecting buffer holds   *)
(* them.                                                                    *)
Run(m, len) == [j \in 1 .. len |-> Start + 4 * m + j - 1]

(* The number of destination registers.                                     *)
DestOf == DestCount(ir, atIssue.vl)

(* The last state of a load of bytes that is not a whole number of words:   *)
(* register m, the last, is still in the buffer.                            *)
LoadingLast(m) ==
  /\ m + 1 = DestOf
  /\ MemWord("unit", "32")
  /\ DoneOf(rfNext, m) /\ m > 0 /\ v.rd = Reg(ir.rd, m - 1)
  /\ Last <= 4 * m + 4 - Offset /\ ir.size = "8" /\ Kept = Run(m, 4 - Offset)

(* A unit-stride load at access k: the full registers are written, and the  *)
(* buffer keeps what the accesses have brought beyond them. v.rd lags one   *)
(* register behind in the cycle that writes.                                *)
LoadingUnitAt(k) ==
  /\ UnitAccess(k) /\ Count1(k) < Last
  /\ DoneOf(rfNext, Full(k))
  /\ Kept = IF k = 0 THEN <<>> ELSE Run(Full(k), 4 * k - Offset - 4 * Full(k))
  /\ v.mop = (k = 0)
  /\ v.c2 = IF ir.size = "8" THEN 4 + 4 * Full(k) ELSE 4
  /\ v.c1 = IF v.state = "S_MEM_WAIT" THEN Count1(k + 1) ELSE Count1(k)
  /\ v.rd = Reg(ir.rd, IF v.state = "S_MEM_ADDR" /\ Full(k) > 0 THEN Full(k) - 1 ELSE Full(k))

(* A unit-stride load in any of its states.                                 *)
LoadingUnit ==
  /\ v.state \in {"S_IDLE", "S_MEM_ADDR", "S_MEM_REQ", "S_MEM_WAIT", "S_MEM_LAST_STORE"}
  /\ ctrl_vector.mem = "unit" /\ ctrl_vector.size = "32"
  /\ v.state = "S_IDLE" => DoneOf(rfNext, DestOf) /\ ~ctrl_vector.vwe /\ ~ctrl_vector.zero
  /\ v.state = "S_MEM_LAST_STORE" => \E m \in 0 .. Last : LoadingLast(m)
  /\ v.state \in {"S_MEM_ADDR", "S_MEM_REQ", "S_MEM_WAIT"} => \E k \in 0 .. Last : LoadingUnitAt(k)

(* The same for strided accesses: one for each element, at its own address. *)
StridedAccess(k) ==
  /\ MemWord("strided", ir.size)
  /\ v.state = "S_MEM_ADDR_STRIDED" => ctrl_vector.mo
  /\ v.state \in {"S_MEM_REQ_STRIDED", "S_MEM_WAIT_STRIDED"} =>
       bus.mar = Elem(k) /\ ~bus.mis /\ ~ctrl_vector.wb /\ ctrl_vector.opa = "acc" /\ ~ctrl_vector.mo
  /\ v.state = "S_MEM_REQ_STRIDED" => ctrl_vector.opb = "zero"
  /\ v.c1 = IF v.state = "S_MEM_WAIT_STRIDED" THEN k + 1 ELSE k
  /\ \A j \in 0 .. k - 1 : ~Faulty(Elem(j))

(* A strided store at element k. The only read port is shared by the        *)
(* element and the stride, so that their registers take turns in v.rs2 and  *)
(* v.rd.                                                                    *)
StoringStridedAt(k) ==
  /\ StridedAccess(k) /\ Stored(k)
  /\ Points(add_o, Elem(IF v.state = "S_MEM_WAIT_STRIDED" THEN k + 1 ELSE k))
  /\ v.state = "S_MEM_ADDR_STRIDED" =>
       dp.rs2 = Src(ir.rs2, k) /\ v.rs2 = Reg(ir.rs2, k) /\ v.rd = ir.rd
  /\ v.state = "S_MEM_REQ_STRIDED" => v.rs2 = ir.rd /\ v.rd = Reg(ir.rs2, k + 1)
  /\ v.state = "S_MEM_WAIT_STRIDED" =>
       /\ v.rs2 = Reg(ir.rs2, k + 1) /\ v.rd = ir.rd
       /\ ctrl_vector.opb \in {"rs2", "zero"}
  /\ v.state \in {"S_MEM_REQ_STRIDED", "S_MEM_WAIT_STRIDED"} =>
       bus.wdata = Src(ir.rs2, k) /\ bus.size = ir.size

(* A strided store in any of its states.                                    *)
StoringStrided ==
  /\ v.state \in {"S_IDLE", "S_MEM_ADDR_STRIDED", "S_MEM_REQ_STRIDED", "S_MEM_WAIT_STRIDED"}
  /\ Untouched /\ ~ctrl_vector.wb /\ ~ctrl_vector.vwe /\ ~ctrl_vector.zero
  /\ v.state = "S_IDLE" => Stored(Last)
  /\ v.state # "S_IDLE" => \E k \in 0 .. Last - 1 : StoringStridedAt(k)

(* The register that element k belongs to.                                  *)
Group(k) == IF ir.size = "8" THEN k \div 4 ELSE k

(* A strided load at element k: the full registers are written, and the     *)
(* buffer keeps the bytes of the current one.                               *)
LoadingStridedAt(k) ==
  /\ StridedAccess(k) /\ Points(add_o, Elem(k))
  /\ DoneOf(rfNext, Group(k))
  /\ Kept = IF ir.size = "8" THEN [j \in 1 .. k % 4 |-> Elem(4 * (k \div 4) + j - 1)] ELSE <<>>
  /\ v.mop = (k = 0)
  /\ v.rd = Reg(ir.rd, Group(IF v.state = "S_MEM_ADDR_STRIDED" /\ k > 0 THEN k - 1 ELSE k))
  /\ v.state = "S_MEM_WAIT_STRIDED" => v.rs2 = ir.rs2 /\ ctrl_vector.opb = "zero"

(* A strided load in any of its states.                                     *)
LoadingStrided ==
  /\ v.state \in {"S_IDLE", "S_MEM_ADDR_STRIDED", "S_MEM_REQ_STRIDED", "S_MEM_WAIT_STRIDED"}
  /\ ~ctrl_vector.vwe /\ ~ctrl_vector.zero
  /\ v.state = "S_IDLE" => DoneOf(rfNext, DestOf)
  /\ v.state # "S_IDLE" => \E k \in 0 .. Last - 1 : LoadingStridedAt(k)

-----------------------------------------------------------------------------
(* A scalar load, which the execute engine does by itself: address,         *)
(* request, answer.                                                         *)
LoadingWord ==
  /\ Untouched /\ ~switch
  /\ ex = "MEM_REQ" => /\ ctrl = [NoCtrl EXCEPT !.mo = TRUE, !.opb = "imm"]
                       /\ dp.rs1 = atIssue.rf[ir.rs1]
  /\ ex = "MEM_WAIT" => /\ ctrl \in {NoCtrl, [NoCtrl EXCEPT !.rd = TRUE]}
                        /\ bus.mar = Start /\ bus.mis = Misaligned(Start, ir.size)

(* The vector engine works on the operation of the instruction in progress. *)
Working ==
  /\ switch /\ ir.op # "lw"
  /\ CASE ir.op = "vadd" -> Adding
       [] ir.op = "vmul" -> Multiplying
       [] ir.op = "vmac" -> Accumulating
       [] ir.op = "vcsr" -> Setting
       [] ir.op = "vstore" -> IF ir.mode = "unit" THEN StoringUnit ELSE StoringStrided
       [] ir.op = "vload" -> IF ir.mode = "unit" THEN LoadingUnit ELSE LoadingStrided

(* The operation is over: all of its registers, stores, and the vector      *)
(* length are as promised at the end of this cycle.                         *)
Over ==
  /\ DoneOf(rfNext, DestOf)
  /\ ir.op = "vstore" => Stored(Last)
  /\ ir.op = "vcsr" => csr_vl = Count(Num(atIssue.rf[ir.rd]))

(* What is known of the state at issue, and what only the instructions of   *)
(* one kind may change since.                                               *)
AtIssue ==
  /\ IsList(atIssue.stored)
  /\ DOMAIN atIssue.rf = Regs /\ atIssue.rf[0] = Zero /\ atIssue.vl \in Counter
  /\ \A r \in Regs : IsWord(atIssue.rf[r])
  /\ ir.op # "vcsr" => csr_vl = atIssue.vl
  /\ ir.op # "vstore" => stored = atIssue.stored

(* The access under way, and why it may fail.                               *)
Accesses ==
  /\ slave = "wr" => bus.rw
  /\ slave = "rd" => ~bus.rw
  /\ bus.pend /\ bus.mis => ir_last.op = "lw"
  /\ bus.err => Faulty(bus.mar)
  /\ exc # {} => Faulty(bus.mar) \/ (ir_last.op = "lw" /\ bus.mis)

(* The data of the engines, in every state of the execute engine.           *)
Data ==
  /\ IsList(stored) /\ IsFile(rf) /\ Accesses
  /\ Active => AtIssue
  /\ ~Active => rfNext[0] = Zero
  /\ ex = "EXECUTE" => /\ Untouched /\ ctrl = NoCtrl /\ stored = atIssue.stored /\ ~switch
                       /\ csr_vl = atIssue.vl
  /\ ex = "VECTOR_WAIT" => Working
  /\ ex \in {"MEM_REQ", "MEM_WAIT"} => LoadingWord

(* An instruction is in progress, of a program that keeps to the rules.     *)
Context == TypeInv /\ AtIssue /\ ProgramProper /\ Active

(* A clock of the vector engine in the middle of an operation.              *)
Moving(answer) ==
  /\ Context /\ Handshake /\ Data /\ ~AccessError
  /\ ex = "VECTOR_WAIT" /\ ~finished
  /\ answer \in Answers /\ MayAnswer(answer) /\ BusUnit(answer) /\ Datapath(answer)
  /\ ir' = ir /\ atIssue' = atIssue

(* After a bus error in a strided access nothing is written any more,       *)
(* neither register nor memory, so that the instruction is cut off at the   *)
(* faulty element.                                                          *)
Idling ==
  /\ ~ctrl_vector.wb /\ ~ctrl_vector.vwe /\ ~ctrl_vector.zero
  /\ Active => Untouched /\ csr_vl = atIssue.vl /\ stored = atIssue.stored

(* The inductive invariant of the refinement: the handshakes and the data,  *)
(* or the engines at a standstill.                                          *)
Faithful ==
  TypeInv /\ (Active => ir \in Instrs) /\ ((Handshake /\ Data) \/ (Stuck /\ Idling))

(* Register numbers that wrap.                                              *)
LEMMA DivMod ==
  ASSUME NEW n \in Nat \ {0}, NEW x \in Int
  PROVE  x = n * (x \div n) + (x % n) /\ x \div n \in Int /\ x % n \in 0 .. n - 1
OBVIOUS

(* A multiple of n strictly between -n and n is 0.                          *)
LEMMA SmallMultiple ==
  ASSUME NEW n \in Nat \ {0}, NEW d \in Int, NEW e \in Int, n * d = e, e > -n, e < n
  PROVE  e = 0
<1>1. CASE d >= 1
  <2>1. n * d >= n
    BY <1>1
  <2> QED BY <2>1
<1>2. CASE d <= -1
  <2>1. n * d <= -n
    BY <1>2
  <2> QED BY <2>1
<1>3. CASE d = 0
  BY <1>3
<1> QED BY <1>1, <1>2, <1>3

(* Two numbers with one remainder differ by a multiple.                     *)
LEMMA SameRemainder ==
  ASSUME NEW n \in Nat \ {0}, NEW x \in Int, NEW y \in Int, x % n = y % n, x - y > -n, x - y < n
  PROVE  x = y
<1> DEFINE p == x \div n
           q == y \div n
           s == x % n
           d == p - q
           e == x - y
<1>1. x = n * p + s /\ y = n * q + s /\ p \in Int /\ q \in Int /\ s \in Int
  BY DivMod
<1> HIDE DEF p, q, s
<1>2. n * d = e /\ d \in Int /\ e \in Int
  BY <1>1
<1>3. e > -n /\ e < n
  OBVIOUS
<1> HIDE DEF d, e
<1>4. e = 0
  BY <1>2, <1>3, SmallMultiple
<1> QED BY <1>4 DEF e

(* A register of a group is a register.                                     *)
LEMMA RegIn == ASSUME NEW r \in Regs, NEW k \in Nat PROVE Reg(r, k) \in Regs
<1>1. r + k \in Int /\ NumRegs \in Nat \ {0}
  BY NumRegsAssumption DEF Regs
<1>. QED BY <1>1, DivMod DEF Reg, Regs

(* The first register of a group is its base.                               *)
LEMMA RegZero == ASSUME NEW r \in Regs PROVE Reg(r, 0) = r
  BY NumRegsAssumption DEF Reg, Regs

(* Fewer than NumRegs steps never come back to the same register.           *)
LEMMA RegDiffer ==
  ASSUME NEW r \in Regs, NEW k \in Nat, NEW m \in Nat, k < NumRegs, m < NumRegs, k # m
  PROVE  Reg(r, k) # Reg(r, m)
<1>. SUFFICES ASSUME Reg(r, k) = Reg(r, m) PROVE FALSE
  OBVIOUS
<1>. DEFINE x == r + k
            y == r + m
<1>1. /\ NumRegs \in Nat \ {0} /\ x \in Int /\ y \in Int
      /\ x - y > -NumRegs /\ x - y < NumRegs
  BY NumRegsAssumption DEF Regs
<1>2. x % NumRegs = y % NumRegs
  BY DEF Reg
<1>3. x # y
  BY DEF Regs
<1>. HIDE DEF x, y
<1>. QED BY <1>1, <1>2, <1>3, SameRemainder

(* The engine gets from one register of a group to the next by adding one.  *)
LEMMA RegNext ==
  ASSUME NEW r \in Regs, NEW k \in Nat
  PROVE  RegAdd(Reg(r, k), 1) = Reg(r, k + 1)
<1>. DEFINE n == NumRegs
            x == r + k
            p == x \div n
            s == x % n
            z == s + 1
            y == x + 1
            q == z \div n
            t == z % n
            w == y \div n
            u == y % n
<1>1. n \in Nat \ {0} /\ x \in Int
  BY NumRegsAssumption DEF Regs
<1>2. x = n * p + s /\ p \in Int /\ s \in 0 .. n - 1
  BY <1>1, DivMod
<1>6. z = s + 1 /\ y = x + 1
  OBVIOUS
<1>a. z \in Int /\ y \in Int
  BY <1>1, <1>2
<1>5. RegAdd(Reg(r, k), 1) = z % n /\ Reg(r, k + 1) = y % n
  <2>1. r + (k + 1) = y
    BY DEF Regs
  <2>. QED BY <2>1 DEF Reg, RegAdd
<1>. HIDE DEF n, x, p, s, z, y
<1>3. z = n * q + t /\ q \in Int /\ t \in 0 .. n - 1
  BY <1>1, <1>a, DivMod
<1>4. y = n * w + u /\ w \in Int /\ u \in 0 .. n - 1
  BY <1>1, <1>a, DivMod
<1>. HIDE DEF q, t, w, u
<1>. DEFINE d == p + q - w
            e == u - t
<1>7. n * d = e /\ d \in Int /\ e \in Int /\ e > -n /\ e < n
  BY <1>1, <1>2, <1>3, <1>4, <1>6
<1>. HIDE DEF d, e
<1>8. e = 0
  BY <1>1, <1>7, SmallMultiple
<1>9. u = t
  BY <1>3, <1>4, <1>8 DEF e
<1>. QED BY <1>5, <1>9 DEF u, t

-----------------------------------------------------------------------------
(* Registers written one after the other.                                   *)

(* The destination registers of a separate group: as many as there are,     *)
(* none of them x0, all different.                                          *)
LEMMA DestReg ==
  ASSUME NEW i \in InstrType, NEW n \in Counter, Separate(i, n)
  PROVE  /\ DestCount(i, n) \in Nat /\ DestCount(i, n) <= NumRegs
         /\ \A k \in 0 .. DestCount(i, n) - 1 :
              /\ Reg(i.rd, k) \in Regs /\ Reg(i.rd, k) \in Dest(i, n) /\ Reg(i.rd, k) # 0
              /\ \A m \in 0 .. DestCount(i, n) - 1 : k # m => Reg(i.rd, k) # Reg(i.rd, m)
<1>1. DestCount(i, n) \in Nat
  BY DEF DestCount, Groups, Counter
<1>2. i.rd \in Regs
  BY DEF InstrType
<1>. DEFINE c == DestCount(i, n)
<1>3. c <= NumRegs /\ NumRegs \in Nat
  BY NumRegsAssumption DEF Separate
<1>. HIDE DEF c
<1>4. \A k \in 0 .. c - 1 : k \in Nat /\ k < NumRegs
  BY <1>1, <1>3 DEF c
<1>5. \A k \in 0 .. c - 1 : Reg(i.rd, k) \in Regs /\ \A m \in 0 .. c - 1 : k # m => Reg(i.rd, k) # Reg(i.rd, m)
  BY <1>2, <1>4, RegIn, RegDiffer
<1>6. \A k \in 0 .. c - 1 : Reg(i.rd, k) \in Dest(i, n)
  BY DEF Dest, c
<1>. QED BY <1>1, <1>3, <1>5, <1>6 DEF c, Separate

(* Writing what is wanted into the next register of the group does one      *)
(* more.                                                                    *)
LEMMA DoneWrite ==
  ASSUME NEW i \in InstrType, NEW n \in Counter, Separate(i, n), NEW R, NEW f, NEW w,
         NEW k \in 0 .. DestCount(i, n) - 1,
         Done(i, R, n, f, k), Wanted(i, R, n, w, k)
  PROVE  Done(i, R, n, [f EXCEPT ![Reg(i.rd, k)] = w], k + 1)
<1>. DEFINE g == [f EXCEPT ![Reg(i.rd, k)] = w]
            c == DestCount(i, n)
<1>0. c \in Nat /\ k \in 0 .. c - 1
  BY DestReg
<1>1. DOMAIN g = Regs /\ Reg(i.rd, k) \in Regs /\ Reg(i.rd, k) \in Dest(i, n)
  BY DestReg DEF Done
<1>2. g[Reg(i.rd, k)] = w /\ \A r \in Regs : r # Reg(i.rd, k) => g[r] = f[r]
  BY <1>1 DEF Done
<1>3. \A r \in Regs \ Dest(i, n) : g[r] = R[r]
  BY <1>1, <1>2 DEF Done
<1>4. \A m \in 0 .. c - 1 : m # k => Reg(i.rd, m) \in Regs /\ Reg(i.rd, m) # Reg(i.rd, k)
  BY DestReg
<1>5. \A m \in 0 .. c - 1 : IF m < k THEN Wanted(i, R, n, f[Reg(i.rd, m)], m)
                            ELSE f[Reg(i.rd, m)] = R[Reg(i.rd, m)]
  BY DEF Done
<1>. HIDE DEF g
<1>6. ASSUME NEW m \in 0 .. c - 1
      PROVE  IF m < k + 1 THEN Wanted(i, R, n, g[Reg(i.rd, m)], m)
             ELSE g[Reg(i.rd, m)] = R[Reg(i.rd, m)]
  <2>1. CASE m = k
    BY <2>1, <1>0, <1>2
  <2>2. CASE m # k
    <3>1. g[Reg(i.rd, m)] = f[Reg(i.rd, m)] /\ (m < k + 1 <=> m < k)
      BY <1>0, <2>2, <1>2, <1>4
    <3>. QED BY <3>1, <1>5
  <2>. QED BY <2>1, <2>2
<1>7. Done(i, R, n, g, k + 1)
  BY <1>1, <1>3, <1>6 DEF Done
<1>. QED BY <1>7 DEF g

(* A register that is no destination before k still holds what it held.     *)
LEMMA DoneRead ==
  ASSUME NEW i \in InstrType, NEW n \in Counter, Separate(i, n), NEW R, NEW f, NEW k \in Nat,
         Done(i, R, n, f, k), NEW r \in Regs,
         \A m \in 0 .. DestCount(i, n) - 1 : m < k => r # Reg(i.rd, m)
  PROVE  f[r] = R[r]
<1>1. CASE r \notin Dest(i, n)
  BY <1>1 DEF Done
<1>2. CASE r \in Dest(i, n)
  <2>1. PICK m \in 0 .. DestCount(i, n) - 1 : r = Reg(i.rd, m)
    BY <1>2 DEF Dest
  <2>2. ~(m < k)
    BY <2>1
  <2>. QED BY <2>1, <2>2 DEF Done
<1>. QED BY <1>1, <1>2

(* Whatever is done, x0 keeps its value.                                    *)
LEMMA DoneZero ==
  ASSUME NEW i, NEW n, Separate(i, n), NEW R, NEW f, NEW k, Done(i, R, n, f, k)
  PROVE  f[0] = R[0]
<1>1. 0 \in Regs \ Dest(i, n)
  BY NumRegsAssumption DEF Separate, Regs
<1>. QED BY <1>1 DEF Done

(* Nothing is done in the registers that an instruction is issued with.     *)
LEMMA DoneNone ==
  ASSUME NEW i \in InstrType, NEW n \in Counter, NEW R, DOMAIN R = Regs, Separate(i, n)
  PROVE  Done(i, R, n, R, 0)
<1>1. DestCount(i, n) \in Nat
  BY DestReg
<1>2. \A m \in 0 .. DestCount(i, n) - 1 : ~(m < 0)
  BY <1>1
<1>. QED BY <1>2 DEF Done
-----------------------------------------------------------------------------
(* The running sum of a dot product.                                        *)

(* g is the running sum that SumTo evaluates.                               *)
SumUpTo(i, R, n, g) ==
  g = [k \in 0 .. n |-> IF k = 0 THEN Zero ELSE Add(g[k - 1], Prod(i, R, k - 1))]

(* There is one, so that SumTo is what its recursion says.                  *)
LEMMA SumUpToExists ==
  ASSUME NEW i, NEW R, NEW n \in Nat
  PROVE  \E g : SumUpTo(i, R, n, g)
<1> DEFINE bad == {k \in Nat : ~\E g : SumUpTo(i, R, k, g)}
<1> SUFFICES ASSUME bad # {}
             PROVE  FALSE
  OBVIOUS
<1>1. PICK m \in bad : \A j \in bad : <<j, m>> \notin OpToRel(<, Nat)
  BY WFMin, NatLessThanWellFounded
<1>2. \A j \in bad : ~(j < m)
  BY <1>1, Zenon DEF OpToRel
<1>3. CASE m = 0
  <2>. DEFINE z == [k \in 0 .. 0 |-> Zero]
  <2>1. SumUpTo(i, R, 0, z)
    BY DEF SumUpTo
  <2> QED  BY <2>1, <1>3
<1>4. CASE m # 0
  <2>1. m - 1 \in Nat /\ m - 1 < m /\ m \in Nat
    BY <1>4
  <2>2. PICK g : SumUpTo(i, R, m - 1, g)
    BY <2>1, <1>2
  <2> DEFINE d == Add(g[m - 1], Prod(i, R, m - 1))
             h == [k \in 0 .. m |-> IF k = m THEN d ELSE g[k]]
  <2>3. \A k \in 0 .. m - 1 : g[k] = IF k = 0 THEN Zero ELSE Add(g[k - 1], Prod(i, R, k - 1))
    BY <2>2 DEF SumUpTo
  <2>4. \A k \in 0 .. m : h[k] = IF k = 0 THEN Zero ELSE Add(h[k - 1], Prod(i, R, k - 1))
    <3> SUFFICES ASSUME NEW k \in 0 .. m
                 PROVE  h[k] = IF k = 0 THEN Zero ELSE Add(h[k - 1], Prod(i, R, k - 1))
      OBVIOUS
    <3>1. CASE k = m
      <4>1. h[m - 1] = g[m - 1] /\ h[m] = d
        BY <2>1
      <4>. QED BY <3>1, <1>4, <4>1
    <3>2. CASE k # m
      <4>1. k \in 0 .. m - 1 /\ h[k] = g[k]
        BY <3>2, <2>1
      <4>2. k # 0 => k - 1 \in 0 .. m /\ h[k - 1] = g[k - 1]
        BY <3>2, <2>1
      <4> HIDE DEF h
      <4>. QED BY <4>1, <4>2, <2>3
    <3> QED  BY <3>1, <3>2
  <2>5. h = [k \in 0 .. m |-> h[k]]
    OBVIOUS
  <2>. HIDE DEF h
  <2>6. SumUpTo(i, R, m, h)
    BY <2>4, <2>5 DEF SumUpTo
  <2> QED  BY <2>6
<1> QED  BY <1>3, <1>4

(* The sum of no products is zero, and one product more is one addition.    *)
LEMMA SumSteps ==
  ASSUME NEW i, NEW R, NEW n \in Nat
  PROVE  /\ SumTo(i, R, n, 0) = Zero
         /\ \A c \in 1 .. n : SumTo(i, R, n, c) = Add(SumTo(i, R, n, c - 1), Prod(i, R, c - 1))
<1>. DEFINE sum[k \in 0 .. n] == IF k = 0 THEN Zero ELSE Add(sum[k - 1], Prod(i, R, k - 1))
            is(g) == g = [k \in 0 .. n |-> IF k = 0 THEN Zero ELSE Add(g[k - 1], Prod(i, R, k - 1))]
<1>1. PICK g : SumUpTo(i, R, n, g)
  BY SumUpToExists
<1>2. is(g)
  BY <1>1 DEF SumUpTo
<1>3. sum = [k \in 0 .. n |-> IF k = 0 THEN Zero ELSE Add(sum[k - 1], Prod(i, R, k - 1))]
  BY <1>2
<1>4. \A c \in 0 .. n : SumTo(i, R, n, c) = sum[c]
  BY DEF SumTo
<1> HIDE DEF sum, is
<1>5. \A k \in 0 .. n : sum[k] = IF k = 0 THEN Zero ELSE Add(sum[k - 1], Prod(i, R, k - 1))
  BY <1>3
<1>6. SumTo(i, R, n, 0) = sum[0] /\ sum[0] = Zero
  BY <1>4, <1>5
<1>7. ASSUME NEW c \in 1 .. n
      PROVE  SumTo(i, R, n, c) = Add(SumTo(i, R, n, c - 1), Prod(i, R, c - 1))
  <2>1. c \in 0 .. n /\ c - 1 \in 0 .. n /\ c # 0
    OBVIOUS
  <2>2. SumTo(i, R, n, c) = sum[c] /\ SumTo(i, R, n, c - 1) = sum[c - 1]
    BY <1>4, <2>1
  <2>. QED BY <2>1, <2>2, <1>5
<1>. QED BY <1>6, <1>7

-----------------------------------------------------------------------------
(* Stores one after the other.                                              *)
LEMMA ListAppend == ASSUME NEW s, NEW e, IsList(s) PROVE IsList(Append(s, e))
<1>. DEFINE t == Append(s, e)
            T == {t[j] : j \in 1 .. Len(t)}
            S == {s[j] : j \in 1 .. Len(s)}
<1>1. s \in Seq(S) /\ Len(s) \in Nat
  BY DEF IsList
<1>2. Len(t) = Len(s) + 1 /\ t[Len(t)] = e /\ \A j \in 1 .. Len(s) : t[j] = s[j]
  BY <1>1
<1>3. S \subseteq T /\ e \in T
  <2>1. \A j \in 1 .. Len(s) : j \in 1 .. Len(t)
    BY <1>1, <1>2
  <2>2. Len(t) \in 1 .. Len(t)
    BY <1>1, <1>2
  <2>. HIDE DEF t
  <2>. QED BY <1>2, <2>1, <2>2
<1>4. s \in Seq(T)
  BY <1>1, <1>3
<1>. HIDE DEF T
<1>5. t \in Seq(T)
  BY <1>3, <1>4
<1>. QED BY <1>5 DEF IsList, T

(* A store that has just begun has stored nothing.                          *)
LEMMA StoresNone == ASSUME NEW i, NEW R, NEW s, IsList(s) PROVE s \o StoresTo(i, R, 0) = s
<1>1. StoresTo(i, R, 0) = << >>
  BY DEF StoresTo
<1>. QED BY <1>1 DEF IsList

(* One store more, appended to the list.                                    *)
LEMMA StoresNext ==
  ASSUME NEW i, NEW R, NEW k \in Nat, NEW s, IsList(s)
  PROVE  Append(s \o StoresTo(i, R, k), <<ElemAddr(i, R, k), StoreSize(i), R[Reg(i.rs2, k)]>>)
           = s \o StoresTo(i, R, k + 1)
<1>. DEFINE e(j) == <<ElemAddr(i, R, j - 1), StoreSize(i), R[Reg(i.rs2, j - 1)]>>
            S == {s[j] : j \in 1 .. Len(s)}
            T == S \union {e(j) : j \in 1 .. k + 1}
            t == StoresTo(i, R, k)
            u == StoresTo(i, R, k + 1)
<1>1. s \in Seq(T)
  BY DEF IsList
<1>2. t = [j \in 1 .. k |-> e(j)] /\ u = [j \in 1 .. k + 1 |-> e(j)]
  BY DEF StoresTo
<1>3. e(k + 1) = <<ElemAddr(i, R, k), StoreSize(i), R[Reg(i.rs2, k)]>>
  OBVIOUS
<1>4. \A j \in 1 .. k + 1 : e(j) \in T
  OBVIOUS
<1>. HIDE DEF e, T, t, u
<1>5. t \in Seq(T) /\ u \in Seq(T) /\ Len(t) = k
  BY <1>2, <1>4
<1>6. u = Append(t, e(k + 1))
  BY <1>2, <1>4, <1>5
<1>7. Append(s \o t, e(k + 1)) = s \o Append(t, e(k + 1))
  BY <1>1, <1>4, <1>5
<1>. QED BY <1>3, <1>6, <1>7 DEF t, u
-----------------------------------------------------------------------------
(* Bytes of words.                                                          *)
LEMMA WordFacts ==
  ASSUME NEW a \in Int
  PROVE  /\ Word(a) \in Int /\ Word(a) % 4 = 0 /\ Word(Word(a)) = Word(a)
         /\ Word(a) + (a % 4) = a /\ a % 4 \in 0 .. 3
         /\ Faulty(Word(a)) = Faulty(a)
         /\ Word(a + 4) = Word(a) + 4 /\ (a + 4) % 4 = a % 4
<1>0. (a - (a % 4)) % 4 = 0 /\ a % 4 \in 0 .. 3
  OBVIOUS
<1>1. Word(a) \in Int /\ Word(a) % 4 = 0 /\ Word(a) + (a % 4) = a /\ a % 4 \in 0 .. 3
  BY <1>0 DEF Word
<1>2. (a + 4) % 4 = a % 4
  OBVIOUS
<1>3. Word(Word(a)) = Word(a) /\ Word(a + 4) = Word(a) + 4
  BY <1>1, <1>2 DEF Word
<1>. QED BY <1>1, <1>2, <1>3 DEF Faulty

(* What an instruction in progress that keeps to the rules is known to be.  *)
LEMMA ContextFacts ==
  ASSUME Context
  PROVE  /\ ir \in InstrType /\ Last \in Counter /\ Separate(ir, Last)
         /\ DestOf \in Nat /\ DestOf <= NumRegs
         /\ DOMAIN atIssue.rf = Regs /\ \A r \in Regs : IsWord(atIssue.rf[r])
         /\ ir.rd \in Regs /\ ir.rs1 \in Regs /\ ir.rs2 \in Regs
         /\ ir.op \in VectorOps \union {"lw"} /\ ir.mode \in {"unit", "strided"}
         /\ ir.size \in {"8", "16", "32"}
         /\ ir.op \in {"vload", "vstore", "vadd", "vmul"} => Last >= 1
         /\ ir.op # "vcsr" => csr_vl = Last
<1>1. ir \in InstrType /\ Last \in Counter /\ Separate(ir, Last)
  BY TypeFacts DEF Context, AtIssue, ProgramProper, Proper, Last
<1>2. DestOf \in Nat /\ DestOf <= NumRegs
  BY <1>1, DestReg DEF DestOf, Last
<1>3. DOMAIN atIssue.rf = Regs /\ \A r \in Regs : IsWord(atIssue.rf[r])
  BY DEF Context, AtIssue
<1>4. /\ ir.op \in {"vload", "vstore", "vadd", "vmul"} => Last >= 1
      /\ ir.op # "vcsr" => csr_vl = Last
  BY DEF Context, AtIssue, ProgramProper, Proper, Last
<1>. QED BY <1>1, <1>2, <1>3, <1>4, InstrFields

(* The register that a write of the engine goes to.                         *)
LEMMA Written ==
  ASSUME Context, NEW f, NEW w, NEW k \in 0 .. DestOf - 1, DoneOf(f, k),
         Wanted(ir, atIssue.rf, Last, w, k)
  PROVE  DoneOf([f EXCEPT ![Reg(ir.rd, k)] = w], k + 1)
BY ContextFacts, DoneWrite DEF DoneOf, DestOf, Last

(* An instruction starts with nothing done.                                 *)
LEMMA DoneStart == ASSUME Context PROVE DoneOf(atIssue.rf, 0)
BY ContextFacts, DoneNone DEF DoneOf, Last

(* A register of the destination group is never x0.                         *)
LEMMA Destination ==
  ASSUME Context, NEW k \in 0 .. DestOf - 1
  PROVE  Reg(ir.rd, k) \in Regs /\ Reg(ir.rd, k) # 0
BY ContextFacts, DestReg DEF DestOf, Last

(* Sources of elements that are not yet read.                               *)
LEMMA Sources ==
  ASSUME Context, ir.op \in {"vadd", "vmul"}, NEW f, NEW j \in 0 .. Last - 1,
         \/ \E k \in Nat : k + 1 <= j /\ DoneOf(f, k)
         \/ /\ DOMAIN f = Regs /\ \A r \in Regs \ {Reg(ir.rd, 0)} : f[r] = atIssue.rf[r]
            /\ 2 <= j
  PROVE  f[Reg(ir.rs1, j)] = Src(ir.rs1, j) /\ f[Reg(ir.rs2, j)] = Src(ir.rs2, j)
<1>1. Behind(ir, Last) /\ DestOf = Last /\ Last \in Nat
  BY ContextFacts DEF Context, ProgramProper, Proper, DestOf, DestCount, Last, Counter
<1>2. j \in Nat /\ Reg(ir.rs1, j) \in Regs /\ Reg(ir.rs2, j) \in Regs
  BY <1>1, ContextFacts, RegIn
<1>3. \A m \in 0 .. Last - 1 : m + 2 <= j => Reg(ir.rd, m) # Reg(ir.rs1, j) /\ Reg(ir.rd, m) # Reg(ir.rs2, j)
  BY <1>1 DEF Behind
<1>4. ASSUME NEW k \in Nat, k + 1 <= j, DoneOf(f, k)
      PROVE  f[Reg(ir.rs1, j)] = Src(ir.rs1, j) /\ f[Reg(ir.rs2, j)] = Src(ir.rs2, j)
  <2>1. \A m \in 0 .. Last - 1 : m < k => m + 2 <= j
    BY <1>1, <1>2, <1>4
  <2>2. Done(ir, atIssue.rf, Last, f, k)
    BY <1>4 DEF DoneOf, Last
  <2>3. DestCount(ir, Last) = Last
    BY <1>1 DEF DestOf, Last
  <2>. QED BY <1>2, <1>3, <2>1, <2>2, <2>3, ContextFacts, DoneRead DEF Src
<1>5. ASSUME DOMAIN f = Regs, \A r \in Regs \ {Reg(ir.rd, 0)} : f[r] = atIssue.rf[r], 2 <= j
      PROVE  f[Reg(ir.rs1, j)] = Src(ir.rs1, j) /\ f[Reg(ir.rs2, j)] = Src(ir.rs2, j)
  <2>1. Reg(ir.rd, 0) # Reg(ir.rs1, j) /\ Reg(ir.rd, 0) # Reg(ir.rs2, j)
    BY <1>1, <1>2, <1>3, <1>5
  <2>. QED BY <1>2, <1>5, <2>1 DEF Src
<1>. QED BY <1>4, <1>5

(* One clock of the data path while the engine holds the control bus.       *)
LEMMA DataStep ==
  ASSUME switch, ~ctrl_vector.zero, NEW answer, Datapath(answer)
  PROVE  /\ dp'.rs1 = rf[IF ctrl_vector.wb THEN v.rd ELSE v.rs1]
         /\ dp'.rs2 = rf[v.rs2]
         /\ dp'.acc = add_o
         /\ dp'.prod = dp.dsp
         /\ dp'.dsp = IF ~ctrl_vector.trig THEN dp.dsp
                      ELSE IF ctrl_vector.mulw
                           THEN MulByte(dp.rs1, dp.rs2, 2 * ctrl_vector.word + ctrl_vector.byte)
                           ELSE Mul(dp.rs1, dp.rs2)
         /\ dp'.vbuf = LoadReg(answer, dp.vbuf)
         /\ rf' = rfNext
<1>1. out = ctrl_vector /\ rdA = v.rd /\ rs1A = v.rs1 /\ rs2A = v.rs2
  BY DEF out, rdA, rs1A, rs2A
<1>2. opaAddr = IF ctrl_vector.wb THEN v.rd ELSE v.rs1
  BY <1>1 DEF opaAddr
<1>. QED BY <1>1, <1>2 DEF Datapath

(* What is written at the end of a cycle.                                   *)
LEMMA NoWrite ==
  switch /\ ~ctrl_vector.wb /\ ~ctrl_vector.vwe /\ ~ctrl_vector.zero => rfNext = rf
BY DEF rfNext, out

(* A cycle that writes what is wanted into register k of the group leaves k *)
(* + 1 of them done.                                                        *)
LEMMA WriteWanted ==
  ASSUME Context, switch, ctrl_vector.wb \/ ctrl_vector.vwe, ~ctrl_vector.zero,
         NEW k \in 0 .. DestOf - 1, v.rd = Reg(ir.rd, k), DoneOf(rf, k),
         Wanted(ir, atIssue.rf, Last, wdata, k)
  PROVE  DoneOf(rfNext, k + 1)
<1>1. v.rd # 0
  BY Destination
<1>2. rfNext = [rf EXCEPT ![v.rd] = wdata]
  BY <1>1 DEF rfNext, out, rdA, opaAddr
<1>. QED BY <1>2, Written

(* The cycle of EXECUTE, in which the register file is read for the engine.  *)
LEMMA StartData ==
  ASSUME TypeInv, Data, ex = "EXECUTE", NEW answer, Datapath(answer)
  PROVE  /\ rf' = atIssue.rf
         /\ dp'.rs1 = atIssue.rf[ir.rs1] /\ dp'.rs2 = atIssue.rf[ir.rs2] /\ dp'.vbuf = <<>>
<1>1. ~switch /\ ctrl = NoCtrl /\ rf = atIssue.rf
  BY DEF Data, Untouched
<1>2. /\ ~out.wb /\ ~out.vwe /\ ~out.zero /\ out.mem = "no"
      /\ rs1A = ir.rs1 /\ rs2A = ir.rs2
  BY <1>1 DEF out, NoCtrl, rs1A, rs2A
<1>. QED BY <1>1, <1>2 DEF Datapath, rfNext, opaAddr, LoadReg

-----------------------------------------------------------------------------
(* Additions                                                                *)

(* An addition starts with element 0.                                       *)
LEMMA AddingStart ==
  ASSUME Context, Data, ex = "EXECUTE", ir.op = "vadd", StartAdd, NEW answer, Datapath(answer),
         ir' = ir, atIssue' = atIssue
  PROVE  Adding'
<1>1. ir.rd = Reg(ir.rd, 0) /\ RegAdd(ir.rs1, 1) = Reg(ir.rs1, 0 + 1)
      /\ RegAdd(ir.rs2, 1) = Reg(ir.rs2, 0 + 1)
      /\ Reg(ir.rs1, 0) = ir.rs1 /\ Reg(ir.rs2, 0) = ir.rs2
  BY ContextFacts, RegZero, RegNext
<1>2. csr_vl = Last /\ Last \in Nat /\ Last >= 1
  BY ContextFacts DEF Counter
<1>3. /\ v'.state = IF csr_vl = 1 THEN "S_IDLE" ELSE "S_ALU"
      /\ v'.c1 = 2 /\ v'.rd = ir.rd /\ v'.rs1 = RegAdd(ir.rs1, 1) /\ v'.rs2 = RegAdd(ir.rs2, 1)
      /\ ctrl_vector' = [NoCtrl EXCEPT !.vwe = TRUE]
  BY DEF StartAdd, Latch, NextCtrl
<1>4. rf' = atIssue.rf /\ dp'.rs1 = Src(ir.rs1, 0) /\ dp'.rs2 = Src(ir.rs2, 0)
  BY <1>1, StartData DEF Context, Src
<1>5. DoneOf(atIssue.rf, 0)
  BY DoneStart
<1>6. AddingAt(0)'
  BY <1>1, <1>2, <1>3, <1>4, <1>5 DEF AddingAt, DoneOf, Src, Last
<1>. QED BY <1>2, <1>6 DEF Adding, Last

(* The sum of element k goes to register k.                                 *)
LEMMA AddingWrites ==
  ASSUME Context, switch, ir.op = "vadd", NEW k \in 0 .. Last - 1,
         ctrl_vector = [NoCtrl EXCEPT !.vwe = TRUE],
         dp.rs1 = Src(ir.rs1, k), dp.rs2 = Src(ir.rs2, k), v.rd = Reg(ir.rd, k), DoneOf(rf, k)
  PROVE  DoneOf(rfNext, k + 1)
<1>1. wdata = Add(dp.rs1, dp.rs2)
  BY DEF wdata, aluRes, add_o, opa, opb, out, NoCtrl
<1>2. Wanted(ir, atIssue.rf, Last, wdata, k)
  BY <1>1 DEF Wanted, Src
<1>3. ctrl_vector.vwe /\ ~ctrl_vector.zero
  BY DEF NoCtrl
<1>4. DestOf = Last
  BY DEF DestOf, DestCount, Last
<1>. QED BY <1>2, <1>3, <1>4, WriteWanted

(* Every clock of an addition goes to the next element.                     *)
LEMMA AddingStep ==
  ASSUME Context, switch, ir.op = "vadd", Adding, VAlu, NEW answer, Datapath(answer),
         ir' = ir, atIssue' = atIssue
  PROVE  Adding'
<1>0. v.state = "S_ALU" /\ v \in VectorType /\ csr_vl = Last /\ Last \in Nat /\ Last <= 127
  BY TypeFacts, ContextFacts DEF VAlu, VectorTypes, Counter, Context
<1>1. PICK k \in 0 .. Last - 1 :
         /\ v.c1 = k + 2 /\ k + 1 < Last
         /\ ctrl_vector = [NoCtrl EXCEPT !.vwe = TRUE]
         /\ dp.rs1 = Src(ir.rs1, k) /\ dp.rs2 = Src(ir.rs2, k)
         /\ v.rd = Reg(ir.rd, k) /\ v.rs1 = Reg(ir.rs1, k + 1) /\ v.rs2 = Reg(ir.rs2, k + 1)
         /\ DoneOf(rf, k)
  BY <1>0 DEF Adding, AddingAt
<1>2. k \in Nat /\ k + 1 \in 0 .. Last - 1
  BY <1>0, <1>1
<1>3. DoneOf(rfNext, k + 1)
  BY <1>1, AddingWrites
<1>4. rf[Reg(ir.rs1, k + 1)] = Src(ir.rs1, k + 1) /\ rf[Reg(ir.rs2, k + 1)] = Src(ir.rs2, k + 1)
  <2>1. k + 1 <= k + 1
    BY <1>2
  <2>. QED BY <1>1, <1>2, <2>1, Sources
<1>5. /\ dp'.rs1 = Src(ir.rs1, k + 1) /\ dp'.rs2 = Src(ir.rs2, k + 1) /\ rf' = rfNext
  BY <1>1, <1>4, DataStep DEF NoCtrl
<1>6. /\ v'.state = IF v.c1 = csr_vl THEN "S_IDLE" ELSE "S_ALU"
      /\ v.c1 # csr_vl => v'.c1 = Count(v.c1 + 1)
      /\ v'.rd = RegAdd(v.rd, 1) /\ v'.rs1 = RegAdd(v.rs1, 1) /\ v'.rs2 = RegAdd(v.rs2, 1)
      /\ ctrl_vector' = [NoCtrl EXCEPT !.vwe = TRUE]
  BY <1>0 DEF VAlu, NextCtrl, VectorType
<1>7. v.c1 # csr_vl => v'.c1 = (k + 1) + 2 /\ (k + 1) + 1 < Last
  BY <1>0, <1>1, <1>2, <1>6 DEF Count
<1>8. v'.rd = Reg(ir.rd, k + 1) /\ v'.rs1 = Reg(ir.rs1, (k + 1) + 1)
      /\ v'.rs2 = Reg(ir.rs2, (k + 1) + 1)
  BY <1>1, <1>2, <1>6, ContextFacts, RegNext
<1>9. \/ v'.state = "S_ALU" /\ v'.c1 = (k + 1) + 2 /\ (k + 1) + 1 < Last
      \/ v'.state = "S_IDLE" /\ (k + 1) + 1 = Last
  BY <1>0, <1>1, <1>2, <1>6, <1>7
<1>10. AddingAt(k + 1)'
  BY <1>2, <1>3, <1>5, <1>6, <1>8, <1>9 DEF AddingAt, DoneOf, Src, Last
<1>. QED BY <1>2, <1>10 DEF Adding, Last

(* An addition that has gone idle is done with the write of this cycle.     *)
LEMMA AddingOver ==
  ASSUME Context, switch, ir.op = "vadd", Adding, v.state = "S_IDLE"
  PROVE  Over
<1>1. PICK k \in 0 .. Last - 1 :
         /\ k + 1 = Last
         /\ ctrl_vector = [NoCtrl EXCEPT !.vwe = TRUE]
         /\ dp.rs1 = Src(ir.rs1, k) /\ dp.rs2 = Src(ir.rs2, k)
         /\ v.rd = Reg(ir.rd, k)
         /\ DoneOf(rf, k)
  BY DEF Adding, AddingAt
<1>2. DestOf = Last
  BY DEF DestOf, DestCount, Last
<1>. QED BY <1>1, <1>2, AddingWrites DEF Over

(* A write to a register other than x0.                                     *)
LEMMA WriteOf ==
  ASSUME switch, ctrl_vector.wb \/ ctrl_vector.vwe, ~ctrl_vector.zero, v.rd # 0
  PROVE  rfNext = [rf EXCEPT ![v.rd] = wdata]
BY DEF rfNext, out, rdA, opaAddr

(* Nothing is done yet.                                                     *)
LEMMA DoneNothing ==
  ASSUME Context, NEW f, DoneOf(f, 0)
  PROVE  DOMAIN f = Regs /\ \A r \in Regs : f[r] = atIssue.rf[r]
<1>1. Done(ir, atIssue.rf, Last, f, 0) /\ DestCount(ir, Last) \in Nat
  BY ContextFacts DEF DoneOf, DestOf, Last
<1>2. \A m \in 0 .. DestCount(ir, Last) - 1 : ~(m < 0)
  BY <1>1
<1>3. DOMAIN f = Regs
  BY <1>1 DEF Done
<1>. QED BY <1>1, <1>2, <1>3, ContextFacts, DoneRead

-----------------------------------------------------------------------------
(* Multiplications                                                          *)

(* A multiplication starts with an empty pipeline.                          *)
LEMMA MultiplyingStart ==
  ASSUME Context, Data, ex = "EXECUTE", ir.op = "vmul", StartMul, NEW answer, Datapath(answer),
         ir' = ir, atIssue' = atIssue
  PROVE  Multiplying'
<1>1. ir.rd = Reg(ir.rd, 0) /\ RegAdd(ir.rs1, 1) = Reg(ir.rs1, 0 + 1)
      /\ RegAdd(ir.rs2, 1) = Reg(ir.rs2, 0 + 1)
      /\ Reg(ir.rs1, 0) = ir.rs1 /\ Reg(ir.rs2, 0) = ir.rs2
  BY ContextFacts, RegZero, RegNext
<1>2. Last \in Nat
  BY ContextFacts DEF Counter
<1>3. /\ v'.state = "S_MUL" /\ v'.c2 = 0
      /\ v'.rd = ir.rd /\ v'.rs1 = RegAdd(ir.rs1, 1) /\ v'.rs2 = RegAdd(ir.rs2, 1)
      /\ ctrl_vector' = [NoCtrl EXCEPT !.trig = TRUE]
  BY DEF StartMul, Latch, NextCtrl
<1>4. rf' = atIssue.rf /\ dp'.rs1 = Src(ir.rs1, 0) /\ dp'.rs2 = Src(ir.rs2, 0)
  BY <1>1, StartData DEF Context, Src
<1>5. DoneOf(atIssue.rf, 0)
  BY DoneStart
<1>6. MultiplyingAt(0)'
  BY <1>1, <1>2, <1>3, <1>4, <1>5 DEF MultiplyingAt, DoneOf, Src, Last
<1>. QED BY <1>2, <1>6 DEF Multiplying, Last

(* From its third cycle on a multiplication writes the product of element c *)
(* - 2.                                                                     *)
LEMMA MultiplyingWrites ==
  ASSUME Context, switch, ir.op = "vmul", NEW c \in 2 .. Last + 1, MultiplyingAt(c)
  PROVE  DoneOf(rfNext, c - 1)
<1>1. DestOf = Last /\ Last \in Nat /\ c - 2 \in 0 .. DestOf - 1 /\ c - 2 + 1 = c - 1
  BY ContextFacts DEF DestOf, DestCount, Last, Counter
<1>2. /\ ctrl_vector.vwe /\ ~ctrl_vector.zero /\ ctrl_vector.alu = "cp" /\ ctrl_vector.mux = "alu"
      /\ v.rd = Reg(ir.rd, c - 2) /\ dp.prod = Mul(Src(ir.rs1, c - 2), Src(ir.rs2, c - 2))
  BY DEF MultiplyingAt, NoCtrl
<1>3. wdata = dp.prod
  BY <1>2 DEF wdata, aluRes, cp_res, out
<1>4. Wanted(ir, atIssue.rf, Last, wdata, c - 2)
  BY <1>2, <1>3 DEF Wanted, Src
<1>5. CASE c = 2
  <2>1. DOMAIN rf = Regs /\ \A r \in Regs \ {Reg(ir.rd, 0)} : rf[r] = atIssue.rf[r]
    BY <1>5 DEF MultiplyingAt
  <2>2. v.rd = Reg(ir.rd, 0) /\ v.rd # 0 /\ v.rd \in Regs
    BY <1>1, <1>2, <1>5, Destination
  <2>3. rfNext = [rf EXCEPT ![v.rd] = wdata]
    BY <1>2, <2>2, WriteOf
  <2>4. DOMAIN rfNext = Regs /\ rfNext = [r \in Regs |-> rfNext[r]]
        /\ \A r \in Regs : rfNext[r] = IF r = v.rd THEN wdata ELSE rf[r]
    BY <2>1, <2>2, <2>3, TypeFacts DEF Context, TypeInv, WordsOK
  <2>5. rfNext = [atIssue.rf EXCEPT ![v.rd] = wdata]
    BY <2>1, <2>2, <2>4, ContextFacts
  <2>6. DoneOf([atIssue.rf EXCEPT ![Reg(ir.rd, 0)] = wdata], 0 + 1)
    BY <1>1, <1>4, <1>5, DoneStart, Written
  <2>. QED BY <1>5, <2>2, <2>5, <2>6
<1>6. CASE c # 2
  <2>1. DoneOf(rf, c - 2)
    BY <1>6 DEF MultiplyingAt
  <2>. QED BY <1>1, <1>2, <1>4, <2>1, WriteWanted
<1>. QED BY <1>5, <1>6

(* Every clock moves all three elements one stage on.                       *)
LEMMA MultiplyingStep ==
  ASSUME Context, switch, ir.op = "vmul", Multiplying, VMul, NEW answer, Datapath(answer),
         ir' = ir, atIssue' = atIssue
  PROVE  Multiplying'
<1>0. v.state = "S_MUL" /\ v \in VectorType /\ csr_vl = Last /\ Last \in Nat /\ Last <= 127
  BY TypeFacts, ContextFacts DEF VMul, VectorTypes, Counter, Context
<1>1. PICK c \in 0 .. Last + 1 : MultiplyingAt(c)
  BY DEF Multiplying
<1>2. c \in Nat /\ c <= Last /\ v.c2 = c /\ c + 1 \in 0 .. Last + 1
  BY <1>0, <1>1 DEF MultiplyingAt
<1>3. /\ v'.state = IF c = Last THEN "S_IDLE" ELSE "S_MUL"
      /\ v'.c2 = Count(c + 1)
      /\ v'.rd = IF c >= 2 THEN RegAdd(v.rd, 1) ELSE v.rd
      /\ v'.rs1 = RegAdd(v.rs1, 1) /\ v'.rs2 = RegAdd(v.rs2, 1)
      /\ ctrl_vector' = [NoCtrl EXCEPT !.alu = "cp", !.vwe = TRUE, !.trig = TRUE, !.wb = c = Last]
  BY <1>0, <1>2 DEF VMul, NextCtrl, VectorType
<1>4. \/ v'.state = "S_MUL" /\ v'.c2 = c + 1 /\ c + 1 <= Last
      \/ v'.state = "S_IDLE" /\ c + 1 = Last + 1
  BY <1>0, <1>2, <1>3 DEF Count
<1>5. (c = Last) = (c + 1 = Last + 1)
  BY <1>0, <1>2
<1>6. /\ ctrl_vector.trig /\ ~ctrl_vector.mulw /\ ~ctrl_vector.zero /\ ~ctrl_vector.wb
      /\ c = 0 => ~ctrl_vector.vwe
      /\ c # 0 => ctrl_vector.vwe
  <2>1. c # Last + 1
    BY <1>0, <1>2
  <2>2. CASE c = 0
    BY <1>1, <2>2 DEF MultiplyingAt, NoCtrl
  <2>3. CASE c # 0
    <3>1. ctrl_vector = [NoCtrl EXCEPT !.alu = "cp", !.vwe = TRUE, !.trig = TRUE, !.wb = c = Last + 1]
      BY <1>1, <2>3 DEF MultiplyingAt
    <3>. QED BY <2>1, <2>3, <3>1 DEF NoCtrl
  <2>. QED BY <2>2, <2>3
<1>7. c + 1 < Last => dp'.rs1 = Src(ir.rs1, c + 1) /\ dp'.rs2 = Src(ir.rs2, c + 1)
  <2>. SUFFICES ASSUME c + 1 < Last PROVE dp'.rs1 = Src(ir.rs1, c + 1) /\ dp'.rs2 = Src(ir.rs2, c + 1)
    OBVIOUS
  <2>1. v.rs1 = Reg(ir.rs1, c + 1) /\ v.rs2 = Reg(ir.rs2, c + 1) /\ c + 1 \in 0 .. Last - 1
    BY <1>0, <1>1, <1>2 DEF MultiplyingAt
  <2>2. \/ \E k \in Nat : k + 1 <= c + 1 /\ DoneOf(rf, k)
        \/ /\ DOMAIN rf = Regs /\ \A r \in Regs \ {Reg(ir.rd, 0)} : rf[r] = atIssue.rf[r]
           /\ 2 <= c + 1
    <3>. DEFINE k == IF c < 2 THEN 0 ELSE c - 2
    <3>1. k \in Nat /\ k + 1 <= c + 1
      BY <1>2
    <3>2. c # 2 => DoneOf(rf, k)
      BY <1>1 DEF MultiplyingAt
    <3>. HIDE DEF k
    <3>. QED BY <1>1, <3>1, <3>2 DEF MultiplyingAt
  <2>3. rf[Reg(ir.rs1, c + 1)] = Src(ir.rs1, c + 1) /\ rf[Reg(ir.rs2, c + 1)] = Src(ir.rs2, c + 1)
    BY <2>1, <2>2, Sources
  <2>. QED BY <1>6, <2>1, <2>3, DataStep
<1>8. c + 1 \in 1 .. Last => dp'.dsp = Mul(Src(ir.rs1, c + 1 - 1), Src(ir.rs2, c + 1 - 1))
  <2>1. c + 1 \in 1 .. Last => c < Last /\ c + 1 - 1 = c
    BY <1>0, <1>2
  <2>. QED BY <1>1, <1>6, <2>1, DataStep DEF MultiplyingAt
<1>9. c + 1 >= 2 => dp'.prod = Mul(Src(ir.rs1, c + 1 - 2), Src(ir.rs2, c + 1 - 2))
  <2>1. c + 1 >= 2 => c \in 1 .. Last /\ c + 1 - 2 = c - 1
    BY <1>0, <1>2
  <2>. QED BY <1>1, <1>6, <2>1, DataStep DEF MultiplyingAt
<1>10. /\ v'.rs1 = Reg(ir.rs1, c + 1 + 1) /\ v'.rs2 = Reg(ir.rs2, c + 1 + 1)
       /\ v'.rd = Reg(ir.rd, IF c + 1 < 2 THEN 0 ELSE c + 1 - 2)
  <2>1. v'.rs1 = Reg(ir.rs1, c + 1 + 1) /\ v'.rs2 = Reg(ir.rs2, c + 1 + 1)
    BY <1>1, <1>2, <1>3, ContextFacts, RegNext DEF MultiplyingAt
  <2>2. CASE c >= 2
    <3>1. c - 2 \in Nat /\ c - 2 + 1 = c + 1 - 2 /\ ~(c + 1 < 2) /\ v.rd = Reg(ir.rd, c - 2)
      BY <1>1, <1>2, <2>2 DEF MultiplyingAt
    <3>2. RegAdd(Reg(ir.rd, c - 2), 1) = Reg(ir.rd, c - 2 + 1)
      BY <3>1, ContextFacts, RegNext
    <3>. QED BY <1>3, <2>1, <2>2, <3>1, <3>2
  <2>3. CASE ~(c >= 2)
    <3>1. v.rd = Reg(ir.rd, 0) /\ (IF c + 1 < 2 THEN 0 ELSE c + 1 - 2) = 0
      BY <1>1, <1>2, <2>3 DEF MultiplyingAt
    <3>. QED BY <1>3, <2>1, <2>3, <3>1
  <2>. QED BY <2>2, <2>3
<1>11. rf' = rfNext
  BY <1>6, DataStep
<1>12. c + 1 = 2 => DOMAIN rf' = Regs /\ \A r \in Regs \ {Reg(ir.rd, 0)} : rf'[r] = atIssue.rf[r]
  <2>. SUFFICES ASSUME c + 1 = 2
                PROVE  DOMAIN rf' = Regs /\ \A r \in Regs \ {Reg(ir.rd, 0)} : rf'[r] = atIssue.rf[r]
    OBVIOUS
  <2>1. DestOf = Last /\ c = 1 /\ 0 \in 0 .. DestOf - 1
    BY <1>0, <1>2, ContextFacts DEF DestOf, DestCount, Last
  <2>2. v.rd = Reg(ir.rd, 0) /\ DoneOf(rf, 0) /\ ctrl_vector.vwe /\ v.rd # 0
    BY <1>1, <1>6, <2>1, Destination DEF MultiplyingAt
  <2>3. rf' = [rf EXCEPT ![v.rd] = wdata]
    BY <1>6, <1>11, <2>2, WriteOf
  <2>4. DOMAIN rf = Regs /\ \A r \in Regs : rf[r] = atIssue.rf[r]
    BY <2>2, DoneNothing
  <2>. QED BY <2>2, <2>3, <2>4
<1>13. c + 1 # 2 => DoneOf(rf', IF c + 1 < 2 THEN 0 ELSE c + 1 - 2)
  <2>1. CASE c = 0
    <3>1. rfNext = rf
      BY <1>6, <2>1, NoWrite
    <3>. QED BY <1>1, <1>11, <2>1, <3>1 DEF MultiplyingAt
  <2>2. CASE c >= 2
    <3>1. c \in 2 .. Last + 1 /\ ~(c + 1 < 2) /\ c + 1 - 2 = c - 1
      BY <1>2, <2>2
    <3>. QED BY <1>1, <1>11, <3>1, MultiplyingWrites
  <2>. QED BY <1>2, <2>1, <2>2
<1>14. MultiplyingAt(c + 1)'
  <2>1. c + 1 # 0
    BY <1>2
  <2>2. ctrl_vector' = IF c + 1 = 0 THEN [NoCtrl EXCEPT !.trig = TRUE]
                       ELSE [NoCtrl EXCEPT !.alu = "cp", !.vwe = TRUE, !.trig = TRUE,
                                           !.wb = c + 1 = Last + 1]
    BY <1>3, <1>5, <2>1
  <2>. HIDE DEF Last
  <2>3. Last' = Last /\ \A r, j : Src(r, j)' = Src(r, j)
    BY DEF Last, Src
  <2>4. \A j : DoneOf(rf, j)' <=> DoneOf(rf', j)
    BY DEF DoneOf
  <2>. QED BY <1>4, <2>2, <1>7, <1>8, <1>9, <1>10, <1>12, <1>13, <2>3, <2>4 DEF MultiplyingAt
<1>. QED BY <1>2, <1>14 DEF Multiplying, Last

(* A multiplication that has gone idle has written its last product.        *)
LEMMA MultiplyingOver ==
  ASSUME Context, switch, ir.op = "vmul", Multiplying, v.state = "S_IDLE"
  PROVE  Over
<1>1. PICK c \in 0 .. Last + 1 : MultiplyingAt(c)
  BY DEF Multiplying
<1>2. DestOf = Last /\ Last \in Nat /\ Last >= 1
  BY ContextFacts DEF DestOf, DestCount, Last, Counter
<1>3. c \in 2 .. Last + 1 /\ c - 1 = Last
  BY <1>1, <1>2 DEF MultiplyingAt
<1>. QED BY <1>1, <1>2, <1>3, MultiplyingWrites DEF Over

-----------------------------------------------------------------------------
(* Dot products                                                             *)

(* A dot product starts with a sum of zero.                                 *)
LEMMA AccumulatingStart ==
  ASSUME Context, Data, ex = "EXECUTE", ir.op = "vmac", StartMac, NEW answer, Datapath(answer),
         ir' = ir, atIssue' = atIssue
  PROVE  Accumulating'
<1>1. Reg(ir.rs1, 0) = ir.rs1 /\ Reg(ir.rs2, 0) = ir.rs2
      /\ RegAdd(ir.rs1, 0) = ir.rs1 /\ RegAdd(ir.rs2, 0) = ir.rs2
  BY ContextFacts, RegZero DEF RegAdd, Reg
<1>2. Last \in Nat
  BY ContextFacts DEF Counter
<1>3. /\ v'.state = "S_MAC" /\ v'.c2 = 0
      /\ v'.rd = ir.rd /\ v'.rs1 = RegAdd(ir.rs1, 0) /\ v'.rs2 = RegAdd(ir.rs2, 0)
      /\ ctrl_vector' = [NoCtrl EXCEPT !.trig = TRUE, !.mulw = TRUE, !.opa = "zero", !.opb = "zero"]
  BY DEF StartMac, Latch, NextCtrl
<1>4. rf' = atIssue.rf /\ dp'.rs1 = Src(ir.rs1, 0) /\ dp'.rs2 = Src(ir.rs2, 0)
  BY <1>1, StartData DEF Context, Src
<1>5. 0 \div 4 = 0 /\ (0 + 1) \div 4 = 0 /\ 0 % 2 = 0 /\ (0 \div 2) % 2 = 0
  OBVIOUS
<1>6. ctrl_vector' = [NoCtrl EXCEPT !.mulw = TRUE, !.trig = 0 <= Last, !.wb = 0 = Last + 1,
                        !.byte = 0 % 2, !.word = (0 \div 2) % 2,
                        !.opa = IF 0 >= 2 THEN "acc" ELSE "zero",
                        !.opb = IF 0 >= 2 THEN "cp" ELSE "zero"]
  <2>1. (0 <= Last) = TRUE /\ (0 = Last + 1) = FALSE /\ (0 >= 2) = FALSE
    BY <1>2
  <2>. DEFINE a == [NoCtrl EXCEPT !.trig = TRUE, !.mulw = TRUE, !.opa = "zero", !.opb = "zero"]
              b == [NoCtrl EXCEPT !.mulw = TRUE, !.trig = TRUE, !.wb = FALSE, !.byte = 0, !.word = 0,
                                  !.opa = "zero", !.opb = "zero"]
  <2>2. a = b
    <3>1. a \in CtrlType /\ b \in CtrlType
      BY NoCtrlType, CtrlUpdate, CtrlSelect
    <3>2. /\ a.rd = b.rd /\ a.wr = b.wr /\ a.mo = b.mo /\ a.wb = b.wb /\ a.vwe = b.vwe
          /\ a.zero = b.zero /\ a.mux = b.mux /\ a.opa = b.opa /\ a.opb = b.opb
          /\ a.alu = b.alu /\ a.trig = b.trig /\ a.mulw = b.mulw /\ a.byte = b.byte
          /\ a.word = b.word /\ a.mem = b.mem /\ a.size = b.size
      BY DEF NoCtrl
    <3>. HIDE DEF a, b
    <3>. QED BY <3>1, <3>2 DEF CtrlType
  <2>. QED BY <1>3, <1>5, <2>1, <2>2
<1>7. AccumulatingAt(0)'
  <2>. HIDE DEF Last
  <2>1. Last' = Last /\ \A r, j : Src(r, j)' = Src(r, j)
    BY DEF Last, Src
  <2>2. Untouched'
    BY <1>4 DEF Untouched
  <2>. QED BY <1>1, <1>2, <1>3, <1>4, <1>5, <1>6, <2>1, <2>2 DEF AccumulatingAt
<1>. QED BY <1>2, <1>7 DEF Accumulating, Last

(* The adder holds the sum of the products before the one in the pipeline.  *)
LEMMA Accumulated ==
  ASSUME Context, switch, ir.op = "vmac", NEW c \in 1 .. Last + 1, AccumulatingAt(c)
  PROVE  add_o = SumTo(ir, atIssue.rf, Last, c - 1)
<1>1. Last \in Nat
  BY ContextFacts DEF Counter
<1>2. CASE c = 1
  <2>1. ctrl_vector.opa = "zero" /\ ctrl_vector.opb = "zero"
    BY <1>2 DEF AccumulatingAt, NoCtrl
  <2>2. add_o = Zero
    BY <2>1 DEF add_o, opa, opb, out, Add, Zero, Scalar
  <2>. QED BY <1>1, <1>2, <2>2, SumSteps
<1>3. CASE c >= 2
  <2>1. ctrl_vector.opa = "acc" /\ ctrl_vector.opb = "cp"
    BY <1>3 DEF AccumulatingAt, NoCtrl
  <2>2. add_o = Add(dp.acc, dp.prod)
    BY <2>1 DEF add_o, opa, opb, out, cp_res
  <2>3. dp.prod = Prod(ir, atIssue.rf, c - 2) /\ dp.acc = SumTo(ir, atIssue.rf, Last, c - 2)
    BY <1>3 DEF AccumulatingAt
  <2>4. c - 1 \in 1 .. Last /\ c - 1 - 1 = c - 2
    BY <1>1, <1>3
  <2>5. SumTo(ir, atIssue.rf, Last, c - 1)
          = Add(SumTo(ir, atIssue.rf, Last, c - 1 - 1), Prod(ir, atIssue.rf, c - 1 - 1))
    <3>. DEFINE d == c - 1
    <3>1. d \in 1 .. Last
      BY <2>4
    <3>. HIDE DEF d
    <3>2. SumTo(ir, atIssue.rf, Last, d) = Add(SumTo(ir, atIssue.rf, Last, d - 1), Prod(ir, atIssue.rf, d - 1))
      BY <1>1, <3>1, SumSteps
    <3>. QED BY <3>2 DEF d
  <2>. QED BY <2>2, <2>3, <2>4, <2>5
<1>. QED BY <1>2, <1>3

(* Every clock adds the product that left the multiplier.                   *)
LEMMA AccumulatingStep ==
  ASSUME Context, switch, ir.op = "vmac", Accumulating, VMac, NEW answer, Datapath(answer),
         ir' = ir, atIssue' = atIssue
  PROVE  Accumulating'
<1>0. v.state = "S_MAC" /\ v \in VectorType /\ csr_vl = Last /\ Last \in Nat /\ Last <= 127
  BY TypeFacts, ContextFacts DEF VMac, VectorTypes, Counter, Context
<1>1. PICK c \in 0 .. Last + 1 : AccumulatingAt(c)
  BY DEF Accumulating
<1>2. c \in Nat /\ c <= Last /\ v.c2 = c /\ c + 1 \in 0 .. Last + 1
  BY <1>0, <1>1 DEF AccumulatingAt
<1>3. ctrl_vector = [NoCtrl EXCEPT !.mulw = TRUE, !.trig = c <= Last, !.wb = c = Last + 1,
                        !.byte = c % 2, !.word = (c \div 2) % 2,
                        !.opa = IF c >= 2 THEN "acc" ELSE "zero",
                        !.opb = IF c >= 2 THEN "cp" ELSE "zero"]
  BY <1>1 DEF AccumulatingAt
<1>4. /\ ctrl_vector.trig /\ ctrl_vector.mulw /\ ~ctrl_vector.zero /\ ~ctrl_vector.wb /\ ~ctrl_vector.vwe
      /\ ctrl_vector.byte = c % 2 /\ ctrl_vector.word = (c \div 2) % 2
  <2>1. c # Last + 1
    BY <1>0, <1>2
  <2>. QED BY <1>2, <1>3, <2>1 DEF NoCtrl
<1>5. /\ v'.state = IF c >= Last THEN "S_IDLE" ELSE "S_MAC"
      /\ v'.c2 = Count(c + 1) /\ v'.rd = v.rd
      /\ v'.rs1 = RegAdd(v.rs1, IF c % 4 = 2 THEN 1 ELSE 0)
      /\ v'.rs2 = RegAdd(v.rs2, IF c % 4 = 2 THEN 1 ELSE 0)
  BY <1>0, <1>2 DEF VMac, VectorType
<1>6. \/ v'.state = "S_MAC" /\ v'.c2 = c + 1 /\ c + 1 <= Last
      \/ v'.state = "S_IDLE" /\ c + 1 = Last + 1
  BY <1>0, <1>2, <1>5 DEF Count
<1>7. ctrl_vector' = [NoCtrl EXCEPT !.mulw = TRUE, !.trig = c + 1 <= Last, !.wb = c + 1 = Last + 1,
                        !.byte = (c + 1) % 2, !.word = ((c + 1) \div 2) % 2,
                        !.opa = IF c + 1 >= 2 THEN "acc" ELSE "zero",
                        !.opb = IF c + 1 >= 2 THEN "cp" ELSE "zero"]
  <2>1. ctrl_vector' = [NoCtrl EXCEPT
                !.mulw = TRUE, !.trig = ~(c >= Last), !.wb = c >= Last,
                !.byte = 1 - ctrl_vector.byte,
                !.word = IF c % 2 = 1 THEN 1 - ctrl_vector.word ELSE ctrl_vector.word,
                !.opa = IF c >= 1 THEN "acc" ELSE "zero",
                !.opb = IF c >= 1 THEN "cp" ELSE "zero"]
    BY <1>0, <1>2 DEF VMac, NextCtrl
  <2>2. (~(c >= Last)) = (c + 1 <= Last) /\ (c >= Last) = (c + 1 = Last + 1)
    BY <1>0, <1>2
  <2>3. /\ 1 - (c % 2) = (c + 1) % 2
        /\ (IF c % 2 = 1 THEN 1 - ((c \div 2) % 2) ELSE (c \div 2) % 2) = ((c + 1) \div 2) % 2
    BY <1>2
  <2>4. (c >= 1) = (c + 1 >= 2)
    BY <1>2
  <2>. QED BY <1>4, <2>1, <2>2, <2>3, <2>4
<1>8. c + 1 <= Last => /\ v'.rs1 = Reg(ir.rs1, (c + 1 + 1) \div 4)
                       /\ v'.rs2 = Reg(ir.rs2, (c + 1 + 1) \div 4)
  <2>1. v.rs1 = Reg(ir.rs1, (c + 1) \div 4) /\ v.rs2 = Reg(ir.rs2, (c + 1) \div 4)
    BY <1>1, <1>2 DEF AccumulatingAt
  <2>2. (c + 1) \div 4 \in Nat
        /\ (c + 1 + 1) \div 4 = IF c % 4 = 2 THEN (c + 1) \div 4 + 1 ELSE (c + 1) \div 4
    BY <1>2
  <2>. DEFINE d == (c + 1) \div 4
  <2>3. CASE c % 4 = 2
    <3>1. RegAdd(Reg(ir.rs1, d), 1) = Reg(ir.rs1, d + 1) /\ RegAdd(Reg(ir.rs2, d), 1) = Reg(ir.rs2, d + 1)
      BY <2>2, ContextFacts, RegNext
    <3>. QED BY <1>5, <2>1, <2>2, <2>3, <3>1
  <2>4. CASE c % 4 # 2
    <3>1. RegAdd(v.rs1, 0) = v.rs1 /\ RegAdd(v.rs2, 0) = v.rs2
      BY TypeFacts, NumRegsAssumption DEF RegAdd, Regs, Context
    <3>. QED BY <1>5, <2>1, <2>2, <2>4, <3>1
  <2>. QED BY <2>3, <2>4
<1>9. rf' = atIssue.rf
  <2>1. rfNext = rf /\ rf' = rfNext
    BY <1>4, DataStep, NoWrite
  <2>. QED BY <1>1, <2>1 DEF AccumulatingAt, Untouched
<1>10. c + 1 < Last => dp'.rs1 = Src(ir.rs1, (c + 1) \div 4) /\ dp'.rs2 = Src(ir.rs2, (c + 1) \div 4)
  BY <1>1, <1>2, <1>4, DataStep DEF AccumulatingAt, Untouched, Src
<1>11. c + 1 \in 1 .. Last => dp'.dsp = Prod(ir, atIssue.rf, c + 1 - 1)
  <2>. SUFFICES ASSUME c + 1 \in 1 .. Last PROVE dp'.dsp = Prod(ir, atIssue.rf, c + 1 - 1)
    OBVIOUS
  <2>1. c < Last /\ c + 1 - 1 = c
    BY <1>0, <1>2
  <2>2. 2 * ((c \div 2) % 2) + (c % 2) = c % 4
    BY <1>2
  <2>3. dp'.dsp = MulByte(dp.rs1, dp.rs2, c % 4)
    BY <1>4, <2>2, DataStep
  <2>4. dp.rs1 = Src(ir.rs1, c \div 4) /\ dp.rs2 = Src(ir.rs2, c \div 4)
    BY <1>1, <2>1 DEF AccumulatingAt
  <2>. QED BY <2>1, <2>3, <2>4 DEF Prod, Src
<1>12. c + 1 >= 2 => /\ dp'.prod = Prod(ir, atIssue.rf, c + 1 - 2)
                     /\ dp'.acc = SumTo(ir, atIssue.rf, Last, c + 1 - 2)
  <2>. SUFFICES ASSUME c + 1 >= 2
                PROVE  /\ dp'.prod = Prod(ir, atIssue.rf, c + 1 - 2)
                       /\ dp'.acc = SumTo(ir, atIssue.rf, Last, c + 1 - 2)
    OBVIOUS
  <2>1. c \in 1 .. Last /\ c \in 1 .. Last + 1 /\ c + 1 - 2 = c - 1
    BY <1>0, <1>2
  <2>2. dp.dsp = Prod(ir, atIssue.rf, c - 1)
    BY <1>1, <2>1 DEF AccumulatingAt
  <2>. QED BY <1>1, <1>4, <2>1, <2>2, DataStep, Accumulated
<1>13. v'.rd = ir.rd
  BY <1>1, <1>5 DEF AccumulatingAt
<1>14. AccumulatingAt(c + 1)'
  <2>. HIDE DEF Last
  <2>1. Last' = Last /\ \A r, j : Src(r, j)' = Src(r, j)
    BY DEF Last, Src
  <2>2. Untouched'
    BY <1>9 DEF Untouched
  <2>. QED BY <1>6, <1>7, <1>8, <1>10, <1>11, <1>12, <1>13, <2>1, <2>2 DEF AccumulatingAt
<1>. QED BY <1>2, <1>14 DEF Accumulating, Last

(* A dot product that has gone idle has written the sum of all of them.     *)
LEMMA AccumulatingOver ==
  ASSUME Context, switch, ir.op = "vmac", Accumulating, v.state = "S_IDLE"
  PROVE  Over
<1>1. PICK c \in 0 .. Last + 1 : AccumulatingAt(c)
  BY DEF Accumulating
<1>2. DestOf = 1 /\ Last \in Nat
  BY ContextFacts DEF DestOf, DestCount, Counter
<1>3. c \in 1 .. Last + 1 /\ c = Last + 1 /\ c - 1 = Last
  BY <1>1, <1>2 DEF AccumulatingAt
<1>4. ctrl_vector.wb /\ ~ctrl_vector.zero /\ ctrl_vector.mux = "alu" /\ ctrl_vector.alu = "add"
  BY <1>1, <1>3 DEF AccumulatingAt, NoCtrl
<1>5. wdata = add_o
  BY <1>4 DEF wdata, aluRes, out
<1>6. Wanted(ir, atIssue.rf, Last, wdata, 0)
  BY <1>1, <1>3, <1>5, Accumulated DEF Wanted
<1>7. v.rd = Reg(ir.rd, 0) /\ DoneOf(rf, 0)
  BY <1>1, ContextFacts, RegZero, DoneStart DEF AccumulatingAt, Untouched
<1>8. DoneOf(rfNext, 0 + 1)
  BY <1>2, <1>4, <1>6, <1>7, WriteWanted
<1>. QED BY <1>2, <1>8 DEF Over

-----------------------------------------------------------------------------
(* The vector length                                                        *)

(* Setting the vector length starts by reading its register.                *)
LEMMA SettingStart ==
  ASSUME Context, Data, ex = "EXECUTE", StartCsr, NEW answer, Datapath(answer),
         ir' = ir, atIssue' = atIssue
  PROVE  Setting'
<1>1. /\ v'.state = "S_VECTOR_CSR" /\ v'.rs1 = ir.rd /\ v'.mop = TRUE
      /\ ctrl_vector' = NoCtrl
  BY TypeFacts DEF StartCsr, NextCtrl, VectorTypes, VectorType, Context
<1>. QED BY <1>1, StartData DEF Context, Setting, Untouched

(* And loads csr_vl with what was read.                                     *)
LEMMA SettingStep ==
  ASSUME Context, switch, Setting, VectorCsr, NEW answer, Datapath(answer),
         ir' = ir, atIssue' = atIssue
  PROVE  Setting'
<1>1. /\ v.state = "S_VECTOR_CSR" /\ v'.mop = FALSE /\ v'.rs1 = v.rs1
      /\ v'.state = IF v.mop THEN "S_VECTOR_CSR" ELSE "S_IDLE"
      /\ ctrl_vector' = NoCtrl /\ csr_vl' = Count(Num(dp.rs1))
  BY TypeFacts DEF VectorCsr, NextCtrl, VectorTypes, VectorType, Context
<1>2. ~ctrl_vector.wb /\ ~ctrl_vector.vwe /\ ~ctrl_vector.zero
  BY DEF Setting, NoCtrl
<1>3. rf' = atIssue.rf /\ dp'.rs1 = rf[v.rs1]
  BY <1>2, DataStep, NoWrite DEF Setting, Untouched
<1>. QED BY <1>1, <1>3 DEF Setting, Untouched

(* When the engine is idle again, csr_vl is the new length.                 *)
LEMMA SettingOver ==
  ASSUME Context, switch, ir.op = "vcsr", Setting, v.state = "S_IDLE"
  PROVE  Over
<1>1. DestOf = 0
  BY DEF DestOf, DestCount
<1>2. ~ctrl_vector.wb /\ ~ctrl_vector.vwe /\ ~ctrl_vector.zero
  BY DEF Setting, NoCtrl
<1>3. DoneOf(rfNext, 0)
  BY <1>2, NoWrite, DoneStart DEF Setting, Untouched
<1>. QED BY <1>1, <1>3 DEF Over, Setting

-----------------------------------------------------------------------------
(* Accesses to memory                                                       *)

(* A step in the middle of an operation.                                    *)
LEMMA MovingFacts ==
  ASSUME NEW answer, Moving(answer)
  PROVE  /\ switch /\ out = ctrl_vector /\ rdA = v.rd /\ rs1A = v.rs1 /\ rs2A = v.rs2
         /\ start = IF ir.op = "vcsr" THEN "mac" ELSE Kind
         /\ v \in VectorType /\ TypeInv /\ Context /\ Last \in Nat /\ Last <= 127
         /\ rf' = rfNext /\ dp'.rs2 = rf[v.rs2] /\ dp'.acc = add_o /\ dp'.vbuf = LoadReg(answer, dp.vbuf)
         /\ Last' = Last /\ Start' = Start /\ DestOf' = DestOf /\ Offset' = Offset
         /\ \A k : Elem(k)' = Elem(k)
         /\ \A r, k : Src(r, k)' = Src(r, k)
         /\ \A k : DoneOf(rf, k)' <=> DoneOf(rf', k)
<1>1. switch
  BY DEF Moving, Data, Working
<1>2. start = IF ir.op = "vcsr" THEN "mac" ELSE Kind
  BY DEF Moving, start
<1>3. v \in VectorType /\ TypeInv /\ Context /\ Last \in Nat /\ Last <= 127
  BY TypeFacts, ContextFacts DEF Moving, VectorTypes, Context, Counter
<1>4. out = ctrl_vector /\ rdA = v.rd /\ rs1A = v.rs1 /\ rs2A = v.rs2
  BY <1>1 DEF out, rdA, rs1A, rs2A
<1>5. rf' = rfNext /\ dp'.rs2 = rf[v.rs2] /\ dp'.acc = add_o /\ dp'.vbuf = LoadReg(answer, dp.vbuf)
  BY <1>4 DEF Moving, Datapath
<1>6. ir' = ir /\ atIssue' = atIssue
  BY DEF Moving
<1>. QED BY <1>1, <1>2, <1>3, <1>4, <1>5, <1>6 DEF Last, Start, DestOf, Offset, Elem, Src, DoneOf

(* The bus registers and the memory in such a step.                         *)
LEMMA MovingBus ==
  ASSUME NEW answer, Moving(answer)
  PROVE  /\ ctrl_vector.mo =>
              /\ bus'.mar = IF ctrl_vector.mem = "unit" THEN Word(addr) ELSE addr
              /\ bus'.mis = (ctrl_vector.mem # "unit" /\ Misaligned(addr, ctrl_vector.size))
              /\ bus'.wdata = dp.rs2 /\ bus'.size = ctrl_vector.size
         /\ ~ctrl_vector.mo =>
              bus'.mar = bus.mar /\ bus'.mis = bus.mis /\ bus'.wdata = bus.wdata /\ bus'.size = bus.size
         /\ answer # "ack" \/ ir.op # "vstore" => stored' = stored
         /\ answer = "ack" =>
              /\ v.state \in WaitStates /\ ~Faulty(bus.mar)
              /\ ir.op = "vstore" => stored' = Append(stored, <<bus.mar, bus.size, bus.wdata>>)
<1>1. out = ctrl_vector
  BY MovingFacts
<1>2. /\ bus'.mar = IF ~out.mo THEN bus.mar ELSE IF out.mem = "unit" THEN Word(addr) ELSE addr
      /\ bus'.mis = IF ~out.mo THEN bus.mis ELSE out.mem # "unit" /\ Misaligned(addr, out.size)
      /\ bus'.wdata = IF out.mo THEN dp.rs2 ELSE bus.wdata
      /\ bus'.size = IF out.mo THEN out.size ELSE bus.size
      /\ stored' = IF slave = "wr" /\ answer = "ack"
                   THEN Append(stored, <<bus.mar, bus.size, bus.wdata>>) ELSE stored
  BY DEF Moving, BusUnit
<1>3. answer = "ack" => slave # "idle" /\ ~Faulty(bus.mar)
  BY DEF Moving, MayAnswer
<1>4. slave # "idle" => bus.pend
  BY DEF Moving, Handshake, Pending
<1>5. bus.pend => v.state \in WaitStates /\ bus.rw = (ir.op = "vstore")
  BY DEF Moving, Handshake, EngineRuns, Pending, TrapStates
<1>6. (slave = "wr" => bus.rw) /\ (slave = "rd" => ~bus.rw) /\ slave \in {"idle", "rd", "wr"}
  BY DEF Moving, Data, Accesses, Context, TypeInv, TypeOK
<1>. QED BY <1>1, <1>2, <1>3, <1>4, <1>5, <1>6

(* The number in a pointer.                                                 *)
LEMMA PointsNum == ASSUME NEW w, NEW a, Points(w, a) PROVE Num(w) = a
BY DEF Points, Num

(* An integer added to a pointer moves it.                                  *)
LEMMA PointsAdd ==
  ASSUME NEW w, NEW a \in Int, Points(w, a), NEW n \in Int, NEW z, Points(z, n)
  PROVE  Points(Add(w, z), a + n)
BY DEF Points, Add, Scalar

(* A scalar points where its value says.                                    *)
LEMMA ScalarPoints == ASSUME NEW n PROVE Points(Scalar(n), n)
BY DEF Points, Scalar

(* The address that the accumulator keeps, or moves on by a word.           *)
LEMMA AddressHeld ==
  ASSUME NEW answer, Moving(answer), NEW a \in Int, Points(add_o, a),
         switch', ctrl_vector'.opa = "acc"
  PROVE  /\ ctrl_vector'.opb = "zero" => Points(add_o', a)
         /\ ctrl_vector'.opb = "imm" => Points(add_o', a + 4)
<1>1. opa' = add_o
  BY MovingFacts DEF opa, out
<1>2. ir'.op # "lw"
  BY DEF Moving, Data, Working
<1>3. /\ ctrl_vector'.opb = "zero" => opb' = Scalar(0)
      /\ ctrl_vector'.opb = "imm" => opb' = Scalar(4)
  BY <1>2 DEF opb, out, Zero
<1>4. add_o' = Add(add_o, opb')
  BY <1>1 DEF add_o
<1>5. Points(Scalar(0), 0) /\ Points(Scalar(4), 4)
  BY ScalarPoints
<1>6. Points(Add(add_o, Scalar(0)), a + 0) /\ Points(Add(add_o, Scalar(4)), a + 4)
  BY <1>5, PointsAdd
<1>7. a + 0 = a
  OBVIOUS
<1>. QED BY <1>3, <1>4, <1>6, <1>7

-----------------------------------------------------------------------------
(* Unit-stride accesses                                                     *)

(* The first element has an integer address.                                *)
LEMMA StartInt == ASSUME Context PROVE Start \in Int /\ Offset \in 0 .. 3
<1>1. Start \in Int
  BY ContextFacts, NumType DEF Start, Base
<1>. QED BY <1>1 DEF Offset

(* The address of word k goes from the adder to the bus.                    *)
LEMMA UnitAccessAddr ==
  ASSUME NEW answer, Moving(answer), ir.op \in {"vload", "vstore"}, ir.mode = "unit", MemAddr,
         NEW k \in Nat, UnitAccess(k)
  PROVE  /\ UnitAccess(k)' /\ v'.state = "S_MEM_REQ" /\ switch'
         /\ ~ctrl_vector'.wb /\ ctrl_vector'.mem = "unit" /\ ctrl_vector'.size = "32"
<1>1. v.state = "S_MEM_ADDR" /\ v'.state = "S_MEM_REQ" /\ switch'
  BY MovingFacts DEF MemAddr, VectorType, Hold
<1>2. start = IF ir.op = "vload" THEN "load" ELSE "store"
  BY MovingFacts DEF Kind
<1>3. ctrl_vector' = [UnitAcc EXCEPT !.rd = TRUE] \/ ctrl_vector' = [UnitAcc EXCEPT !.wr = TRUE]
  BY <1>2 DEF MemAddr, NextCtrl
<1>4. ctrl_vector.mem = "unit" /\ ctrl_vector.size = "32" /\ ctrl_vector.mo
  BY <1>1 DEF UnitAccess, MemWord
<1>5. /\ ctrl_vector'.mem = "unit" /\ ctrl_vector'.size = "32" /\ ~ctrl_vector'.wb
      /\ ~ctrl_vector'.vwe /\ ~ctrl_vector'.zero /\ ~ctrl_vector'.mo
      /\ ctrl_vector'.opa = "acc" /\ ctrl_vector'.opb = "zero"
  BY <1>3, <1>4 DEF UnitAcc, Unit, NoCtrl
<1>6. Points(add_o, Start + 4 * k) /\ Start + 4 * k \in Int
  BY MovingFacts, StartInt DEF UnitAccess
<1>7. Points(add_o', Start + 4 * k)
  BY <1>1, <1>5, <1>6, AddressHeld
<1>8. bus'.mar = Word(Start + 4 * k) /\ ~bus'.mis
  BY <1>4, <1>6, MovingBus, PointsNum DEF addr
<1>9. \A j \in 0 .. k - 1 : ~Faulty(Start + 4 * j)
  BY DEF UnitAccess
<1>. QED BY <1>1, <1>5, <1>7, <1>8, <1>9, MovingFacts DEF UnitAccess, MemWord

(* It stays there while the access is requested and waited for.             *)
LEMMA UnitAccessReq ==
  ASSUME NEW answer, Moving(answer), ir.op \in {"vload", "vstore"}, ir.mode = "unit", NEW k \in Nat, UnitAccess(k),
         \/ MemReqUnit
         \/ MemWaitUnit(answer) /\ answer # "ack"
  PROVE  /\ UnitAccess(k)' /\ v'.state = "S_MEM_WAIT" /\ switch'
         /\ ~ctrl_vector'.wb /\ ctrl_vector'.mem = "unit" /\ ctrl_vector'.size = "32"
<1>0. ~AccessError
  BY DEF Moving
<1>1. v.state \in {"S_MEM_REQ", "S_MEM_WAIT"} /\ v'.state = "S_MEM_WAIT" /\ switch'
  BY <1>0, MovingFacts DEF MemReqUnit, MemWaitUnit, VectorType, Hold
<1>2. ctrl_vector' = [UnitAcc EXCEPT !.mux = "mem"]
  BY <1>0 DEF MemReqUnit, MemWaitUnit, NextCtrl
<1>3. ctrl_vector.mem = "unit" /\ ctrl_vector.size = "32" /\ ~ctrl_vector.mo
  BY <1>1 DEF UnitAccess, MemWord
<1>4. /\ ctrl_vector'.mem = "unit" /\ ctrl_vector'.size = "32" /\ ~ctrl_vector'.wb
      /\ ~ctrl_vector'.vwe /\ ~ctrl_vector'.zero /\ ~ctrl_vector'.mo
      /\ ctrl_vector'.opa = "acc" /\ ctrl_vector'.opb = "zero"
  BY <1>2, <1>3 DEF UnitAcc, Unit, NoCtrl
<1>5. Points(add_o, Start + 4 * k) /\ Start + 4 * k \in Int
  BY MovingFacts, StartInt DEF UnitAccess
<1>6. Points(add_o', Start + 4 * k)
  BY <1>1, <1>4, <1>5, AddressHeld
<1>7. bus'.mar = Word(Start + 4 * k) /\ ~bus'.mis
  BY <1>1, <1>3, MovingBus DEF UnitAccess
<1>8. \A j \in 0 .. k - 1 : ~Faulty(Start + 4 * j)
  BY DEF UnitAccess
<1>. QED BY <1>1, <1>4, <1>6, <1>7, <1>8, MovingFacts DEF UnitAccess, MemWord

(* The answer to access k, when there is another one.                       *)
LEMMA UnitAccessNext ==
  ASSUME NEW answer, Moving(answer), ir.op \in {"vload", "vstore"}, ir.mode = "unit", NEW k \in Nat, UnitAccess(k),
         MemWaitUnit(answer), answer = "ack", v.c1 < csr_vl
  PROVE  /\ UnitAccess(k + 1)' /\ v'.state = "S_MEM_ADDR" /\ switch'
         /\ ctrl_vector'.mem = "unit" /\ ctrl_vector'.size = "32"
         /\ ctrl_vector'.wb = (ir.op = "vload" /\ (ir.size = "32" \/ v.c1 > 3))
<1>0. ~AccessError /\ ~(v.c1 >= csr_vl)
  BY TypeFacts DEF Moving, Context, VectorTypes, Counter
<1>1. start = IF ir.op = "vload" THEN "load" ELSE "store"
  BY MovingFacts DEF Kind
<1>2. v.state = "S_MEM_WAIT" /\ v'.state = "S_MEM_ADDR" /\ switch'
  BY <1>0, <1>1, MovingFacts DEF MemWaitUnit, VectorType, Hold
<1>. DEFINE more == [UnitAcc EXCEPT !.mux = "mem", !.size = "32", !.opb = "imm", !.mo = TRUE]
            full == ir.size = "32" \/ v.c1 > 3
<1>3. ctrl_vector' = IF ir.op = "vload" THEN [more EXCEPT !.mo = TRUE, !.wb = full] ELSE more
  <2>1. CASE ir.op = "vload"
    <3>1. ctrl_vector' = [more EXCEPT !.mo = ~(v.c1 >= csr_vl), !.wb = full \/ v.c1 >= csr_vl]
      BY <1>0, <1>1, <2>1 DEF MemWaitUnit, NextCtrl
    <3>2. (~(v.c1 >= csr_vl)) = TRUE /\ (full \/ v.c1 >= csr_vl) = full
      BY <1>0
    <3>. QED BY <2>1, <3>1, <3>2
  <2>2. CASE ir.op # "vload"
    BY <1>0, <1>1, <2>2 DEF MemWaitUnit, NextCtrl
  <2>. QED BY <2>1, <2>2
<1>4. full \in BOOLEAN
  OBVIOUS
<1>. HIDE DEF full
<1>5. /\ ctrl_vector'.mem = "unit" /\ ctrl_vector'.size = "32" /\ ctrl_vector'.mux = "mem"
      /\ ctrl_vector'.wb = (ir.op = "vload" /\ full)
      /\ ~ctrl_vector'.vwe /\ ~ctrl_vector'.zero /\ ctrl_vector'.mo
      /\ ctrl_vector'.opa = "acc" /\ ctrl_vector'.opb = "imm"
  BY <1>3, <1>4 DEF UnitAcc, Unit, NoCtrl
<1>6. Points(add_o, Start + 4 * k) /\ Start + 4 * k \in Int /\ Start + 4 * (k + 1) = Start + 4 * k + 4
  BY MovingFacts, StartInt DEF UnitAccess
<1>7. Points(add_o', Start + 4 * (k + 1))
  BY <1>2, <1>5, <1>6, AddressHeld
<1>8. ~Faulty(Start + 4 * k)
  BY <1>2, <1>6, MovingBus, WordFacts DEF UnitAccess
<1>9. \A j \in 0 .. (k + 1) - 1 : ~Faulty(Start + 4 * j)
  <2>1. \A j \in 0 .. (k + 1) - 1 : j = k \/ j \in 0 .. k - 1
    OBVIOUS
  <2>. QED BY <1>8, <2>1 DEF UnitAccess
<1>. QED BY <1>2, <1>5, <1>7, <1>9, MovingFacts DEF UnitAccess, MemWord, full

(* A unit-stride access starts with word 0.                                 *)
LEMMA UnitAccessStart ==
  ASSUME Context, Data, ex = "EXECUTE", StartMem, ir.op \in {"vload", "vstore"}, ir.mode = "unit",
         NEW answer, Datapath(answer), ir' = ir, atIssue' = atIssue
  PROVE  /\ UnitAccess(0)' /\ v'.state = "S_MEM_ADDR" /\ switch' /\ ~ctrl_vector'.wb
         /\ ctrl_vector'.mem = "unit" /\ ctrl_vector'.size = "32"
<1>1. v'.state = "S_MEM_ADDR" /\ switch'
  BY DEF StartMem, Latch, Hold
<1>2. /\ ctrl_vector'.mem = "unit" /\ ctrl_vector'.size = "32" /\ ~ctrl_vector'.wb
      /\ ~ctrl_vector'.vwe /\ ~ctrl_vector'.zero /\ ctrl_vector'.mo
      /\ ctrl_vector'.opa = "rs1" /\ ctrl_vector'.opb = "zero"
  BY DEF StartMem, NextCtrl, NoCtrl
<1>3. add_o' = Add(atIssue.rf[ir.rs1], Scalar(0))
  <2>1. opa' = dp'.rs1 /\ opb' = Scalar(0)
    BY <1>1, <1>2 DEF opa, opb, out, Zero
  <2>. QED BY <2>1, StartData DEF Context, add_o
<1>4. Points(atIssue.rf[ir.rs1], Start)
  BY DEF Context, ProgramProper, Proper, IsMem, Pointer, Points, Start, Base, Num
<1>5. Points(add_o', Start + 4 * 0)
  <2>1. Start \in Int /\ Points(Scalar(0), 0) /\ Start + 0 = Start + 4 * 0
    BY StartInt, ScalarPoints
  <2>2. Points(Add(atIssue.rf[ir.rs1], Scalar(0)), Start + 0)
    BY <1>4, <2>1, PointsAdd
  <2>. QED BY <1>3, <2>1, <2>2
<1>6. Start' = Start
  BY DEF Start
<1>. QED BY <1>1, <1>2, <1>5, <1>6 DEF UnitAccess, MemWord

-----------------------------------------------------------------------------
(* Unit-stride stores                                                       *)

(* The element that an aligned store puts into memory.                      *)
LEMMA UnitStoreElem ==
  ASSUME Context, ir.op = "vstore", ir.mode = "unit", NEW k \in Nat
  PROVE  Word(Start + 4 * k) = Elem(k) /\ StoreSize(ir) = "32"
<1>1. Start % 4 = 0
  BY DEF Context, ProgramProper, Proper, IsMem, UnitProper, Start
<1>2. Start \in Int
  BY StartInt
<1>3. (Start + 4 * k) % 4 = 0
  BY <1>1, <1>2
<1>4. Word(Start + 4 * k) = Start + 4 * k
  BY <1>2, <1>3 DEF Word
<1>5. Elem(k) = Start + k * 4
  BY DEF Elem, ElemAddr, Start
<1>. QED BY <1>2, <1>4, <1>5 DEF StoreSize

(* One more element is in memory.                                           *)
LEMMA StoredNext ==
  ASSUME Context, NEW k \in Nat, Stored(k),
         stored' = Append(stored, <<Elem(k), StoreSize(ir), Src(ir.rs2, k)>>)
  PROVE  stored' = atIssue.stored \o StoresTo(ir, atIssue.rf, k + 1)
<1>1. IsList(atIssue.stored)
  BY DEF Context, AtIssue
<1>. QED BY <1>1, StoresNext DEF Stored, Elem, Src

(* The registers of a store do not change while it runs.                    *)
LEMMA UntouchedStep ==
  ASSUME NEW answer, Moving(answer), Untouched,
         ~ctrl_vector.wb, ~ctrl_vector.vwe, ~ctrl_vector.zero
  PROVE  Untouched'
BY MovingFacts, NoWrite DEF Untouched, Moving

(* A unit-stride store starts with nothing stored.                          *)
LEMMA StoringUnitStart ==
  ASSUME Context, Data, ex = "EXECUTE", StartMem, ir.op = "vstore", ir.mode = "unit",
         NEW answer \in Answers, Datapath(answer), BusUnit(answer), MayAnswer(answer), Handshake,
         ir' = ir, atIssue' = atIssue
  PROVE  StoringUnit'
<1>1. UnitAccess(0)' /\ v'.state = "S_MEM_ADDR" /\ ~ctrl_vector'.wb
  BY UnitAccessStart
<1>2. start = "store"
  BY DEF start, Kind
<1>3. v'.c1 = 0 /\ v'.rs2 = RegAdd(ir.rs2, 0) /\ ~v'.mop
  BY <1>2 DEF StartMem, Latch, Loading
<1>4. RegAdd(ir.rs2, 0) = Reg(ir.rs2, 0) /\ Reg(ir.rs2, 0) = ir.rs2
  BY ContextFacts, RegZero DEF RegAdd, Reg
<1>5. rf' = atIssue.rf /\ dp'.rs2 = Src(ir.rs2, 0)
  BY <1>4, StartData DEF Context, Src
<1>6. stored' = stored /\ stored = atIssue.stored
  <2>1. slave # "wr"
    BY DEF Handshake, Pending, TrapStates
  <2>. QED BY <2>1 DEF BusUnit, Data, Accesses
<1>7. Stored(0)
  BY <1>6, StoresNone DEF Stored, Context, AtIssue
<1>8. Stored(0)'
  BY <1>6, <1>7 DEF Stored
<1>9. Last' = Last /\ Last \in Nat /\ Last >= 1 /\ \A r, j : Src(r, j)' = Src(r, j)
  BY ContextFacts DEF Last, Src, Counter
<1>. HIDE DEF Last
<1>10. StoringUnitAt(0)'
  BY <1>1, <1>3, <1>4, <1>5, <1>8, <1>9 DEF StoringUnitAt
<1>11. ~ctrl_vector'.vwe /\ ~ctrl_vector'.zero
  BY <1>1 DEF UnitAccess, MemWord
<1>12. 0 \in 0 .. Last' - 1
  BY <1>9
<1>. QED BY <1>1, <1>3, <1>5, <1>10, <1>11, <1>12 DEF StoringUnit, Untouched

(* Every clock of a unit-stride store, among them the answers, each of      *)
(* which is one store.                                                      *)
LEMMA StoringUnitStep ==
  ASSUME NEW answer, Moving(answer), ir.op = "vstore", ir.mode = "unit", StoringUnit,
         MemAddr \/ MemReqUnit \/ MemWaitUnit(answer)
  PROVE  StoringUnit'
<1>0. /\ v \in VectorType /\ Context /\ Last \in Nat /\ Last <= 127 /\ csr_vl = Last
      /\ Last' = Last /\ \A r, j : Src(r, j)' = Src(r, j)
      /\ Untouched /\ ~v.mop /\ ~AccessError /\ start = "store"
  BY MovingFacts, ContextFacts DEF Moving, StoringUnit, Kind
<1>. HIDE DEF Last
<1>1. Untouched'
  BY UntouchedStep DEF StoringUnit
<1>2. v.state \in {"S_MEM_ADDR", "S_MEM_REQ", "S_MEM_WAIT"}
  BY DEF MemAddr, MemReqUnit, MemWaitUnit
<1>3. PICK k \in 0 .. Last - 1 : StoringUnitAt(k)
  BY <1>2 DEF StoringUnit
<1>4. k \in Nat /\ UnitAccess(k) /\ Stored(k)
  BY <1>3 DEF StoringUnitAt
<1>5. /\ Reg(ir.rs2, k + 1) = RegAdd(Reg(ir.rs2, k), 1)
      /\ Reg(ir.rs2, k + 1) \in Regs /\ Reg(ir.rs2, k) \in Regs /\ ir.rs2 \in Regs
  <2>1. k + 1 \in Nat /\ ir.rs2 \in Regs
    BY <1>0, <1>4, ContextFacts
  <2>. QED BY <1>4, <2>1, RegNext, RegIn
<1>6. answer # "ack" => Stored(k)'
  BY <1>4, MovingBus DEF Stored, Moving
<1>7. answer = "ack" => v.state \in WaitStates
  BY MovingBus
<1>8. CASE MemAddr
  <2>1. UnitAccess(k)' /\ v'.state = "S_MEM_REQ" /\ ~ctrl_vector'.wb /\ v.state = "S_MEM_ADDR"
    BY <1>4, <1>8, UnitAccessAddr DEF MemAddr
  <2>2. v' = [v EXCEPT !.state = "S_MEM_REQ", !.rd = v.rd]
    BY <1>0, <1>8 DEF MemAddr
  <2>3. v'.c1 = v.c1 /\ v'.rs2 = v.rs2 /\ ~v'.mop
    BY <1>0, <2>2 DEF VectorType
  <2>4. bus'.wdata = Src(ir.rs2, k) /\ bus'.size = "32"
    BY <1>3, <2>1, MovingBus DEF StoringUnitAt, UnitAccess, MemWord
  <2>5. StoringUnitAt(k)'
    BY <1>0, <1>3, <1>6, <1>7, <2>1, <2>3, <2>4 DEF StoringUnitAt, WaitStates, Moving
  <2>. QED BY <1>0, <1>1, <2>1, <2>3, <2>5 DEF StoringUnit, UnitAccess, MemWord
<1>9. CASE MemReqUnit
  <2>1. UnitAccess(k)' /\ v'.state = "S_MEM_WAIT" /\ ~ctrl_vector'.wb /\ v.state = "S_MEM_REQ"
    BY <1>4, <1>9, UnitAccessReq DEF MemReqUnit
  <2>2. v'.c1 = Count(v.c1 + 1) /\ v'.rs2 = RegAdd(v.rs2, 1) /\ ~v'.mop
    BY <1>0, <1>9 DEF MemReqUnit, VectorType
  <2>3. v'.c1 = k + 1 /\ v'.rs2 = Reg(ir.rs2, k + 1)
    BY <1>0, <1>3, <1>5, <2>1, <2>2 DEF StoringUnitAt, Count
  <2>4. bus'.wdata = Src(ir.rs2, k) /\ bus'.size = "32"
    BY <1>3, <2>1, MovingBus DEF StoringUnitAt, UnitAccess, MemWord
  <2>5. StoringUnitAt(k)'
    BY <1>0, <1>3, <1>6, <1>7, <2>1, <2>3, <2>4 DEF StoringUnitAt, WaitStates, Moving
  <2>. QED BY <1>0, <1>1, <2>1, <2>2, <2>5 DEF StoringUnit, UnitAccess, MemWord
<1>10. CASE MemWaitUnit(answer) /\ answer # "ack"
  <2>0. v.state = "S_MEM_WAIT"
    BY <1>10 DEF MemWaitUnit
  <2>1. UnitAccess(k)' /\ v'.state = "S_MEM_WAIT" /\ ~ctrl_vector'.wb /\ v.state = "S_MEM_WAIT"
    BY <1>0, <1>4, <1>10, <2>0, UnitAccessReq
  <2>2. v' = v
    BY <1>0, <1>10 DEF MemWaitUnit
  <2>4. bus'.wdata = Src(ir.rs2, k) /\ bus'.size = "32"
    BY <1>3, <2>1, MovingBus DEF StoringUnitAt, UnitAccess, MemWord
  <2>5. StoringUnitAt(k)'
    BY <1>0, <1>3, <1>6, <1>10, <2>1, <2>2, <2>4 DEF StoringUnitAt, Moving
  <2>. QED BY <1>0, <1>1, <2>1, <2>2, <2>5 DEF StoringUnit, UnitAccess, MemWord
<1>11. CASE MemWaitUnit(answer) /\ answer = "ack"
  <2>0. v.state = "S_MEM_WAIT" /\ v.c1 = k + 1 /\ v.rs2 = Reg(ir.rs2, k + 1)
        /\ bus.mar = Word(Start + 4 * k) /\ bus.size = "32" /\ bus.wdata = Src(ir.rs2, k)
    BY <1>3, <1>11 DEF MemWaitUnit, StoringUnitAt, UnitAccess
  <2>1. stored' = Append(stored, <<Elem(k), StoreSize(ir), Src(ir.rs2, k)>>)
    BY <1>0, <1>4, <1>11, <2>0, MovingBus, UnitStoreElem
  <2>2. Stored(k + 1)'
    BY <1>0, <1>4, <2>1, StoredNext DEF Stored, Moving
  <2>3. CASE v.c1 >= csr_vl
    <3>1. k + 1 = Last
      BY <1>0, <2>0, <2>3
    <3>2. v' = [v EXCEPT !.state = "S_IDLE", !.c1 = 0, !.mop = FALSE]
          /\ ctrl_vector' = [UnitAcc EXCEPT !.mux = "mem"]
      BY <1>0, <1>11, <2>3 DEF MemWaitUnit, NextCtrl
    <3>3. v'.state = "S_IDLE" /\ ~v'.mop
      BY <1>0, <3>2 DEF VectorType
    <3>4. ~ctrl_vector'.wb /\ ~ctrl_vector'.vwe /\ ~ctrl_vector'.zero
      BY <3>2 DEF UnitAcc, Unit, NoCtrl
    <3>. QED BY <1>0, <1>1, <2>2, <3>1, <3>3, <3>4 DEF StoringUnit
  <2>4. CASE ~(v.c1 >= csr_vl)
    <3>1. k + 1 \in 0 .. Last - 1 /\ v.c1 < csr_vl
      BY <1>0, <2>0, <2>4
    <3>2. UnitAccess(k + 1)' /\ v'.state = "S_MEM_ADDR" /\ ~ctrl_vector'.wb
      BY <1>0, <1>4, <1>11, <3>1, UnitAccessNext
    <3>3. v' = [v EXCEPT !.state = "S_MEM_ADDR", !.c1 = v.c1, !.mop = FALSE]
      BY <1>0, <1>11, <2>4 DEF MemWaitUnit
    <3>4. v'.c1 = k + 1 /\ v'.rs2 = Reg(ir.rs2, k + 1) /\ ~v'.mop
      BY <1>0, <2>0, <3>3 DEF VectorType
    <3>5. dp'.rs2 = Src(ir.rs2, k + 1)
      BY <1>0, <2>0, MovingFacts DEF Untouched, Src
    <3>6. ir' = ir
      BY DEF Moving
    <3>7. StoringUnitAt(k + 1)'
      BY <1>0, <2>2, <3>2, <3>4, <3>5, <3>6 DEF StoringUnitAt
    <3>. QED BY <1>0, <1>1, <3>1, <3>2, <3>4, <3>7 DEF StoringUnit, UnitAccess, MemWord
  <2>. QED BY <2>3, <2>4
<1>. QED BY <1>8, <1>9, <1>10, <1>11

(* Stores write no register.                                                *)
LEMMA StoringOver ==
  ASSUME Context, switch, ir.op = "vstore", Untouched, Stored(Last),
         ~ctrl_vector.wb, ~ctrl_vector.vwe, ~ctrl_vector.zero
  PROVE  Over
<1>1. DestOf = 0
  BY DEF DestOf, DestCount
<1>. QED BY <1>1, NoWrite, DoneStart DEF Over, Untouched

-----------------------------------------------------------------------------
(* Unit-stride loads: the bytes that the buffer collects                    *)

(* Bytes of memory, from the first of group m on.                           *)
LEMMA RunFacts ==
  ASSUME Context, NEW m \in Nat, NEW len \in Nat
  PROVE  /\ Run(m, len) \in Seq(Int) /\ Len(Run(m, len)) = len
         /\ \A j \in 1 .. len : Run(m, len)[j] = Start + 4 * m + j - 1
         /\ \A n \in 0 .. len : SubSeq(Run(m, len), 1, n) = Run(m, n)
         /\ len >= 4 => SubSeq(Run(m, len), 5, len) = Run(m + 1, len - 4)
         /\ len <= 4 => SubSeq(Run(m, len), 5, len) = << >>
         /\ Run(m, 0) = << >>
<1>. DEFINE r == Run(m, len)
<1>0. Start \in Int
  BY StartInt
<1>1. r = [j \in 1 .. len |-> Start + 4 * m + j - 1]
  BY DEF Run
<1>2. \A j \in 1 .. len : Start + 4 * m + j - 1 \in Int
  BY <1>0
<1>3. r \in Seq(Int) /\ Len(r) = len /\ \A j \in 1 .. len : r[j] = Start + 4 * m + j - 1
  BY <1>1, <1>2
<1>. HIDE DEF r
<1>4. ASSUME NEW n \in 0 .. len PROVE SubSeq(r, 1, n) = Run(m, n)
  <2>1. SubSeq(r, 1, n) = [j \in 1 .. n |-> r[j]]
    BY <1>3
  <2>2. \A j \in 1 .. n : r[j] = Start + 4 * m + j - 1
    BY <1>3
  <2>. QED BY <2>1, <2>2 DEF Run
<1>5. ASSUME len >= 4 PROVE SubSeq(r, 5, len) = Run(m + 1, len - 4)
  <2>1. SubSeq(r, 5, len) = [j \in 1 .. len - 4 |-> r[j + 4]]
    BY <1>3, <1>5
  <2>2. \A j \in 1 .. len - 4 : r[j + 4] = Start + 4 * (m + 1) + j - 1
    BY <1>0, <1>3
  <2>. QED BY <2>1, <2>2 DEF Run
<1>6. ASSUME len <= 4 PROVE SubSeq(r, 5, len) = << >>
  BY <1>3, <1>6
<1>7. Run(m, 0) = << >>
  BY DEF Run
<1>. QED BY <1>3, <1>4, <1>5, <1>6, <1>7 DEF r

(* They are what register m of the group wants.                             *)
LEMMA RunWanted ==
  ASSUME Context, ir.op = "vload", ir.mode = "unit", NEW m \in Nat, NEW len \in 0 .. 4,
         \/ len = 4
         \/ ir.size = "8" /\ Last <= 4 * m + len
  PROVE  Wanted(ir, atIssue.rf, Last, Bytes(Run(m, len)), m)
<1>0. Start \in Int /\ Last \in Nat /\ ir.size \in {"8", "32"}
  BY StartInt, ContextFacts DEF Counter, Context, ProgramProper, Proper
<1>1. ASSUME NEW j \in 0 .. 3, ir.size = "8" => 4 * m + j < Last
      PROVE  j + 1 \in DOMAIN Run(m, len) /\ Run(m, len)[j + 1] = ByteOf(ir, atIssue.rf, m, j)
  <2>1. j + 1 \in 1 .. len
    BY <1>0, <1>1
  <2>2. Run(m, len)[j + 1] = Start + 4 * m + j
    BY <1>0, <2>1 DEF Run
  <2>3. ByteOf(ir, atIssue.rf, m, j) = Start + 4 * m + j
    BY <1>0 DEF ByteOf, ElemAddr, Width, Start
  <2>. QED BY <2>1, <2>2, <2>3 DEF Run
<1>2. Brings(ir, atIssue.rf, Last, Bytes(Run(m, len)), m)
  BY <1>1 DEF Brings, Bytes
<1>. QED BY <1>2 DEF Wanted

(* Bytes that are in the buffer when access k has been answered.            *)
Held(k) == 4 * (k + 1) - Offset - 4 * Full(k)

(* How many bytes the buffer holds after access k, and what that is for the *)
(* register they belong to.                                                 *)
LEMMA HeldFacts ==
  ASSUME Context, NEW k \in Nat
  PROVE  /\ Offset \in 0 .. 3 /\ Full(k) \in Nat /\ Full(k) <= k /\ Held(k) \in 1 .. 7
         /\ Held(k) >= 4 <=> Offset = 0 \/ k > 0
         /\ Held(k) > 4 <=> Offset > 0 /\ k > 0
         /\ Full(k + 1) = IF Held(k) >= 4 THEN Full(k) + 1 ELSE Full(k)
         /\ 4 * (k + 1) - Offset - 4 * Full(k + 1) = IF Held(k) >= 4 THEN Held(k) - 4 ELSE Held(k)
<1>1. Offset \in 0 .. 3
  BY StartInt
<1>. HIDE DEF Offset
<1>2. CASE Offset = 0
  BY <1>1, <1>2 DEF Held, Full
<1>3. CASE Offset > 0 /\ k = 0
  BY <1>1, <1>3 DEF Held, Full
<1>4. CASE Offset > 0 /\ k > 0
  BY <1>1, <1>4 DEF Held, Full
<1>. QED BY <1>1, <1>2, <1>3, <1>4

(* How far the counters of access k are.                                    *)
LEMMA LoadCounts ==
  ASSUME Context, ir.op = "vload", ir.mode = "unit", NEW k \in Nat, Count1(k) < Last
  PROVE  /\ ir.size \in {"8", "32"} /\ Last \in Nat /\ Last <= 127
         /\ ir.size = "8" => Last <= 124
         /\ ir.size = "32" => Offset = 0 /\ DestOf = Last
         /\ ir.size = "8" => DestOf = Groups(Last) /\ 4 * Full(k) < Last
         /\ Count1(k) \in Nat /\ Count1(k + 1) \in Nat /\ Count1(k + 1) <= 127
         /\ Count1(k + 1) > 3 \/ ir.size = "32" <=> Held(k) >= 4
         /\ Full(k) < DestOf /\ k < Last
<1>1. ir.size \in {"8", "32"} /\ Last \in Nat /\ Last <= 127 /\ Last >= 1
  BY ContextFacts DEF Counter, Context, ProgramProper, Proper
<1>2. Offset \in 0 .. 3 /\ Full(k) \in Nat /\ (Held(k) >= 4 <=> Offset = 0 \/ k > 0)
  BY HeldFacts
<1>3. /\ ir.size = "8" => Last <= 124
      /\ ir.size = "32" => Offset = 0
  BY DEF Context, ProgramProper, Proper, IsMem, UnitProper, Offset, Start, Last
<1>4. /\ ir.size = "32" => DestOf = Last
      /\ ir.size = "8" => DestOf = Groups(Last)
  BY DEF DestOf, DestCount, Last
<1>. HIDE DEF Offset, Last, DestOf
<1>5. CASE ir.size = "32"
  BY <1>1, <1>2, <1>3, <1>4, <1>5 DEF Count1, Full
<1>6. CASE ir.size = "8"
  <2>1. 4 * Full(k) < Last /\ k < Last
    BY <1>1, <1>2, <1>6 DEF Count1, Full
  <2>2. Full(k) < Groups(Last)
    BY <1>1, <1>2, <2>1 DEF Groups
  <2>. QED BY <1>1, <1>2, <1>3, <1>4, <1>6, <2>1, <2>2 DEF Count1
<1>. QED BY <1>1, <1>5, <1>6

(* Two runs of numbers, one after the other, are one run.                   *)
LEMMA RunsJoin ==
  ASSUME NEW x \in Int, NEW a \in Nat, NEW b \in Nat
  PROVE  [j \in 1 .. a |-> x + j - 1] \o [j \in 1 .. b |-> x + a + j - 1]
           = [j \in 1 .. a + b |-> x + j - 1]
<1>. DEFINE s == [j \in 1 .. a |-> x + j - 1]
            t == [j \in 1 .. b |-> x + a + j - 1]
            r == [j \in 1 .. a + b |-> x + j - 1]
<1>1. s \in Seq(Int) /\ Len(s) = a
  <2>1. \A j \in 1 .. a : x + j - 1 \in Int
    OBVIOUS
  <2>. QED BY <2>1
<1>2. t \in Seq(Int) /\ Len(t) = b
  <2>1. \A j \in 1 .. b : x + a + j - 1 \in Int
    OBVIOUS
  <2>. QED BY <2>1
<1>3. r \in Seq(Int) /\ Len(r) = a + b
  <2>1. \A j \in 1 .. a + b : x + j - 1 \in Int
    OBVIOUS
  <2>. QED BY <2>1
<1>4. /\ \A j \in 1 .. a : s[j] = x + j - 1
      /\ \A j \in 1 .. b : t[j] = x + a + j - 1
      /\ \A j \in 1 .. a + b : r[j] = x + j - 1
  OBVIOUS
<1>. HIDE DEF s, t, r
<1>5. /\ s \o t \in Seq(Int) /\ Len(s \o t) = a + b
      /\ \A j \in 1 .. a + b : (s \o t)[j] = IF j <= a THEN s[j] ELSE t[j - a]
  BY <1>1, <1>2, ConcatProperties
<1>6. \A j \in 1 .. a + b : (s \o t)[j] = r[j]
  <2>. SUFFICES ASSUME NEW j \in 1 .. a + b PROVE (s \o t)[j] = r[j]
    OBVIOUS
  <2>0. j <= a \/ j > a
    OBVIOUS
  <2>1. CASE j <= a
    BY <1>4, <1>5, <2>1
  <2>2. CASE j > a
    <3>1. j - a \in 1 .. b /\ x + a + (j - a) - 1 = x + j - 1
      BY <2>2
    <3>. QED BY <1>4, <1>5, <2>2, <3>1
  <2>. QED BY <2>0, <2>1, <2>2, Zenon
<1>7. s \o t = r
  BY <1>3, <1>5, <1>6, SeqEqual
<1>. QED BY <1>7 DEF s, t, r

(* What an answer puts into the buffer.                                     *)
LEMMA Gathered ==
  ASSUME Context, NEW k \in Nat, NEW buf,
         buf = IF k = 0 THEN << >> ELSE Run(Full(k), 4 * k - Offset - 4 * Full(k)),
         Points(add_o, Start + 4 * k), bus.mar = Word(Start + 4 * k), out.size = "32"
  PROVE  Collect(buf) = Run(Full(k), Held(k))
<1>1. Start \in Int /\ Offset = Start % 4 /\ Offset \in 0 .. 3
  BY StartInt DEF Offset
<1>2. addr = Start + 4 * k
  BY PointsNum DEF addr
<1>3. addr % 4 = Offset
  BY <1>1, <1>2
<1>4. /\ bus.mar \in Int /\ Word(bus.mar) = bus.mar /\ bus.mar + Offset = Start + 4 * k
      /\ bus.mar % 4 = 0
  <2>1. Start + 4 * k \in Int
    BY <1>1
  <2>. QED BY <1>2, <1>3, <2>1, WordFacts
<1>5. Full(k) \in Nat
  BY HeldFacts
<1>. HIDE DEF Offset
<1>6. Collect(buf) = IF buf = << >> THEN WordBytes(Start + 4 * k)
                     ELSE IF Len(buf) < 4 THEN buf \o WordBytes(bus.mar) ELSE buf
  BY <1>3, <1>4 DEF Collect
<1>7. CASE k = 0 \/ Offset = 0
  <2>1. buf = << >> /\ Full(k) = k
    BY <1>1, <1>7, RunFacts DEF Full
  <2>2. (Start + 4 * k) % 4 = Offset /\ Held(k) = 4 - Offset
    BY <1>2, <1>3, <2>1, <1>1 DEF Held
  <2>. QED BY <1>6, <2>1, <2>2 DEF WordBytes, Run
<1>8. CASE k # 0 /\ Offset # 0
  <2>. DEFINE a == 4 - Offset
              x == Start + 4 * Full(k)
  <2>1. /\ 4 * k - Offset - 4 * Full(k) = a /\ Held(k) = a + 4 /\ a \in 1 .. 3 /\ a \in Nat
        /\ x \in Int /\ bus.mar = x + a
    BY <1>1, <1>4, <1>8 DEF Full, Held
  <2>2. buf = [j \in 1 .. a |-> x + j - 1]
    BY <1>8, <2>1 DEF Run
  <2>3. WordBytes(bus.mar) = [j \in 1 .. 4 |-> x + a + j - 1]
    BY <1>4, <2>1 DEF WordBytes
  <2>4. Run(Full(k), Held(k)) = [j \in 1 .. a + 4 |-> x + j - 1]
    BY <2>1 DEF Run
  <2>5. buf # << >> /\ Len(buf) < 4
    <3>1. buf = Run(Full(k), a)
      BY <1>8, <2>1
    <3>2. Len(Run(Full(k), a)) = a /\ Run(Full(k), a) \in Seq(Int)
      BY <1>5, <2>1, RunFacts
    <3>. QED BY <2>1, <3>1, <3>2
  <2>. HIDE DEF a, x
  <2>6. buf \o WordBytes(bus.mar) = Run(Full(k), Held(k))
    <3>1. [j \in 1 .. a |-> x + j - 1] \o [j \in 1 .. 4 |-> x + a + j - 1]
            = [j \in 1 .. a + 4 |-> x + j - 1]
      BY <2>1, RunsJoin
    <3>. QED BY <2>2, <2>3, <2>4, <3>1, Zenon
  <2>. QED BY <1>6, <2>5, <2>6
<1>. QED BY <1>7, <1>8

-----------------------------------------------------------------------------
(* The write-back on the control bus after a step, in terms of the buffer.  *)
LEMMA BufferWrite ==
  ASSUME switch', ~ctrl_vector'.vwe, ~ctrl_vector'.zero, ctrl_vector'.mem # "no",
         ctrl_vector'.wb => ctrl_vector'.mux = "mem"
  PROVE  /\ ~ctrl_vector'.wb => rfNext' = rf' /\ Kept' = dp'.vbuf
         /\ ctrl_vector'.wb =>
              Kept' = SubSeq(dp'.vbuf, 5, Len(dp'.vbuf))
         /\ ctrl_vector'.wb /\ v'.rd # 0 =>
              rfNext' = [rf' EXCEPT ![v'.rd] =
                 Bytes(SubSeq(dp'.vbuf, 1, IF Len(dp'.vbuf) < 4 THEN Len(dp'.vbuf) ELSE 4))]
<1>1. out' = ctrl_vector' /\ rdA' = v'.rd
  BY DEF out, rdA
<1>2. ~ctrl_vector'.wb => rfNext' = rf' /\ Kept' = dp'.vbuf
  BY <1>1 DEF rfNext, Kept, LoadReg
<1>3. ctrl_vector'.wb => Kept' = SubSeq(dp'.vbuf, 5, Len(dp'.vbuf))
  BY <1>1 DEF Kept, LoadReg
<1>4. ctrl_vector'.wb =>
        wdata' = Bytes(SubSeq(dp'.vbuf, 1, IF Len(dp'.vbuf) < 4 THEN Len(dp'.vbuf) ELSE 4))
  BY <1>1 DEF wdata, memData
<1>5. ctrl_vector'.wb /\ v'.rd # 0 => rfNext' = [rf' EXCEPT ![v'.rd] = wdata']
  BY <1>1 DEF rfNext, opaAddr
<1>. QED BY <1>2, <1>3, <1>4, <1>5

(* The buffer after a step without an answer.                               *)
LEMMA BufferKept ==
  ASSUME NEW answer, answer # "ack", NEW buf
  PROVE  LoadReg(answer, buf) = LoadReg("none", buf)
BY DEF LoadReg

(* A full register, or what is left at the end, goes to register m.         *)
LEMMA RunWritten ==
  ASSUME NEW answer, Moving(answer), ir.op = "vload", ir.mode = "unit",
         switch', ~ctrl_vector'.vwe, ~ctrl_vector'.zero, ctrl_vector'.mem = "unit",
         ctrl_vector'.wb, ctrl_vector'.mux = "mem",
         NEW m \in 0 .. DestOf - 1, v'.rd = Reg(ir.rd, m), DoneOf(rfNext, m),
         NEW len \in Nat, dp'.vbuf = Run(m, len),
         len >= 4 \/ (ir.size = "8" /\ Last <= 4 * m + len)
  PROVE  DoneOf(rfNext', m + 1) /\ (len >= 4 => Kept' = Run(m + 1, len - 4))
<1>0. Context /\ rf' = rfNext /\ m \in Nat /\ DestOf \in Nat
  BY MovingFacts, ContextFacts
<1>. HIDE DEF DestOf, Last
<1>1. Run(m, len) \in Seq(Int) /\ Len(Run(m, len)) = len
  BY <1>0, RunFacts
<1>2. v'.rd # 0
  BY <1>0, Destination
<1>. DEFINE n == IF len < 4 THEN len ELSE 4
<1>3. rfNext' = [rf' EXCEPT ![v'.rd] = Bytes(SubSeq(Run(m, len), 1, n))]
      /\ Kept' = SubSeq(Run(m, len), 5, len)
  BY <1>1, <1>2, BufferWrite
<1>4. SubSeq(Run(m, len), 1, n) = Run(m, n) /\ n \in 0 .. 4
  <2>1. n \in 0 .. len /\ n \in 0 .. 4
    OBVIOUS
  <2>. HIDE DEF n
  <2>. QED BY <1>0, <2>1, RunFacts
<1>5. n = 4 \/ (ir.size = "8" /\ Last <= 4 * m + n)
  <2>1. CASE len >= 4
    BY <2>1
  <2>2. CASE len < 4
    BY <2>2
  <2>. QED BY <2>1, <2>2
<1>. HIDE DEF n
<1>6. Wanted(ir, atIssue.rf, Last, Bytes(Run(m, n)), m)
  BY <1>0, <1>4, <1>5, RunWanted
<1>7. DoneOf([rfNext EXCEPT ![Reg(ir.rd, m)] = Bytes(Run(m, n))], m + 1)
  BY <1>0, <1>6, Written
<1>8. DoneOf(rfNext', m + 1)
  BY <1>0, <1>3, <1>4, <1>7
<1>9. len >= 4 => Kept' = Run(m + 1, len - 4)
  BY <1>0, <1>3, RunFacts
<1>. QED BY <1>8, <1>9

-----------------------------------------------------------------------------
(* Unit-stride loads, step by step                                          *)

(* What depends only on the instruction and on the state it was issued in.  *)
LEMMA Lasting ==
  ASSUME ir' = ir, atIssue' = atIssue
  PROVE  /\ Last' = Last /\ DestOf' = DestOf /\ Offset' = Offset /\ Start' = Start
         /\ \A k : Count1(k)' = Count1(k)
         /\ \A k : Full(k)' = Full(k)
         /\ \A m, len : Run(m, len)' = Run(m, len)
         /\ \A k : DoneOf(rfNext, k)' <=> DoneOf(rfNext', k)
<1>1. Last' = Last /\ DestOf' = DestOf /\ Offset' = Offset /\ Start' = Start
  BY DEF Last, DestOf, Offset, Start
<1>. QED BY <1>1 DEF Count1, Full, Run, DoneOf

(* A unit-stride load starts with an empty buffer.                          *)
LEMMA LoadingUnitStart ==
  ASSUME Context, Data, ex = "EXECUTE", StartMem, ir.op = "vload", ir.mode = "unit",
         NEW answer, Datapath(answer), ir' = ir, atIssue' = atIssue
  PROVE  LoadingUnit'
<1>1. UnitAccess(0)' /\ v'.state = "S_MEM_ADDR" /\ switch' /\ ~ctrl_vector'.wb
      /\ ctrl_vector'.mem = "unit" /\ ctrl_vector'.size = "32"
  BY UnitAccessStart
<1>2. start = "load"
  BY DEF start, Kind
<1>3. v'.c1 = 0 /\ v'.c2 = 4 /\ v'.mop = TRUE /\ v'.rd = ir.rd
  BY <1>2 DEF StartMem, Latch, Loading
<1>4. Reg(ir.rd, 0) = ir.rd /\ Count1(0) = 0 /\ Full(0) = 0 /\ Last \in Nat /\ 0 < Last
  BY ContextFacts, RegZero DEF Count1, Full, Counter
<1>5. ~ctrl_vector'.vwe /\ ~ctrl_vector'.zero
  BY <1>1 DEF UnitAccess, MemWord
<1>6. rfNext' = rf' /\ Kept' = dp'.vbuf
  BY <1>1, <1>5, BufferWrite
<1>7. rf' = atIssue.rf /\ dp'.vbuf = << >>
  BY StartData DEF Context
<1>8. DoneOf(rfNext', 0)
  BY <1>6, <1>7, DoneStart
<1>9. LoadingUnitAt(0)'
  <2>. HIDE DEF Last
  <2>1. DoneOf(rfNext, 0)' /\ Full(0)' = 0 /\ Count1(0)' = 0 /\ Last' = Last
    BY <1>4, <1>8, Lasting
  <2>2. v'.mop = (0 = 0) /\ v'.c2 = (IF ir'.size = "8" THEN 4 + 4 * 0 ELSE 4) /\ ir'.rd = ir.rd
    <3>1. TRUE = (0 = 0) /\ 4 + 4 * 0 = 4
      OBVIOUS
    <3>2. v'.mop = (0 = 0)
      BY <1>3, <3>1, Zenon
    <3>. QED BY <1>3, <3>1, <3>2
  <2>. QED BY <1>1, <1>3, <1>4, <1>6, <1>7, <2>1, <2>2 DEF LoadingUnitAt
<1>10. 0 \in 0 .. Last'
  BY <1>4, Lasting
<1>. QED BY <1>1, <1>9, <1>10 DEF LoadingUnit

(* The address state: the register number moves on to where the next bytes  *)
(* belong.                                                                  *)
LEMMA LoadingUnitAddr ==
  ASSUME NEW answer, Moving(answer), ir.op = "vload", ir.mode = "unit", MemAddr,
         NEW k \in Nat, LoadingUnitAt(k)
  PROVE  LoadingUnitAt(k)' /\ v'.state = "S_MEM_REQ"
         /\ ctrl_vector'.mem = "unit" /\ ctrl_vector'.size = "32"
<1>0. /\ v \in VectorType /\ Context /\ start = "load" /\ ir' = ir /\ atIssue' = atIssue
      /\ UnitAccess(k) /\ Count1(k) < Last /\ ir.rd \in Regs
  BY MovingFacts, ContextFacts DEF Moving, LoadingUnitAt, Kind
<1>1. UnitAccess(k)' /\ v'.state = "S_MEM_REQ" /\ switch' /\ ~ctrl_vector'.wb
      /\ ctrl_vector'.mem = "unit" /\ ctrl_vector'.size = "32"
  BY <1>0, UnitAccessAddr
<1>2. v.state = "S_MEM_ADDR" /\ answer # "ack"
  BY MovingBus DEF MemAddr, WaitStates
<1>3. ~ctrl_vector'.vwe /\ ~ctrl_vector'.zero
  BY <1>1 DEF UnitAccess, MemWord
<1>4. rfNext' = rfNext /\ Kept' = Kept
  <2>1. rfNext' = rf' /\ Kept' = dp'.vbuf
    BY <1>1, <1>3, BufferWrite
  <2>. QED BY <1>2, <2>1, MovingFacts, BufferKept DEF Kept
<1>. DEFINE move == IF ir.size = "32" THEN ~v.mop ELSE v.c1 > 3
<1>5. v' = [v EXCEPT !.state = "S_MEM_REQ", !.rd = IF move THEN RegAdd(v.rd, 1) ELSE v.rd]
  BY <1>0 DEF MemAddr
<1>6. /\ v'.c1 = v.c1 /\ v'.c2 = v.c2 /\ v'.mop = v.mop
      /\ v'.rd = IF move THEN RegAdd(v.rd, 1) ELSE v.rd
  BY <1>0, <1>5 DEF VectorType
<1>7. move <=> Full(k) > 0
  <2>1. (v.mop <=> k = 0) /\ v.c1 = Count1(k) /\ ir.size \in {"8", "32"} /\ Offset \in 0 .. 3
        /\ (ir.size = "32" => Offset = 0)
    BY <1>0, <1>2, LoadCounts, HeldFacts DEF LoadingUnitAt
  <2>. HIDE DEF Offset
  <2>2. CASE ir.size = "32"
    BY <2>1, <2>2 DEF Full
  <2>3. CASE ir.size = "8"
    BY <2>1, <2>3 DEF Full, Count1
  <2>. QED BY <2>1, <2>2, <2>3
<1>8. v'.rd = Reg(ir.rd, Full(k))
  <2>1. v.rd = Reg(ir.rd, IF Full(k) > 0 THEN Full(k) - 1 ELSE Full(k)) /\ Full(k) \in Nat
    BY <1>0, <1>2, HeldFacts DEF LoadingUnitAt
  <2>2. CASE Full(k) > 0
    <3>1. Full(k) - 1 \in Nat /\ (Full(k) - 1) + 1 = Full(k)
      BY <2>1, <2>2
    <3>2. RegAdd(Reg(ir.rd, Full(k) - 1), 1) = Reg(ir.rd, Full(k))
      BY <1>0, <3>1, RegNext
    <3>. QED BY <1>6, <1>7, <2>1, <2>2, <3>2
  <2>3. CASE ~(Full(k) > 0)
    BY <1>6, <1>7, <2>1, <2>3
  <2>. QED BY <2>2, <2>3
<1>9. DoneOf(rfNext', Full(k))
  BY <1>4 DEF LoadingUnitAt
<1>10. LoadingUnitAt(k)'
  <2>. HIDE DEF Last
  <2>1. v.c1 = Count1(k) /\ v.c2 = (IF ir.size = "8" THEN 4 + 4 * Full(k) ELSE 4) /\ v.mop = (k = 0)
        /\ Kept = IF k = 0 THEN <<>> ELSE Run(Full(k), 4 * k - Offset - 4 * Full(k))
    BY <1>2 DEF LoadingUnitAt
  <2>. QED BY <1>0, <1>1, <1>4, <1>6, <1>8, <1>9, <2>1, Lasting DEF LoadingUnitAt
<1>. QED BY <1>1, <1>10

(* The request, and a wait without an answer.                               *)
LEMMA LoadingUnitReq ==
  ASSUME NEW answer, Moving(answer), ir.op = "vload", ir.mode = "unit",
         MemReqUnit \/ (MemWaitUnit(answer) /\ answer # "ack"),
         NEW k \in Nat, LoadingUnitAt(k)
  PROVE  LoadingUnitAt(k)' /\ v'.state = "S_MEM_WAIT"
         /\ ctrl_vector'.mem = "unit" /\ ctrl_vector'.size = "32"
<1>0. /\ v \in VectorType /\ Context /\ start = "load" /\ ir' = ir /\ atIssue' = atIssue
      /\ UnitAccess(k) /\ Count1(k) < Last /\ ~AccessError
  BY MovingFacts DEF Moving, LoadingUnitAt, Kind
<1>1. UnitAccess(k)' /\ v'.state = "S_MEM_WAIT" /\ switch' /\ ~ctrl_vector'.wb
      /\ ctrl_vector'.mem = "unit" /\ ctrl_vector'.size = "32"
  BY <1>0, UnitAccessReq
<1>2. v.state \in {"S_MEM_REQ", "S_MEM_WAIT"} /\ answer # "ack"
  BY MovingBus DEF MemReqUnit, MemWaitUnit, WaitStates
<1>3. ~ctrl_vector'.vwe /\ ~ctrl_vector'.zero
  BY <1>1 DEF UnitAccess, MemWord
<1>4. rfNext' = rfNext /\ Kept' = Kept
  <2>1. rfNext' = rf' /\ Kept' = dp'.vbuf
    BY <1>1, <1>3, BufferWrite
  <2>. QED BY <1>2, <2>1, MovingFacts, BufferKept DEF Kept
<1>5. /\ v'.c2 = v.c2 /\ v'.mop = v.mop /\ v'.rd = v.rd
      /\ v'.c1 = Count1(k + 1)
  <2>1. CASE MemReqUnit
    <3>1. v' = [v EXCEPT !.state = "S_MEM_WAIT", !.c1 = Count(v.c1 + Brought), !.rs2 = v.rs2]
      BY <1>0, <2>1 DEF MemReqUnit
    <3>2. v.state = "S_MEM_REQ" /\ v.c1 = Count1(k) /\ (v.mop <=> k = 0)
      BY <2>1 DEF MemReqUnit, LoadingUnitAt
    <3>3. addr % 4 = Offset
      <4>1. addr = Start + 4 * k /\ Start \in Int
        BY <1>0, PointsNum, StartInt DEF UnitAccess, addr
      <4>. QED BY <4>1 DEF Offset
    <3>4. /\ Count1(k) \in Nat /\ Count1(k + 1) \in Nat /\ Count1(k + 1) <= 127
          /\ ir.size \in {"8", "32"} /\ Offset \in 0 .. 3 /\ (ir.size = "32" => Offset = 0)
      BY <1>0, LoadCounts, HeldFacts
    <3>. HIDE DEF Offset
    <3>5. Count1(k) + Brought = Count1(k + 1)
      <4>1. CASE ir.size = "32"
        BY <3>2, <3>3, <3>4, <4>1 DEF Brought, Count1
      <4>2. CASE ir.size = "8"
        BY <3>2, <3>3, <3>4, <4>2 DEF Brought, Count1
      <4>. QED BY <3>4, <4>1, <4>2
    <3>6. Count(Count1(k + 1)) = Count1(k + 1)
      BY <3>4 DEF Count
    <3>. QED BY <1>0, <3>1, <3>2, <3>5, <3>6 DEF VectorType
  <2>2. CASE MemWaitUnit(answer) /\ answer # "ack"
    <3>1. v' = v
      BY <1>0, <2>2 DEF MemWaitUnit
    <3>2. v.state = "S_MEM_WAIT"
      BY <2>2 DEF MemWaitUnit
    <3>. QED BY <3>1, <3>2 DEF LoadingUnitAt
  <2>. QED BY <2>1, <2>2
<1>6. DoneOf(rfNext', Full(k))
  BY <1>4 DEF LoadingUnitAt
<1>7. LoadingUnitAt(k)'
  <2>. HIDE DEF Last
  <2>1. v.c2 = (IF ir.size = "8" THEN 4 + 4 * Full(k) ELSE 4) /\ v.mop = (k = 0)
        /\ v.rd = Reg(ir.rd, Full(k))
        /\ Kept = IF k = 0 THEN <<>> ELSE Run(Full(k), 4 * k - Offset - 4 * Full(k))
    BY <1>2 DEF LoadingUnitAt
  <2>. QED BY <1>0, <1>1, <1>4, <1>5, <1>6, <2>1, Lasting DEF LoadingUnitAt
<1>. QED BY <1>1, <1>7

(* The answer to access k: what is then in the buffer.                      *)
LEMMA LoadingUnitAck ==
  ASSUME NEW answer, Moving(answer), ir.op = "vload", ir.mode = "unit",
         MemWaitUnit(answer), answer = "ack", NEW k \in Nat, LoadingUnitAt(k)
  PROVE  /\ v.state = "S_MEM_WAIT" /\ v.c1 = Count1(k + 1) /\ v.rd = Reg(ir.rd, Full(k))
         /\ v.c2 = (IF ir.size = "8" THEN 4 + 4 * Full(k) ELSE 4)
         /\ dp'.vbuf = Run(Full(k), Held(k)) /\ DoneOf(rfNext, Full(k))
         /\ UnitAccess(k) /\ Count1(k) < Last
<1>1. v.state = "S_MEM_WAIT" /\ UnitAccess(k) /\ Count1(k) < Last
  BY DEF MemWaitUnit, LoadingUnitAt
<1>2. Points(add_o, Start + 4 * k) /\ bus.mar = Word(Start + 4 * k) /\ ~ctrl_vector.wb
      /\ out.mem = "unit" /\ out.size = "32" /\ out = ctrl_vector
  BY <1>1, MovingFacts DEF UnitAccess, MemWord
<1>3. Kept = dp.vbuf /\ dp'.vbuf = Collect(dp.vbuf)
  BY <1>2, MovingFacts DEF Kept, LoadReg
<1>4. dp.vbuf = IF k = 0 THEN << >> ELSE Run(Full(k), 4 * k - Offset - 4 * Full(k))
  BY <1>3 DEF LoadingUnitAt
<1>5. Collect(dp.vbuf) = Run(Full(k), Held(k))
  BY <1>2, <1>4, Gathered, MovingFacts
<1>. QED BY <1>1, <1>3, <1>5 DEF LoadingUnitAt

(* More elements follow.                                                    *)
LEMMA LoadingUnitMore ==
  ASSUME NEW answer, Moving(answer), ir.op = "vload", ir.mode = "unit",
         MemWaitUnit(answer), answer = "ack", NEW k \in Nat, LoadingUnitAt(k), v.c1 < csr_vl
  PROVE  LoadingUnitAt(k + 1)' /\ v'.state = "S_MEM_ADDR" /\ k + 1 \in 0 .. Last
         /\ ctrl_vector'.mem = "unit" /\ ctrl_vector'.size = "32"
<1>0. /\ v \in VectorType /\ Context /\ start = "load" /\ ir' = ir /\ atIssue' = atIssue
      /\ ~AccessError /\ csr_vl = Last /\ rf' = rfNext
  BY MovingFacts, ContextFacts DEF Moving, Kind
<1>1. v.state = "S_MEM_WAIT" /\ v.c1 = Count1(k + 1) /\ v.rd = Reg(ir.rd, Full(k))
      /\ v.c2 = (IF ir.size = "8" THEN 4 + 4 * Full(k) ELSE 4)
      /\ dp'.vbuf = Run(Full(k), Held(k)) /\ DoneOf(rfNext, Full(k))
      /\ UnitAccess(k) /\ Count1(k) < Last
  BY LoadingUnitAck
<1>2. /\ ir.size \in {"8", "32"} /\ Last \in Nat /\ (ir.size = "8" => Last <= 124)
      /\ (ir.size = "32" => Offset = 0)
      /\ Count1(k + 1) \in Nat /\ Count1(k + 1) < Last
      /\ (Count1(k + 1) > 3 \/ ir.size = "32" <=> Held(k) >= 4)
      /\ Full(k) < DestOf /\ k < Last /\ Offset \in 0 .. 3 /\ Full(k) \in Nat /\ Held(k) \in Nat
      /\ Full(k + 1) = (IF Held(k) >= 4 THEN Full(k) + 1 ELSE Full(k))
      /\ 4 * (k + 1) - Offset - 4 * Full(k + 1) = (IF Held(k) >= 4 THEN Held(k) - 4 ELSE Held(k))
      /\ (Held(k) >= 4 <=> Offset = 0 \/ k > 0) /\ DestOf \in Nat
  <2>1. v.c1 < Last
    BY <1>0
  <2>2. /\ ir.size \in {"8", "32"} /\ Last \in Nat /\ (ir.size = "8" => Last <= 124)
        /\ (ir.size = "32" => Offset = 0) /\ Count1(k + 1) \in Nat
        /\ (Count1(k + 1) > 3 \/ ir.size = "32" <=> Held(k) >= 4)
        /\ Full(k) < DestOf /\ k < Last
    BY <1>0, <1>1, LoadCounts
  <2>3. Offset \in 0 .. 3 /\ Full(k) \in Nat /\ Held(k) \in 1 .. 7
        /\ Full(k + 1) = (IF Held(k) >= 4 THEN Full(k) + 1 ELSE Full(k))
        /\ 4 * (k + 1) - Offset - 4 * Full(k + 1) = (IF Held(k) >= 4 THEN Held(k) - 4 ELSE Held(k))
        /\ (Held(k) >= 4 <=> Offset = 0 \/ k > 0)
    BY <1>0, HeldFacts
  <2>4. DestOf \in Nat
    BY <1>0, ContextFacts
  <2>. QED BY <1>1, <2>1, <2>2, <2>3, <2>4
<1>3. UnitAccess(k + 1)' /\ v'.state = "S_MEM_ADDR" /\ switch'
      /\ ctrl_vector'.mem = "unit" /\ ctrl_vector'.size = "32"
      /\ (ctrl_vector'.wb <=> Held(k) >= 4)
  BY <1>1, <1>2, UnitAccessNext
<1>4. ~ctrl_vector'.vwe /\ ~ctrl_vector'.zero /\ (ctrl_vector'.wb => ctrl_vector'.mux = "mem")
  BY <1>3 DEF UnitAccess, MemWord
<1>. DEFINE next == IF ir.size # "32" /\ v.c1 > 3 THEN Count(v.c2 + 4) ELSE v.c2
<1>5. v' = [v EXCEPT !.state = "S_MEM_ADDR", !.c1 = v.c1, !.c2 = next, !.mop = FALSE]
  <2>1. ~(v.c1 >= csr_vl)
    BY <1>0, <1>1, <1>2
  <2>. QED BY <1>0, <2>1 DEF MemWaitUnit
<1>6. v'.c1 = Count1(k + 1) /\ v'.rd = Reg(ir.rd, Full(k)) /\ v'.c2 = next /\ v'.mop = FALSE
  BY <1>0, <1>1, <1>5 DEF VectorType
<1>7. v'.c2 = IF ir.size = "8" THEN 4 + 4 * Full(k + 1) ELSE 4
  <2>1. CASE ir.size = "32"
    BY <1>1, <1>6, <2>1
  <2>2. CASE ir.size = "8" /\ Held(k) >= 4
    <3>1. 4 * Full(k) + 8 <= 127
      <4>1. Count1(k + 1) = 4 * (k + 1) - Offset
        BY <1>2, <2>2 DEF Count1
      <4>2. Full(k) = IF Offset = 0 \/ k = 0 THEN k ELSE k - 1
        BY DEF Full
      <4>. HIDE DEF Offset, Full
      <4>. QED BY <1>2, <2>2, <4>1, <4>2
    <3>2. Count(4 + 4 * Full(k) + 4) = 4 + 4 * (Full(k) + 1)
      <4>1. 4 + 4 * Full(k) + 4 \in 0 .. 127 /\ 4 + 4 * Full(k) + 4 = 4 + 4 * (Full(k) + 1)
        BY <1>2, <3>1
      <4>. QED BY <4>1 DEF Count
    <3>. QED BY <1>1, <1>2, <1>6, <2>2, <3>2
  <2>3. CASE ir.size = "8" /\ ~(Held(k) >= 4)
    BY <1>1, <1>2, <1>6, <2>3
  <2>. QED BY <1>2, <2>1, <2>2, <2>3
<1>8. DoneOf(rfNext, Full(k + 1))'
      /\ Kept' = Run(Full(k + 1), 4 * (k + 1) - Offset - 4 * Full(k + 1))
  <2>1. CASE Held(k) >= 4
    <3>1. Full(k) \in 0 .. DestOf - 1
      BY <1>2
    <3>2. DoneOf(rfNext', Full(k) + 1) /\ Kept' = Run(Full(k) + 1, Held(k) - 4)
      <4>1. ctrl_vector'.wb /\ ctrl_vector'.mux = "mem"
        BY <1>3, <1>4, <2>1
      <4>. QED BY <1>1, <1>2, <1>3, <1>4, <1>6, <2>1, <3>1, <4>1, RunWritten
    <3>4. DoneOf(rfNext', Full(k + 1))
      BY <1>2, <2>1, <3>2
    <3>. QED BY <1>0, <1>2, <2>1, <3>2, <3>4, Lasting DEF DoneOf
  <2>2. CASE ~(Held(k) >= 4)
    <3>1. rfNext' = rf' /\ Kept' = dp'.vbuf
      BY <1>3, <1>4, <2>2, BufferWrite
    <3>2. DoneOf(rfNext', Full(k + 1))
      BY <1>0, <1>1, <1>2, <2>2, <3>1
    <3>. QED BY <1>0, <1>1, <1>2, <2>2, <3>1, <3>2 DEF DoneOf, Full, Offset, Start
  <2>. QED BY <2>1, <2>2
<1>9. v'.rd = Reg(ir.rd, IF Full(k + 1) > 0 THEN Full(k + 1) - 1 ELSE Full(k + 1))
  <2>1. CASE Held(k) >= 4
    BY <1>2, <1>6, <2>1
  <2>2. CASE ~(Held(k) >= 4)
    <3>1. Full(k) = 0
      BY <1>2, <2>2 DEF Full
    <3>. QED BY <1>2, <1>6, <2>2, <3>1
  <2>. QED BY <2>1, <2>2
<1>10. k + 1 \in 0 .. Last /\ k + 1 # 0
  BY <1>2
<1>11. LoadingUnitAt(k + 1)'
  <2>. HIDE DEF Last, next, Offset, DestOf
  <2>0. FALSE = (k + 1 = 0)
    BY <1>10
  <2>1. v'.mop = (k + 1 = 0)
    BY <1>6, <2>0, Zenon
  <2>2. /\ Full(k + 1)' = Full(k + 1) /\ Count1(k + 1)' = Count1(k + 1) /\ Last' = Last /\ Offset' = Offset
        /\ Run(Full(k + 1), 4 * (k + 1) - Offset - 4 * Full(k + 1))'
             = Run(Full(k + 1), 4 * (k + 1) - Offset - 4 * Full(k + 1))
    BY <1>0, Lasting DEF Run
  <2>. QED BY <1>0, <1>2, <1>3, <1>6, <1>7, <1>8, <1>9, <1>10, <2>1, <2>2 DEF LoadingUnitAt
<1>. QED BY <1>3, <1>10, <1>11

(* The answer to the last access: the bytes in the buffer are written back, *)
(* and when they are more than a register holds one more write follows.     *)
LEMMA LoadingUnitStop ==
  ASSUME NEW answer, Moving(answer), ir.op = "vload", ir.mode = "unit",
         MemWaitUnit(answer), answer = "ack", NEW k \in Nat, LoadingUnitAt(k), ~(v.c1 < csr_vl)
  PROVE  /\ ctrl_vector'.mem = "unit" /\ ctrl_vector'.size = "32"
         /\ ~ctrl_vector'.vwe /\ ~ctrl_vector'.zero
         /\ \/ v'.state = "S_IDLE" /\ DoneOf(rfNext', DestOf)
            \/ v'.state = "S_MEM_LAST_STORE" /\ LoadingLast(k)' /\ k \in 0 .. Last
<1>0. /\ v \in VectorType /\ Context /\ start = "load" /\ ir' = ir /\ atIssue' = atIssue
      /\ ~AccessError /\ csr_vl = Last /\ rf' = rfNext
  BY MovingFacts, ContextFacts DEF Moving, Kind
<1>1. v.state = "S_MEM_WAIT" /\ v.c1 = Count1(k + 1) /\ v.rd = Reg(ir.rd, Full(k))
      /\ v.c2 = (IF ir.size = "8" THEN 4 + 4 * Full(k) ELSE 4)
      /\ dp'.vbuf = Run(Full(k), Held(k)) /\ DoneOf(rfNext, Full(k))
      /\ UnitAccess(k) /\ Count1(k) < Last
  BY LoadingUnitAck
<1>2. /\ ir.size \in {"8", "32"} /\ Last \in Nat /\ (ir.size = "32" => Offset = 0 /\ DestOf = Last)
      /\ (ir.size = "8" => DestOf = Groups(Last) /\ 4 * Full(k) < Last)
      /\ Count1(k + 1) \in Nat /\ Count1(k + 1) >= Last
      /\ Full(k) < DestOf /\ k < Last /\ DestOf \in Nat
  <2>1. v.c1 >= Last
    BY <1>0, <1>1, LoadCounts
  <2>2. DestOf \in Nat
    BY <1>0, ContextFacts
  <2>. QED BY <1>0, <1>1, <2>1, <2>2, LoadCounts
<1>3. /\ Offset \in 0 .. 3 /\ Full(k) \in Nat /\ Held(k) \in 1 .. 7 /\ Full(k) <= k
      /\ Held(k) = 4 * (k + 1) - Offset - 4 * Full(k)
      /\ (Held(k) >= 4 <=> Offset = 0 \/ k > 0)
      /\ (Held(k) > 4 <=> Offset > 0 /\ k > 0)
  BY <1>0, HeldFacts DEF Held
<1>. DEFINE more == [UnitAcc EXCEPT !.mux = "mem", !.size = "32", !.opb = "imm", !.mo = TRUE]
            full == ir.size = "32" \/ v.c1 > 3
            stop == v.c1 >= csr_vl
            last == ir.size = "8" /\ v.c2 < csr_vl
            next == IF ir.size # "32" /\ v.c1 > 3 THEN Count(v.c2 + 4) ELSE v.c2
<1>4. stop
  BY <1>0, <1>1, <1>2
<1>5. ctrl_vector' = [more EXCEPT !.mo = FALSE, !.wb = TRUE]
  <2>1. ctrl_vector' = [more EXCEPT !.mo = ~stop, !.wb = full \/ stop]
    BY <1>0 DEF MemWaitUnit, NextCtrl
  <2>2. (~stop) = FALSE /\ (full \/ stop) = TRUE
    BY <1>4
  <2>. QED BY <2>1, <2>2
<1>6. /\ ctrl_vector'.mem = "unit" /\ ctrl_vector'.size = "32" /\ ctrl_vector'.mux = "mem"
      /\ ctrl_vector'.wb /\ ~ctrl_vector'.vwe /\ ~ctrl_vector'.zero
  BY <1>5 DEF UnitAcc, Unit, NoCtrl
<1>7. switch'
  BY <1>0 DEF MemWaitUnit, Hold
<1>8. v' = [v EXCEPT !.state = IF last THEN "S_MEM_LAST_STORE" ELSE "S_IDLE",
                     !.c1 = 0, !.c2 = next, !.mop = FALSE]
  BY <1>0, <1>4 DEF MemWaitUnit
<1>9. v'.state = (IF last THEN "S_MEM_LAST_STORE" ELSE "S_IDLE") /\ v'.rd = Reg(ir.rd, Full(k))
  BY <1>0, <1>1, <1>8 DEF VectorType
<1>. HIDE DEF more, full, stop, next
<1>10. Held(k) >= 4 \/ (ir.size = "8" /\ Last <= 4 * Full(k) + Held(k))
  <2>1. CASE ir.size = "32"
    BY <1>2, <1>3, <2>1
  <2>2. CASE ir.size = "8"
    <3>1. Count1(k + 1) = 4 * (k + 1) - Offset
      BY <2>2 DEF Count1
    <3>. QED BY <1>2, <1>3, <2>2, <3>1
  <2>. QED BY <1>2, <2>1, <2>2
<1>11. DoneOf(rfNext', Full(k) + 1) /\ (Held(k) >= 4 => Kept' = Run(Full(k) + 1, Held(k) - 4))
  <2>1. Full(k) \in 0 .. DestOf - 1 /\ Held(k) \in Nat
    BY <1>2, <1>3
  <2>. HIDE DEF Last, DestOf, Offset
  <2>. QED BY <1>1, <1>6, <1>7, <1>9, <1>10, <2>1, RunWritten
<1>12. CASE last
  <2>1. ir.size = "8" /\ 4 + 4 * Full(k) < Last
    BY <1>0, <1>1, <1>12
  <2>2. Count1(k + 1) = 4 * (k + 1) - Offset
    BY <1>3, <2>1 DEF Count1
  <2>3. Held(k) > 4
    BY <1>2, <1>3, <2>1, <2>2
  <2>4. Full(k) + 1 = k /\ k > 0 /\ Offset > 0 /\ Held(k) - 4 = 4 - Offset
    BY <1>3, <2>3 DEF Full
  <2>5. k + 1 = DestOf /\ Last <= 4 * k + 4 - Offset
    BY <1>2, <1>3, <2>1, <2>2, <2>4 DEF Groups
  <2>6. DoneOf(rfNext', k) /\ Kept' = Run(k, 4 - Offset) /\ v'.rd = Reg(ir.rd, k - 1)
    BY <1>3, <1>9, <1>11, <2>3, <2>4
  <2>7. MemWord("unit", "32")'
    BY <1>6 DEF MemWord
  <2>8. LoadingLast(k)'
    <3>1. DoneOf(rfNext, k)' /\ DestOf' = DestOf /\ Last' = Last /\ Offset' = Offset
          /\ Run(k, 4 - Offset)' = Run(k, 4 - Offset)
      BY <1>0, <2>6, Lasting DEF Run
    <3>2. k + 1 = DestOf' /\ Last' <= 4 * k + 4 - Offset' /\ Kept' = Run(k, 4 - Offset)' /\ ir'.size = "8"
          /\ v'.rd = Reg(ir'.rd, k - 1)
      BY <1>0, <2>1, <2>5, <2>6, <3>1
    <3>. HIDE DEF Last, DestOf, Offset
    <3>. QED BY <2>4, <2>7, <3>1, <3>2 DEF LoadingLast
  <2>9. k \in 0 .. Last
    BY <1>2
  <2>. QED BY <1>6, <1>9, <1>12, <2>8, <2>9
<1>13. CASE ~last
  <2>1. Full(k) + 1 = DestOf
    <3>1. CASE ir.size = "32"
      <4>1. Count1(k + 1) = k + 1 /\ Full(k) = k
        BY <1>2, <3>1 DEF Count1, Full
      <4>. QED BY <1>2, <3>1, <4>1
    <3>2. CASE ir.size = "8"
      <4>1. ~(4 + 4 * Full(k) < Last)
        BY <1>0, <1>1, <1>13, <3>2
      <4>. QED BY <1>2, <1>3, <3>2, <4>1 DEF Groups
    <3>. QED BY <1>2, <3>1, <3>2
  <2>. QED BY <1>6, <1>9, <1>11, <1>13, <2>1
<1>. QED BY <1>12, <1>13

(* Every clock of a unit-stride load.                                       *)
LEMMA LoadingUnitStep ==
  ASSUME NEW answer, Moving(answer), ir.op = "vload", ir.mode = "unit", LoadingUnit,
         MemAddr \/ MemReqUnit \/ MemWaitUnit(answer)
  PROVE  LoadingUnit'
<1>0. ir' = ir /\ atIssue' = atIssue /\ Context /\ csr_vl = Last /\ Last \in Nat
  BY MovingFacts, ContextFacts DEF Moving
<1>1. Last' = Last /\ DestOf' = DestOf
  BY <1>0, Lasting
<1>. HIDE DEF Last, DestOf
<1>2. PICK k \in 0 .. Last : LoadingUnitAt(k)
  BY DEF LoadingUnit, MemAddr, MemReqUnit, MemWaitUnit
<1>3. k \in Nat
  BY <1>0
<1>4. CASE MemAddr
  BY <1>1, <1>2, <1>3, <1>4, LoadingUnitAddr DEF LoadingUnit
<1>5. CASE MemReqUnit \/ (MemWaitUnit(answer) /\ answer # "ack")
  BY <1>1, <1>2, <1>3, <1>5, LoadingUnitReq DEF LoadingUnit
<1>6. CASE MemWaitUnit(answer) /\ answer = "ack" /\ v.c1 < csr_vl
  BY <1>1, <1>2, <1>3, <1>6, LoadingUnitMore DEF LoadingUnit
<1>7. CASE MemWaitUnit(answer) /\ answer = "ack" /\ ~(v.c1 < csr_vl)
  <2>1. /\ ctrl_vector'.mem = "unit" /\ ctrl_vector'.size = "32"
        /\ ~ctrl_vector'.vwe /\ ~ctrl_vector'.zero
        /\ \/ v'.state = "S_IDLE" /\ DoneOf(rfNext', DestOf)
           \/ v'.state = "S_MEM_LAST_STORE" /\ LoadingLast(k)' /\ k \in 0 .. Last
    BY <1>2, <1>3, <1>7, LoadingUnitStop
  <2>2. DoneOf(rfNext', DestOf) => DoneOf(rfNext, DestOf)'
    BY <1>0, <1>1 DEF DoneOf
  <2>. QED BY <1>1, <2>1, <2>2 DEF LoadingUnit
<1>. QED BY <1>4, <1>5, <1>6, <1>7

(* The last write-back.  The execute engine is already on its way.          *)
LEMMA LoadingUnitLast ==
  ASSUME Context, switch, ir.op = "vload", ir.mode = "unit", MemLastStore, LoadingUnit,
         NEW answer, answer # "ack", Datapath(answer), ir' = ir, atIssue' = atIssue
  PROVE  DoneOf(rfNext', DestOf)
<1>1. v.state = "S_MEM_LAST_STORE" /\ Last \in Nat /\ ir.rd \in Regs
  BY ContextFacts DEF MemLastStore, Counter
<1>2. PICK m \in 0 .. Last : LoadingLast(m)
  BY <1>1 DEF LoadingUnit
<1>3. m \in Nat /\ m > 0 /\ m + 1 = DestOf /\ ir.size = "8" /\ Last <= 4 * m + 4 - Offset
      /\ DoneOf(rfNext, m) /\ v.rd = Reg(ir.rd, m - 1) /\ Kept = Run(m, 4 - Offset)
      /\ MemWord("unit", "32")
  BY <1>1, <1>2 DEF LoadingLast
<1>4. v'.rd = RegAdd(v.rd, 1) /\ switch'
  <2>1. v \in VectorType
    BY TypeFacts DEF Context, VectorTypes
  <2>. QED BY <2>1 DEF MemLastStore, VectorType, Hold
<1>5. v'.rd = Reg(ir.rd, m)
  <2>1. m - 1 \in Nat /\ (m - 1) + 1 = m
    BY <1>3
  <2>. QED BY <1>1, <1>3, <1>4, <2>1, RegNext
<1>6. /\ ctrl_vector'.mem = "unit" /\ ctrl_vector'.mux = "mem" /\ ctrl_vector'.wb
      /\ ~ctrl_vector'.vwe /\ ~ctrl_vector'.zero
  BY DEF MemLastStore, NextCtrl, Unit, NoCtrl
<1>7. rf' = rfNext /\ dp'.vbuf = Run(m, 4 - Offset)
  BY <1>3, BufferKept DEF Datapath, Kept
<1>8. Offset \in 0 .. 3 /\ 4 - Offset \in 0 .. 4 /\ 4 - Offset \in Nat /\ m \in 0 .. DestOf - 1
  BY <1>3, StartInt
<1>. DEFINE len == 4 - Offset
<1>9. Len(Run(m, len)) = len /\ SubSeq(Run(m, len), 1, len) = Run(m, len)
  <2>1. len \in Nat /\ len \in 0 .. len
    BY <1>8
  <2>. HIDE DEF len
  <2>. QED BY <1>3, <2>1, RunFacts
<1>10. v'.rd # 0
  BY <1>5, <1>8, Destination
<1>11. rfNext' = [rfNext EXCEPT ![Reg(ir.rd, m)] = Bytes(Run(m, len))]
  <2>1. (IF len < 4 THEN len ELSE 4) = len
    BY <1>8
  <2>2. rfNext' = [rf' EXCEPT ![v'.rd] =
                 Bytes(SubSeq(dp'.vbuf, 1, IF Len(dp'.vbuf) < 4 THEN Len(dp'.vbuf) ELSE 4))]
    BY <1>4, <1>6, <1>10, BufferWrite
  <2>. QED BY <1>5, <1>7, <1>9, <2>1, <2>2
<1>12. Wanted(ir, atIssue.rf, Last, Bytes(Run(m, len)), m)
  <2>1. Last <= 4 * m + len
    BY <1>1, <1>3, <1>8
  <2>. HIDE DEF Last, len
  <2>2. len \in 0 .. 4
    BY <1>8 DEF len
  <2>. QED BY <1>3, <2>1, <2>2, RunWanted
<1>. HIDE DEF Last, len, DestOf
<1>13. DoneOf(rfNext', m + 1)
  BY <1>3, <1>8, <1>11, <1>12, Written
<1>. QED BY <1>3, <1>13

(* A unit-stride load that has gone idle is done with the write of this     *)
(* cycle.                                                                   *)
LEMMA LoadingUnitOver ==
  ASSUME ir.op = "vload", LoadingUnit, v.state = "S_IDLE" PROVE Over
BY DEF Over, LoadingUnit

-----------------------------------------------------------------------------
(* Strided accesses                                                         *)

(* The stride of the instruction in progress.                               *)
StrideOf == Stride(ir, atIssue.rf)

(* The addresses of the elements, a stride apart and aligned.               *)
LEMMA StridedElems ==
  ASSUME Context, ir.op \in {"vload", "vstore"}, ir.mode = "strided"
  PROVE  /\ StrideOf \in Int /\ Points(atIssue.rf[StrideReg(ir)], StrideOf)
         /\ StrideReg(ir) \in Regs /\ StrideReg(ir) \notin Dest(ir, Last)
         /\ Points(atIssue.rf[ir.rs1], Elem(0))
         /\ \A k \in Nat : Elem(k) \in Int /\ Elem(k + 1) = Elem(k) + StrideOf
         /\ \A k \in 0 .. Last - 1 : ~Misaligned(Elem(k), ir.size)
<1>1. StridedProper(ir, atIssue.rf, Last) /\ Pointer(atIssue.rf[ir.rs1])
  BY DEF Context, ProgramProper, Proper, IsMem, Last
<1>2. StrideReg(ir) \in Regs /\ ir.rs1 \in Regs
  BY ContextFacts DEF StrideReg
<1>3. IsWord(atIssue.rf[StrideReg(ir)]) /\ IsWord(atIssue.rf[ir.rs1])
  BY <1>2, ContextFacts
<1>4. StrideOf = Num(atIssue.rf[StrideReg(ir)])
  BY DEF StrideOf, Stride, StrideReg
<1>5. StrideOf \in Int /\ Points(atIssue.rf[StrideReg(ir)], StrideOf)
  BY <1>1, <1>3, <1>4 DEF StridedProper, Pointer, Points, Num, IsWord
<1>6. Start \in Int /\ Points(atIssue.rf[ir.rs1], Start)
  BY <1>1, <1>3 DEF Pointer, Points, Num, IsWord, Start, Base
<1>7. \A k : Elem(k) = Start + k * StrideOf
  BY DEF Elem, ElemAddr, Start, StrideOf
<1>. HIDE DEF StrideOf, Start
<1>8. ASSUME NEW k \in Nat PROVE Elem(k) \in Int /\ Elem(k + 1) = Elem(k) + StrideOf
  <2>1. k * StrideOf \in Int /\ (k + 1) * StrideOf = k * StrideOf + StrideOf
    BY <1>5
  <2>. QED BY <1>5, <1>6, <1>7, <2>1
<1>9. Elem(0) = Start
  BY <1>5, <1>6, <1>7
<1>10. \A k \in 0 .. Last - 1 : ~Misaligned(Elem(k), ir.size)
  BY <1>1 DEF StridedProper, Elem
<1>. QED BY <1>1, <1>2, <1>5, <1>6, <1>8, <1>9, <1>10 DEF StridedProper

(* The adder steps from one element to the next by adding the stride        *)
(* register to the accumulator.                                             *)
LEMMA AddressMoved ==
  ASSUME NEW answer, Moving(answer), NEW a \in Int, Points(add_o, a),
         switch', ctrl_vector'.opa = "acc", ctrl_vector'.opb = "rs2", NEW n \in Int, Points(dp'.rs2, n)
  PROVE  Points(add_o', a + n)
<1>1. opa' = add_o /\ opb' = dp'.rs2
  BY MovingFacts DEF opa, opb, out
<1>2. add_o' = Add(add_o, dp'.rs2)
  BY <1>1 DEF add_o
<1>. QED BY <1>2, PointsAdd

(* A strided access starts with element 0.                                  *)
LEMMA StridedAccessStart ==
  ASSUME Context, Data, ex = "EXECUTE", StartStrided, ir.op \in {"vload", "vstore"}, ir.mode = "strided",
         NEW answer, Datapath(answer), ir' = ir, atIssue' = atIssue
  PROVE  /\ StridedAccess(0)' /\ v'.state = "S_MEM_ADDR_STRIDED" /\ switch' /\ ~ctrl_vector'.wb
         /\ ctrl_vector'.mem = "strided" /\ Points(add_o', Elem(0))
         /\ v'.rd = ir.rd /\ v'.rs2 = ir.rs2 /\ v'.mop = TRUE
<1>1. v'.state = "S_MEM_ADDR_STRIDED" /\ switch' /\ v'.c1 = 0 /\ v'.rd = ir.rd
      /\ v'.rs2 = RegAdd(ir.rs2, 0) /\ v'.mop = TRUE
  BY DEF StartStrided, Latch, Hold
<1>2. /\ ctrl_vector'.mem = "strided" /\ ctrl_vector'.size = ir.size /\ ~ctrl_vector'.wb
      /\ ~ctrl_vector'.vwe /\ ~ctrl_vector'.zero /\ ctrl_vector'.mo
      /\ ctrl_vector'.opa = "rs1" /\ ctrl_vector'.opb = "zero"
  BY DEF StartStrided, NextCtrl, NoCtrl
<1>3. add_o' = Add(atIssue.rf[ir.rs1], Scalar(0))
  <2>1. opa' = dp'.rs1 /\ opb' = Scalar(0)
    BY <1>1, <1>2 DEF opa, opb, out, Zero
  <2>. QED BY <2>1, StartData DEF Context, add_o
<1>4. Points(atIssue.rf[ir.rs1], Elem(0)) /\ Elem(0) \in Int
  BY StridedElems
<1>5. Points(add_o', Elem(0))
  <2>1. Points(Scalar(0), 0) /\ Elem(0) + 0 = Elem(0)
    BY <1>4, ScalarPoints
  <2>2. Points(Add(atIssue.rf[ir.rs1], Scalar(0)), Elem(0) + 0)
    BY <1>4, <2>1, PointsAdd
  <2>. QED BY <1>3, <2>1, <2>2
<1>6. RegAdd(ir.rs2, 0) = ir.rs2
  BY ContextFacts, RegZero DEF RegAdd, Reg
<1>7. StridedAccess(0)'
  BY <1>1, <1>2 DEF StridedAccess, MemWord
<1>. QED BY <1>1, <1>2, <1>5, <1>6, <1>7

(* The address of element k goes from the adder to the bus.                 *)
LEMMA StridedAccessAddr ==
  ASSUME NEW answer, Moving(answer), ir.op \in {"vload", "vstore"}, ir.mode = "strided", MemAddrStrided,
         NEW k \in 0 .. Last - 1, StridedAccess(k), Points(add_o, Elem(k))
  PROVE  /\ StridedAccess(k)' /\ v'.state = "S_MEM_REQ_STRIDED" /\ switch' /\ ~ctrl_vector'.wb
         /\ v.state = "S_MEM_ADDR_STRIDED" /\ answer # "ack"
         /\ Points(add_o', Elem(k)) /\ bus'.wdata = dp.rs2 /\ bus'.size = ir.size
<1>0. v.state = "S_MEM_ADDR_STRIDED" /\ Context /\ v \in VectorType /\ k \in Nat /\ answer # "ack"
      /\ ir' = ir /\ \A j : Elem(j)' = Elem(j)
  BY MovingFacts, MovingBus DEF MemAddrStrided, Moving, WaitStates
<1>1. v'.state = "S_MEM_REQ_STRIDED" /\ v'.c1 = v.c1 /\ switch'
  BY <1>0 DEF MemAddrStrided, VectorType, Hold
<1>2. start = IF ir.op = "vload" THEN "load_strided" ELSE "store_strided"
  BY MovingFacts DEF Kind
<1>. DEFINE c == [StridedAcc EXCEPT !.size = ir.size]
<1>3. ctrl_vector' = [c EXCEPT !.rd = TRUE] \/ ctrl_vector' = [c EXCEPT !.wr = TRUE]
  BY <1>2 DEF MemAddrStrided, NextCtrl
<1>4. ctrl_vector.mem = "strided" /\ ctrl_vector.size = ir.size /\ ctrl_vector.mo /\ v.c1 = k
  BY <1>0 DEF StridedAccess, MemWord
<1>5. /\ ctrl_vector'.mem = "strided" /\ ctrl_vector'.size = ir.size /\ ~ctrl_vector'.wb
      /\ ~ctrl_vector'.vwe /\ ~ctrl_vector'.zero /\ ~ctrl_vector'.mo
      /\ ctrl_vector'.opa = "acc" /\ ctrl_vector'.opb = "zero"
  BY <1>3 DEF StridedAcc, Strided, NoCtrl
<1>6. Elem(k) \in Int /\ ~Misaligned(Elem(k), ir.size)
  BY <1>0, StridedElems
<1>7. Points(add_o', Elem(k))
  BY <1>1, <1>5, <1>6, AddressHeld
<1>8. bus'.mar = Elem(k) /\ ~bus'.mis /\ bus'.wdata = dp.rs2 /\ bus'.size = ir.size
  BY <1>4, <1>6, MovingBus, PointsNum DEF addr
<1>9. \A j \in 0 .. k - 1 : ~Faulty(Elem(j))
  BY DEF StridedAccess
<1>10. StridedAccess(k)'
  BY <1>0, <1>1, <1>4, <1>5, <1>8, <1>9 DEF StridedAccess, MemWord
<1>. QED BY <1>0, <1>1, <1>5, <1>7, <1>8, <1>10

(* The request, and a wait without an answer.                               *)
LEMMA StridedAccessReq ==
  ASSUME NEW answer, Moving(answer), ir.op \in {"vload", "vstore"}, ir.mode = "strided",
         MemReqStrided \/ (MemWaitStrided(answer) /\ answer # "ack"),
         NEW k \in 0 .. Last - 1, StridedAccess(k)
  PROVE  /\ StridedAccess(k)' /\ v'.state = "S_MEM_WAIT_STRIDED" /\ switch' /\ ~ctrl_vector'.wb
         /\ v.state \in {"S_MEM_REQ_STRIDED", "S_MEM_WAIT_STRIDED"} /\ answer # "ack"
         /\ ctrl_vector'.opa = "acc"
         /\ ctrl_vector'.opb = (IF v.state = "S_MEM_REQ_STRIDED" /\ ir.op = "vstore" THEN "rs2" ELSE "zero")
         /\ bus'.wdata = bus.wdata /\ bus'.size = bus.size
<1>0. v.state \in {"S_MEM_REQ_STRIDED", "S_MEM_WAIT_STRIDED"} /\ Context /\ v \in VectorType
      /\ k \in Nat /\ k <= 126 /\ answer # "ack" /\ ir' = ir /\ \A j : Elem(j)' = Elem(j)
  <2>1. v.state \in {"S_MEM_REQ_STRIDED", "S_MEM_WAIT_STRIDED"}
    BY DEF MemReqStrided, MemWaitStrided
  <2>2. answer # "ack"
    <3>1. MemReqStrided => v.state \notin WaitStates
      BY DEF MemReqStrided, WaitStates
    <3>. QED BY <3>1, MovingBus
  <2>3. Context /\ v \in VectorType /\ Last \in Nat /\ Last <= 127 /\ \A j : Elem(j)' = Elem(j)
    BY MovingFacts
  <2>4. ir' = ir
    BY DEF Moving
  <2>. QED BY <2>1, <2>2, <2>3, <2>4
<1>1. v'.state = "S_MEM_WAIT_STRIDED" /\ switch' /\ v'.c1 = k + 1
  <2>0. start = IF ir.op = "vload" THEN "load_strided" ELSE "store_strided"
    BY MovingFacts DEF Kind
  <2>1. CASE MemReqStrided
    <3>1. v'.state = "S_MEM_WAIT_STRIDED" /\ switch' /\ v'.c1 = Count(v.c1 + 1)
      BY <1>0, <2>0, <2>1 DEF MemReqStrided, VectorType, Hold
    <3>2. v.c1 = k
      BY <2>1 DEF MemReqStrided, StridedAccess
    <3>. QED BY <1>0, <3>1, <3>2 DEF Count
  <2>2. CASE MemWaitStrided(answer) /\ answer # "ack"
    BY <1>0, <2>2 DEF MemWaitStrided, StridedAccess, Hold
  <2>. QED BY <2>1, <2>2
<1>. DEFINE o == IF v.state = "S_MEM_REQ_STRIDED" /\ ir.op = "vstore" THEN "rs2" ELSE "zero"
<1>2. ctrl_vector' = [StridedAcc EXCEPT !.mux = "mem", !.opb = o] \/ (o = "zero" /\ ctrl_vector' = [StridedAcc EXCEPT !.mux = "mem"])
  <2>0. start = IF ir.op = "vload" THEN "load_strided" ELSE "store_strided"
    BY MovingFacts DEF Kind
  <2>1. CASE MemReqStrided
    <3>1. v.state = "S_MEM_REQ_STRIDED"
      BY <2>1 DEF MemReqStrided
    <3>2. o = IF start = "store_strided" THEN "rs2" ELSE "zero"
      BY <2>0, <3>1
    <3>. QED BY <2>1, <3>2 DEF MemReqStrided, NextCtrl
  <2>2. CASE MemWaitStrided(answer) /\ answer # "ack"
    BY <1>0, <2>2 DEF MemWaitStrided, NextCtrl
  <2>. QED BY <2>1, <2>2
<1>. HIDE DEF o
<1>3. ctrl_vector.mem = "strided" /\ ctrl_vector.size = ir.size /\ ~ctrl_vector.mo
      /\ bus.mar = Elem(k) /\ ~bus.mis
  BY <1>0 DEF StridedAccess, MemWord
<1>4. /\ ctrl_vector'.mem = "strided" /\ ctrl_vector'.size = ir.size /\ ~ctrl_vector'.wb
      /\ ~ctrl_vector'.vwe /\ ~ctrl_vector'.zero /\ ~ctrl_vector'.mo
      /\ ctrl_vector'.opa = "acc" /\ ctrl_vector'.opb = o
  BY <1>2, <1>3 DEF StridedAcc, Strided, NoCtrl
<1>5. bus'.mar = Elem(k) /\ ~bus'.mis /\ bus'.wdata = bus.wdata /\ bus'.size = bus.size
  BY <1>3, MovingBus
<1>6. \A j \in 0 .. k - 1 : ~Faulty(Elem(j))
  BY DEF StridedAccess
<1>7. StridedAccess(k)'
  BY <1>0, <1>1, <1>4, <1>5, <1>6 DEF StridedAccess, MemWord
<1>. QED BY <1>0, <1>1, <1>4, <1>5, <1>7 DEF o

(* The answer to access k.                                                  *)
LEMMA StridedAccessAck ==
  ASSUME NEW answer, Moving(answer), ir.op \in {"vload", "vstore"}, ir.mode = "strided",
         MemWaitStrided(answer), answer = "ack", NEW k \in 0 .. Last - 1, StridedAccess(k)
  PROVE  /\ v.state = "S_MEM_WAIT_STRIDED" /\ v.c1 = k + 1 /\ bus.mar = Elem(k) /\ switch'
         /\ ctrl_vector'.opa = "acc" /\ ctrl_vector'.mux = "mem" /\ ctrl_vector'.mem = "strided"
         /\ ctrl_vector'.size = ir.size /\ ~ctrl_vector'.vwe /\ ~ctrl_vector'.zero
         /\ ctrl_vector'.wb <=> ir.op = "vload" /\ (k + 1 = Last \/ ir.size # "8" \/ (k + 1) % 4 = 0)
         /\ k + 1 # Last => ctrl_vector'.opb = IF ir.op = "vload" THEN "rs2" ELSE "zero"
         /\ v'.state = (IF k + 1 = Last THEN "S_IDLE" ELSE "S_MEM_ADDR_STRIDED")
         /\ v'.rd = v.rd /\ v'.rs2 = v.rs2 /\ (k + 1 # Last => v'.mop = FALSE)
         /\ k + 1 # Last => StridedAccess(k + 1)' /\ k + 1 \in 0 .. Last - 1
<1>0. v.state = "S_MEM_WAIT_STRIDED" /\ Context /\ v \in VectorType /\ Last \in Nat
      /\ k \in Nat /\ ir' = ir /\ (\A j : Elem(j)' = Elem(j)) /\ csr_vl = Last
  BY MovingFacts, ContextFacts DEF MemWaitStrided, Moving
<1>1. start = IF ir.op = "vload" THEN "load_strided" ELSE "store_strided"
  BY MovingFacts DEF Kind
<1>2. v.c1 = k + 1 /\ bus.mar = Elem(k) /\ ctrl_vector.size = ir.size
  BY <1>0 DEF StridedAccess, MemWord
<1>. DEFINE stop == v.c1 = csr_vl
            wait == [StridedAcc EXCEPT !.mux = "mem"]
            write == stop \/ ir.size # "8" \/ v.c1 % 4 = 0
<1>3. stop <=> k + 1 = Last
  BY <1>0, <1>2
<1>4. v' = [v EXCEPT !.state = IF stop THEN "S_IDLE" ELSE "S_MEM_ADDR_STRIDED",
                     !.c1 = IF stop THEN 0 ELSE v.c1, !.mop = stop /\ v.mop] /\ switch'
  BY <1>1 DEF MemWaitStrided, Hold
<1>5. ctrl_vector' = IF ir.op = "vload"
                     THEN [wait EXCEPT !.mo = ~stop, !.opb = IF stop THEN wait.opb ELSE "rs2", !.wb = write]
                     ELSE [wait EXCEPT !.mo = ~stop]
  BY <1>1 DEF MemWaitStrided, NextCtrl
<1>6. stop \in BOOLEAN /\ write \in BOOLEAN /\ (~stop) \in BOOLEAN
  OBVIOUS
<1>. DEFINE next == IF stop THEN "S_IDLE" ELSE "S_MEM_ADDR_STRIDED"
            c == IF stop THEN 0 ELSE v.c1
            m == stop /\ v.mop
            go == ~stop
            o == IF stop THEN wait.opb ELSE "rs2"
<1>7. v'.state = next /\ v'.c1 = c /\ v'.mop = m /\ v'.rd = v.rd /\ v'.rs2 = v.rs2
  <2>1. v' = [v EXCEPT !.state = next, !.c1 = c, !.mop = m]
    BY <1>4
  <2>. HIDE DEF next, c, m
  <2>. QED BY <1>0, <2>1 DEF VectorType
<1>8. /\ ctrl_vector'.opa = "acc" /\ ctrl_vector'.mux = "mem" /\ ctrl_vector'.mem = "strided"
      /\ ctrl_vector'.size = ir.size /\ ~ctrl_vector'.vwe /\ ~ctrl_vector'.zero
      /\ (ctrl_vector'.wb <=> ir.op = "vload" /\ write) /\ ctrl_vector'.mo = go
      /\ ctrl_vector'.opb = IF ir.op = "vload" THEN o ELSE "zero"
  <2>1. CASE ir.op = "vload"
    <3>1. ctrl_vector' = [wait EXCEPT !.mo = go, !.opb = o, !.wb = write]
      BY <1>5, <2>1
    <3>. HIDE DEF go, o, write, stop
    <3>. QED BY <1>2, <2>1, <3>1 DEF StridedAcc, Strided, NoCtrl
  <2>2. CASE ir.op # "vload"
    <3>1. ctrl_vector' = [wait EXCEPT !.mo = go]
      BY <1>5, <2>2
    <3>. HIDE DEF go, o, write, stop
    <3>. QED BY <1>2, <2>2, <3>1 DEF StridedAcc, Strided, NoCtrl
  <2>. QED BY <2>1, <2>2
<1>9. (ctrl_vector'.wb <=> ir.op = "vload" /\ (k + 1 = Last \/ ir.size # "8" \/ (k + 1) % 4 = 0))
      /\ (k + 1 # Last => ctrl_vector'.mo /\ ctrl_vector'.opb = IF ir.op = "vload" THEN "rs2" ELSE "zero")
      /\ v'.state = (IF k + 1 = Last THEN "S_IDLE" ELSE "S_MEM_ADDR_STRIDED")
      /\ (k + 1 # Last => v'.mop = FALSE /\ v'.c1 = k + 1)
  BY <1>2, <1>3, <1>7, <1>8
<1>10. ~Faulty(Elem(k))
  BY <1>2, MovingBus
<1>11. ASSUME k + 1 # Last PROVE StridedAccess(k + 1)' /\ k + 1 \in 0 .. Last - 1
  <2>1. \A j \in 0 .. (k + 1) - 1 : j = k \/ j \in 0 .. k - 1
    BY <1>0
  <2>2. \A j \in 0 .. (k + 1) - 1 : ~Faulty(Elem(j))
    BY <1>10, <2>1 DEF StridedAccess
  <2>3. k + 1 \in 0 .. Last - 1
    BY <1>0, <1>11
  <2>4. StridedAccess(k + 1)'
    BY <1>0, <1>8, <1>9, <1>11, <2>2 DEF StridedAccess, MemWord
  <2>. QED BY <2>3, <2>4
<1>. HIDE DEF stop, wait, write, next, c, m, go, o
<1>. QED BY <1>0, <1>2, <1>4, <1>7, <1>8, <1>9, <1>11

-----------------------------------------------------------------------------
(* Strided stores                                                           *)

(* A strided store starts with nothing stored.                              *)
LEMMA StoringStridedStart ==
  ASSUME Context, Data, ex = "EXECUTE", StartStrided, ir.op = "vstore", ir.mode = "strided",
         NEW answer \in Answers, Datapath(answer), BusUnit(answer), Handshake,
         ir' = ir, atIssue' = atIssue
  PROVE  StoringStrided'
<1>1. /\ StridedAccess(0)' /\ v'.state = "S_MEM_ADDR_STRIDED" /\ ~ctrl_vector'.wb
      /\ Points(add_o', Elem(0)) /\ v'.rd = ir.rd /\ v'.rs2 = ir.rs2
  BY StridedAccessStart
<1>2. Reg(ir.rs2, 0) = ir.rs2
  BY ContextFacts, RegZero
<1>3. rf' = atIssue.rf /\ dp'.rs2 = Src(ir.rs2, 0)
  BY <1>2, StartData DEF Context, Src
<1>4. stored' = stored /\ stored = atIssue.stored
  <2>1. slave # "wr"
    BY DEF Handshake, Pending, TrapStates
  <2>. QED BY <2>1 DEF BusUnit, Data, Accesses
<1>5. Stored(0)
  BY <1>4, StoresNone DEF Stored, Context, AtIssue
<1>6. Stored(0)'
  BY <1>4, <1>5 DEF Stored
<1>7. Last' = Last /\ Last \in Nat /\ Last >= 1 /\ \A r, j : Src(r, j)' = Src(r, j)
  BY ContextFacts DEF Last, Src, Counter
<1>8. Points(add_o, Elem(0))'
  BY <1>1 DEF Points, Elem
<1>. HIDE DEF Last
<1>9. StoringStridedAt(0)'
  BY <1>1, <1>2, <1>3, <1>6, <1>7, <1>8 DEF StoringStridedAt
<1>10. ~ctrl_vector'.vwe /\ ~ctrl_vector'.zero
  BY <1>1 DEF StridedAccess, MemWord
<1>11. 0 \in 0 .. Last' - 1
  BY <1>7
<1>. QED BY <1>1, <1>3, <1>9, <1>10, <1>11 DEF StoringStrided, Untouched

(* Every clock of a strided store.                                          *)
LEMMA StoringStridedStep ==
  ASSUME NEW answer, Moving(answer), ir.op = "vstore", ir.mode = "strided", StoringStrided,
         MemAddrStrided \/ MemReqStrided \/ MemWaitStrided(answer)
  PROVE  StoringStrided'
<1>0. /\ v \in VectorType /\ Context /\ Last \in Nat /\ Last <= 127 /\ csr_vl = Last
      /\ Last' = Last /\ (\A r, j : Src(r, j)' = Src(r, j)) /\ (\A j : Elem(j)' = Elem(j))
      /\ Untouched /\ start = "store_strided" /\ ir' = ir
  BY MovingFacts, ContextFacts DEF Moving, StoringStrided, Kind
<1>. HIDE DEF Last
<1>1. Untouched'
  BY UntouchedStep DEF StoringStrided
<1>2. PICK k \in 0 .. Last - 1 : StoringStridedAt(k)
  BY DEF StoringStrided, MemAddrStrided, MemReqStrided, MemWaitStrided
<1>3. k \in Nat /\ k + 1 \in Nat /\ StridedAccess(k) /\ Stored(k)
  BY <1>2 DEF StoringStridedAt
<1>4. RegAdd(Reg(ir.rs2, k), 1) = Reg(ir.rs2, k + 1)
  BY <1>0, <1>3, ContextFacts, RegNext
<1>5. answer # "ack" => Stored(k)'
  BY <1>0, <1>3, MovingBus DEF Stored, Moving
<1>6. /\ Elem(k) \in Int /\ Elem(k + 1) \in Int /\ Elem(k + 1) = Elem(k) + StrideOf /\ StrideOf \in Int
      /\ Points(atIssue.rf[ir.rd], StrideOf)
  BY <1>0, <1>3, StridedElems DEF StrideReg
<1>7. CASE MemAddrStrided
  <2>1. v.state = "S_MEM_ADDR_STRIDED"
    BY <1>7 DEF MemAddrStrided
  <2>2. Points(add_o, Elem(k)) /\ dp.rs2 = Src(ir.rs2, k) /\ v.rs2 = Reg(ir.rs2, k) /\ v.rd = ir.rd
    BY <1>2, <2>1 DEF StoringStridedAt
  <2>3. /\ StridedAccess(k)' /\ v'.state = "S_MEM_REQ_STRIDED" /\ ~ctrl_vector'.wb /\ answer # "ack"
        /\ Points(add_o', Elem(k)) /\ bus'.wdata = dp.rs2 /\ bus'.size = ir.size
    BY <1>0, <1>3, <1>7, <2>2, StridedAccessAddr
  <2>4. v'.rs2 = ir.rd /\ v'.rd = Reg(ir.rs2, k + 1)
    BY <1>0, <1>4, <1>7, <2>2 DEF MemAddrStrided, VectorType
  <2>5. Points(add_o, Elem(k))'
    BY <1>0, <2>3 DEF Points
  <2>6. StoringStridedAt(k)'
    BY <1>0, <1>5, <2>2, <2>3, <2>4, <2>5 DEF StoringStridedAt
  <2>. QED BY <1>0, <1>1, <2>3, <2>6 DEF StoringStrided, StridedAccess, MemWord
<1>8. CASE MemReqStrided
  <2>1. v.state = "S_MEM_REQ_STRIDED"
    BY <1>8 DEF MemReqStrided
  <2>2. Points(add_o, Elem(k)) /\ v.rs2 = ir.rd /\ v.rd = Reg(ir.rs2, k + 1)
        /\ bus.wdata = Src(ir.rs2, k) /\ bus.size = ir.size
    BY <1>2, <2>1 DEF StoringStridedAt
  <2>3. /\ StridedAccess(k)' /\ v'.state = "S_MEM_WAIT_STRIDED" /\ switch' /\ ~ctrl_vector'.wb /\ answer # "ack"
        /\ ctrl_vector'.opa = "acc" /\ ctrl_vector'.opb = "rs2"
        /\ bus'.wdata = bus.wdata /\ bus'.size = bus.size
    BY <1>0, <1>3, <1>8, <2>1, StridedAccessReq
  <2>4. v'.rs2 = Reg(ir.rs2, k + 1) /\ v'.rd = ir.rd
    BY <1>0, <1>8, <2>2 DEF MemReqStrided, VectorType
  <2>5. dp'.rs2 = atIssue.rf[ir.rd]
    BY <1>0, <2>2, MovingFacts DEF Untouched
  <2>6. Points(add_o', Elem(k + 1))
    BY <1>6, <2>2, <2>3, <2>5, AddressMoved
  <2>7. Points(add_o, Elem(k + 1))'
    BY <1>0, <2>6 DEF Points
  <2>8. StoringStridedAt(k)'
    BY <1>0, <1>5, <2>2, <2>3, <2>4, <2>7 DEF StoringStridedAt
  <2>. QED BY <1>0, <1>1, <2>3, <2>8 DEF StoringStrided, StridedAccess, MemWord
<1>9. CASE MemWaitStrided(answer) /\ answer # "ack"
  <2>1. v.state = "S_MEM_WAIT_STRIDED" /\ v' = v
    BY <1>9 DEF MemWaitStrided
  <2>2. Points(add_o, Elem(k + 1)) /\ v.rs2 = Reg(ir.rs2, k + 1) /\ v.rd = ir.rd
        /\ bus.wdata = Src(ir.rs2, k) /\ bus.size = ir.size
    BY <1>2, <2>1 DEF StoringStridedAt
  <2>3. /\ StridedAccess(k)' /\ v'.state = "S_MEM_WAIT_STRIDED" /\ switch' /\ ~ctrl_vector'.wb
        /\ ctrl_vector'.opa = "acc" /\ ctrl_vector'.opb = "zero"
        /\ bus'.wdata = bus.wdata /\ bus'.size = bus.size
    BY <1>0, <1>3, <1>9, <2>1, StridedAccessReq
  <2>4. Points(add_o', Elem(k + 1))
    BY <1>6, <2>2, <2>3, AddressHeld
  <2>5. Points(add_o, Elem(k + 1))'
    BY <1>0, <2>4 DEF Points
  <2>6. StoringStridedAt(k)'
    BY <1>0, <1>5, <1>9, <2>1, <2>2, <2>3, <2>5 DEF StoringStridedAt
  <2>. QED BY <1>0, <1>1, <2>3, <2>6 DEF StoringStrided, StridedAccess, MemWord
<1>10. CASE MemWaitStrided(answer) /\ answer = "ack"
  <2>1. /\ v.state = "S_MEM_WAIT_STRIDED" /\ v.c1 = k + 1 /\ bus.mar = Elem(k) /\ switch'
        /\ ctrl_vector'.opa = "acc" /\ ~ctrl_vector'.vwe /\ ~ctrl_vector'.zero /\ ~ctrl_vector'.wb
        /\ k + 1 # Last => ctrl_vector'.opb = "zero"
        /\ v'.state = (IF k + 1 = Last THEN "S_IDLE" ELSE "S_MEM_ADDR_STRIDED")
        /\ v'.rd = v.rd /\ v'.rs2 = v.rs2
        /\ k + 1 # Last => StridedAccess(k + 1)' /\ k + 1 \in 0 .. Last - 1
    BY <1>0, <1>3, <1>10, StridedAccessAck
  <2>2. Points(add_o, Elem(k + 1)) /\ v.rs2 = Reg(ir.rs2, k + 1) /\ v.rd = ir.rd
        /\ bus.wdata = Src(ir.rs2, k) /\ bus.size = ir.size
    BY <1>2, <2>1 DEF StoringStridedAt
  <2>3. stored' = Append(stored, <<Elem(k), StoreSize(ir), Src(ir.rs2, k)>>)
    BY <1>0, <1>10, <2>1, <2>2, MovingBus DEF StoreSize
  <2>4. Stored(k + 1)'
    BY <1>0, <1>3, <2>3, StoredNext DEF Stored, Moving
  <2>5. CASE k + 1 = Last
    BY <1>0, <1>1, <2>1, <2>4, <2>5 DEF StoringStrided
  <2>6. CASE k + 1 # Last
    <3>1. dp'.rs2 = Src(ir.rs2, k + 1)
      BY <1>0, <2>2, MovingFacts DEF Untouched, Src
    <3>2. Points(add_o', Elem(k + 1))
      BY <1>6, <2>1, <2>2, <2>6, AddressHeld
    <3>3. Points(add_o, Elem(k + 1))'
      BY <1>0, <3>2 DEF Points
    <3>4. StoringStridedAt(k + 1)'
      BY <1>0, <2>1, <2>2, <2>4, <2>6, <3>1, <3>3 DEF StoringStridedAt
    <3>. QED BY <1>0, <1>1, <2>1, <2>6, <3>4 DEF StoringStrided
  <2>. QED BY <2>5, <2>6
<1>. QED BY <1>7, <1>8, <1>9, <1>10

-----------------------------------------------------------------------------
(* Strided loads                                                            *)

(* The bytes that the buffer holds before access k, and after it.           *)
Bunch(k) == [j \in 1 .. k % 4 |-> Elem(4 * (k \div 4) + j - 1)]

(* And after it, or the whole word of a load of words.                      *)
Fetched(k) ==
  IF ir.size = "8" THEN [j \in 1 .. (k % 4) + 1 |-> Elem(4 * (k \div 4) + j - 1)]
  ELSE [j \in 1 .. 4 |-> Elem(k) + j - 1]

(* When the bytes after access k fill a register, and what they are for it. *)
LEMMA FetchedFacts ==
  ASSUME Context, ir.op = "vload", ir.mode = "strided", NEW k \in 0 .. Last - 1
  PROVE  /\ ir.size \in {"8", "32"} /\ Group(k) \in 0 .. DestOf - 1
         /\ k + 1 = Last => Group(k) + 1 = DestOf
         /\ Fetched(k) \in Seq(Int) /\ Len(Fetched(k)) \in 1 .. 4
         /\ ir.size = "32" \/ (k + 1) % 4 = 0 <=> Len(Fetched(k)) = 4
         /\ Group(k + 1) = (IF Len(Fetched(k)) = 4 THEN Group(k) + 1 ELSE Group(k))
         /\ ir.size = "8" => Bunch(k + 1) = (IF Len(Fetched(k)) = 4 THEN << >> ELSE Fetched(k))
         /\ k + 1 = Last \/ Len(Fetched(k)) = 4 =>
              Wanted(ir, atIssue.rf, Last, Bytes(Fetched(k)), Group(k))
<1>0. ir.size \in {"8", "32"} /\ Last \in Nat /\ k \in Nat /\ k < Last
  BY ContextFacts DEF Counter, Context, ProgramProper, Proper
<1>1. /\ ir.size = "32" => DestOf = Last
      /\ ir.size = "8" => DestOf = Groups(Last)
  BY DEF DestOf, DestCount, Last
<1>2. \A j \in Nat : Elem(j) \in Int
  BY StridedElems
<1>. HIDE DEF Last, DestOf
<1>3. CASE ir.size = "32"
  <2>1. Fetched(k) = [j \in 1 .. 4 |-> Elem(k) + j - 1] /\ Elem(k) \in Int
    BY <1>0, <1>2, <1>3 DEF Fetched
  <2>2. \A j \in 1 .. 4 : Elem(k) + j - 1 \in Int
    BY <2>1
  <2>3. Fetched(k) \in Seq(Int) /\ Len(Fetched(k)) = 4
    BY <2>1, <2>2
  <2>4. ASSUME NEW j \in 0 .. 3
        PROVE  j + 1 \in DOMAIN Fetched(k) /\ Fetched(k)[j + 1] = ByteOf(ir, atIssue.rf, k, j)
    <3>1. j + 1 \in 1 .. 4 /\ ByteOf(ir, atIssue.rf, k, j) = Elem(k) + j
      BY <1>3 DEF ByteOf, Elem
    <3>2. Fetched(k)[j + 1] = Elem(k) + (j + 1) - 1
      BY <2>1, <3>1
    <3>. QED BY <2>1, <3>1, <3>2
  <2>5. Wanted(ir, atIssue.rf, Last, Bytes(Fetched(k)), k)
    BY <2>4, <1>3 DEF Wanted, Brings, Bytes
  <2>6. Group(k) = k /\ Group(k + 1) = k + 1
    BY <1>3 DEF Group
  <2>. QED BY <1>0, <1>1, <1>3, <2>3, <2>5, <2>6
<1>4. CASE ir.size = "8"
  <2>. DEFINE q == k \div 4
              s == k % 4
              f == [j \in 1 .. s + 1 |-> Elem(4 * q + j - 1)]
  <2>1. k = 4 * q + s /\ q \in Nat /\ s \in 0 .. 3
    BY <1>0
  <2>2. Fetched(k) = f
    BY <1>4 DEF Fetched
  <2>3. \A j \in 1 .. s + 1 : 4 * q + j - 1 \in Nat
    BY <2>1
  <2>4. /\ Group(k) = q /\ Group(k + 1) = IF s = 3 THEN q + 1 ELSE q
        /\ (k + 1) % 4 = IF s = 3 THEN 0 ELSE s + 1
        /\ (k + 1) \div 4 = IF s = 3 THEN q + 1 ELSE q
    BY <1>0, <1>4 DEF Group
  <2>5. q \in 0 .. DestOf - 1 /\ (k + 1 = Last => q + 1 = DestOf)
    BY <1>0, <1>1, <1>4 DEF Groups
  <2>6. Bunch(k + 1) = IF s = 3 THEN << >> ELSE f
    BY <2>1, <2>4 DEF Bunch
  <2>. HIDE DEF q, s
  <2>7. \A j \in 1 .. s + 1 : Elem(4 * q + j - 1) \in Int
    BY <1>2, <2>3
  <2>8. f \in Seq(Int) /\ Len(f) = s + 1 /\ DOMAIN f = 1 .. s + 1
        /\ \A j \in 1 .. s + 1 : f[j] = Elem(4 * q + j - 1)
    BY <2>1, <2>7
  <2>. HIDE DEF f
  <2>9. ASSUME k + 1 = Last \/ s = 3, NEW j \in 0 .. 3, 4 * q + j < Last
        PROVE  j + 1 \in DOMAIN f /\ f[j + 1] = ByteOf(ir, atIssue.rf, q, j)
    <3>1. j + 1 \in 1 .. s + 1 /\ 4 * q + (j + 1) - 1 = 4 * q + j
      BY <1>0, <2>1, <2>9
    <3>2. ByteOf(ir, atIssue.rf, q, j) = Elem(4 * q + j)
      BY <1>4 DEF ByteOf, Elem
    <3>. QED BY <2>8, <3>1, <3>2
  <2>10. k + 1 = Last \/ s = 3 => Wanted(ir, atIssue.rf, Last, Bytes(f), q)
    BY <1>4, <2>9 DEF Wanted, Brings, Bytes
  <2>11. (Len(f) = 4 <=> s = 3) /\ Len(f) \in 1 .. 4 /\ ((k + 1) % 4 = 0 <=> s = 3)
    BY <2>1, <2>4, <2>8
  <2>12. Group(k + 1) = (IF Len(f) = 4 THEN q + 1 ELSE q) /\ Bunch(k + 1) = (IF Len(f) = 4 THEN << >> ELSE f)
    BY <2>4, <2>6, <2>11
  <2>. HIDE DEF Bunch, Group
  <2>. QED BY <1>4, <2>2, <2>4, <2>5, <2>8, <2>10, <2>11, <2>12
<1>. QED BY <1>0, <1>3, <1>4

-----------------------------------------------------------------------------
(* Strided loads, step by step                                              *)

(* What depends only on the instruction and on the state it was issued in.  *)
LEMMA LastingStrided ==
  ASSUME ir' = ir, atIssue' = atIssue
  PROVE  /\ Last' = Last /\ DestOf' = DestOf
         /\ \A k : Group(k)' = Group(k)
         /\ \A k : Elem(k)' = Elem(k)
         /\ \A k : Bunch(k)' = Bunch(k)
         /\ \A k : DoneOf(rfNext, k)' <=> DoneOf(rfNext', k)
         /\ \A k : Points(add_o, Elem(k))' <=> Points(add_o', Elem(k))
<1>1. Last' = Last /\ DestOf' = DestOf
  BY DEF Last, DestOf
<1>2. \A k : Group(k)' = Group(k)
  BY DEF Group
<1>3. \A k : Elem(k)' = Elem(k)
  BY DEF Elem
<1>4. \A k : Bunch(k)' = Bunch(k)
  BY <1>3 DEF Bunch
<1>5. \A k : DoneOf(rfNext, k)' <=> DoneOf(rfNext', k)
  BY DEF DoneOf
<1>6. \A k : Points(add_o, Elem(k))' <=> Points(add_o', Elem(k))
  BY <1>3 DEF Points
<1>. QED BY <1>1, <1>2, <1>3, <1>4, <1>5, <1>6

(* The state of access k, in the terms of the lemmas.                       *)
LEMMA LoadingStridedState ==
  ASSUME NEW k
  PROVE  LoadingStridedAt(k) <=>
           /\ StridedAccess(k) /\ Points(add_o, Elem(k))
           /\ DoneOf(rfNext, Group(k))
           /\ Kept = (IF ir.size = "8" THEN Bunch(k) ELSE << >>)
           /\ v.mop = (k = 0)
           /\ v.rd = Reg(ir.rd, Group(IF v.state = "S_MEM_ADDR_STRIDED" /\ k > 0 THEN k - 1 ELSE k))
           /\ v.state = "S_MEM_WAIT_STRIDED" => v.rs2 = ir.rs2 /\ ctrl_vector.opb = "zero"
BY DEF LoadingStridedAt, Bunch

(* A strided load starts with an empty buffer.                              *)
LEMMA LoadingStridedStart ==
  ASSUME Context, Data, ex = "EXECUTE", StartStrided, ir.op = "vload", ir.mode = "strided",
         NEW answer, Datapath(answer), ir' = ir, atIssue' = atIssue
  PROVE  LoadingStrided'
<1>1. /\ StridedAccess(0)' /\ v'.state = "S_MEM_ADDR_STRIDED" /\ switch' /\ ~ctrl_vector'.wb
      /\ ctrl_vector'.mem = "strided" /\ Points(add_o', Elem(0))
      /\ v'.rd = ir.rd /\ v'.rs2 = ir.rs2 /\ v'.mop = TRUE
  BY StridedAccessStart
<1>2. Reg(ir.rd, 0) = ir.rd /\ Group(0) = 0 /\ Last \in Nat /\ 0 < Last
  BY ContextFacts, RegZero DEF Group, Counter
<1>3. ~ctrl_vector'.vwe /\ ~ctrl_vector'.zero
  BY <1>1 DEF StridedAccess, MemWord
<1>4. rfNext' = rf' /\ Kept' = dp'.vbuf
  BY <1>1, <1>3, BufferWrite
<1>5. rf' = atIssue.rf /\ dp'.vbuf = << >>
  BY StartData DEF Context
<1>6. DoneOf(rfNext', 0)
  BY <1>4, <1>5, DoneStart
<1>7. Bunch(0) = << >>
  BY DEF Bunch
<1>8. LoadingStridedAt(0)'
  <2>1. TRUE = (0 = 0)
    OBVIOUS
  <2>2. v'.mop = (0 = 0)
    BY <1>1, <2>1, Zenon
  <2>3. DoneOf(rfNext, 0)' /\ Points(add_o, Elem(0))' /\ Group(0)' = 0 /\ Bunch(0)' = << >>
    BY <1>1, <1>2, <1>6, <1>7, LastingStrided
  <2>. QED BY <1>1, <1>2, <1>4, <1>5, <2>2, <2>3 DEF LoadingStridedAt, Bunch
<1>9. 0 \in 0 .. Last' - 1
  BY <1>2, LastingStrided
<1>. QED BY <1>1, <1>3, <1>8, <1>9 DEF LoadingStrided

(* The address of element k goes to the bus.                                *)
LEMMA LoadingStridedAddr ==
  ASSUME NEW answer, Moving(answer), ir.op = "vload", ir.mode = "strided", MemAddrStrided,
         NEW k \in 0 .. Last - 1, LoadingStridedAt(k)
  PROVE  LoadingStridedAt(k)' /\ v'.state = "S_MEM_REQ_STRIDED"
         /\ ~ctrl_vector'.vwe /\ ~ctrl_vector'.zero
<1>0. /\ v \in VectorType /\ Context /\ start = "load_strided" /\ ir' = ir /\ atIssue' = atIssue
      /\ StridedAccess(k) /\ Points(add_o, Elem(k)) /\ ir.rd \in Regs /\ k \in Nat
      /\ ir.size \in {"8", "32"} /\ v.state = "S_MEM_ADDR_STRIDED"
  BY MovingFacts, ContextFacts, FetchedFacts DEF Moving, LoadingStridedAt, Kind, MemAddrStrided
<1>1. /\ StridedAccess(k)' /\ v'.state = "S_MEM_REQ_STRIDED" /\ switch' /\ ~ctrl_vector'.wb
      /\ answer # "ack" /\ Points(add_o', Elem(k))
  BY <1>0, StridedAccessAddr
<1>2. ~ctrl_vector'.vwe /\ ~ctrl_vector'.zero /\ ctrl_vector'.mem = "strided"
  BY <1>1 DEF StridedAccess, MemWord
<1>3. rfNext' = rfNext /\ Kept' = Kept
  <2>1. rfNext' = rf' /\ Kept' = dp'.vbuf
    BY <1>1, <1>2, BufferWrite
  <2>. QED BY <1>1, <2>1, MovingFacts, BufferKept DEF Kept
<1>. DEFINE move == ~v.mop /\ (ir.size = "8" => v.c1 % 4 = 0)
<1>4. v'.mop = v.mop /\ v'.rd = IF move THEN RegAdd(v.rd, 1) ELSE v.rd
  <2>1. v' = [v EXCEPT !.state = "S_MEM_REQ_STRIDED", !.rd = IF move THEN RegAdd(v.rd, 1) ELSE v.rd]
    BY <1>0 DEF MemAddrStrided
  <2>. HIDE DEF move
  <2>. QED BY <1>0, <2>1 DEF VectorType
<1>5. v'.rd = Reg(ir.rd, Group(k))
  <2>1. (v.mop <=> k = 0) /\ v.c1 = k /\ v.rd = Reg(ir.rd, Group(IF k > 0 THEN k - 1 ELSE k))
    BY <1>0 DEF LoadingStridedAt, StridedAccess
  <2>2. CASE k = 0
    BY <1>4, <2>1, <2>2
  <2>3. CASE k > 0
    <3>1. v.rd = Reg(ir.rd, Group(k - 1)) /\ Group(k - 1) \in Nat /\ k - 1 \in Nat
      BY <1>0, <2>1, <2>3 DEF Group
    <3>2. Group(k) = IF move THEN Group(k - 1) + 1 ELSE Group(k - 1)
      BY <1>0, <2>1, <2>3 DEF Group
    <3>3. RegAdd(Reg(ir.rd, Group(k - 1)), 1) = Reg(ir.rd, Group(k - 1) + 1)
      BY <1>0, <3>1, RegNext
    <3>. HIDE DEF move
    <3>. QED BY <1>4, <3>1, <3>2, <3>3
  <2>. QED BY <1>0, <2>2, <2>3
<1>6. LoadingStridedAt(k)'
  <2>1. Kept = (IF ir.size = "8" THEN Bunch(k) ELSE << >>) /\ v.mop = (k = 0) /\ DoneOf(rfNext, Group(k))
    BY LoadingStridedState
  <2>2. Kept' = (IF ir'.size = "8" THEN Bunch(k)' ELSE << >>) /\ v'.mop = (k = 0)
    BY <1>0, <1>3, <1>4, <2>1, LastingStrided
  <2>3. DoneOf(rfNext, Group(k))'
    BY <1>0, <1>3, <2>1 DEF DoneOf, Group
  <2>4. v'.rd = Reg(ir'.rd, Group(k)') /\ Points(add_o, Elem(k))'
    BY <1>0, <1>1, <1>5, LastingStrided
  <2>. QED BY <1>1, <2>2, <2>3, <2>4 DEF LoadingStridedAt, Bunch
<1>. QED BY <1>1, <1>2, <1>6

(* The request, and a wait without an answer.                               *)
LEMMA LoadingStridedReq ==
  ASSUME NEW answer, Moving(answer), ir.op = "vload", ir.mode = "strided",
         MemReqStrided \/ (MemWaitStrided(answer) /\ answer # "ack"),
         NEW k \in 0 .. Last - 1, LoadingStridedAt(k)
  PROVE  LoadingStridedAt(k)' /\ v'.state = "S_MEM_WAIT_STRIDED"
         /\ ~ctrl_vector'.vwe /\ ~ctrl_vector'.zero
<1>0. /\ v \in VectorType /\ Context /\ start = "load_strided" /\ ir' = ir /\ atIssue' = atIssue
      /\ StridedAccess(k) /\ Points(add_o, Elem(k)) /\ k \in Nat
  BY MovingFacts DEF Moving, LoadingStridedAt, Kind
<1>1. /\ StridedAccess(k)' /\ v'.state = "S_MEM_WAIT_STRIDED" /\ switch' /\ ~ctrl_vector'.wb
      /\ v.state \in {"S_MEM_REQ_STRIDED", "S_MEM_WAIT_STRIDED"} /\ answer # "ack"
      /\ ctrl_vector'.opa = "acc" /\ ctrl_vector'.opb = "zero"
  BY <1>0, StridedAccessReq
<1>2. ~ctrl_vector'.vwe /\ ~ctrl_vector'.zero /\ ctrl_vector'.mem = "strided"
  BY <1>1 DEF StridedAccess, MemWord
<1>3. rfNext' = rfNext /\ Kept' = Kept
  <2>1. rfNext' = rf' /\ Kept' = dp'.vbuf
    BY <1>1, <1>2, BufferWrite
  <2>. QED BY <1>1, <2>1, MovingFacts, BufferKept DEF Kept
<1>4. v'.mop = v.mop /\ v'.rd = v.rd /\ v'.rs2 = ir.rs2
  <2>1. CASE MemReqStrided
    BY <1>0, <2>1 DEF MemReqStrided, VectorType
  <2>2. CASE MemWaitStrided(answer) /\ answer # "ack"
    BY <2>2 DEF MemWaitStrided, LoadingStridedAt
  <2>. QED BY <2>1, <2>2
<1>5. Points(add_o', Elem(k))
  <2>1. Elem(k) \in Int
    BY <1>0, StridedElems
  <2>. QED BY <1>0, <1>1, <2>1, AddressHeld
<1>6. LoadingStridedAt(k)'
  <2>1. Kept = (IF ir.size = "8" THEN Bunch(k) ELSE << >>) /\ v.mop = (k = 0) /\ DoneOf(rfNext, Group(k))
        /\ v.rd = Reg(ir.rd, Group(k))
    BY <1>1, LoadingStridedState
  <2>2. Kept' = (IF ir'.size = "8" THEN Bunch(k)' ELSE << >>) /\ v'.mop = (k = 0)
    BY <1>0, <1>3, <1>4, <2>1, LastingStrided
  <2>3. DoneOf(rfNext, Group(k))'
    BY <1>0, <1>3, <2>1 DEF DoneOf, Group
  <2>4. v'.rd = Reg(ir'.rd, Group(k)') /\ Points(add_o, Elem(k))'
    BY <1>0, <1>4, <1>5, <2>1, LastingStrided
  <2>. QED BY <1>0, <1>1, <1>4, <2>2, <2>3, <2>4 DEF LoadingStridedAt, Bunch
<1>. QED BY <1>1, <1>2, <1>6

-----------------------------------------------------------------------------
(* What the answer to access k puts into the buffer.                        *)
LEMMA Grasped ==
  ASSUME Context, ir.op = "vload", ir.mode = "strided", NEW k \in 0 .. Last - 1, NEW buf,
         buf = IF ir.size = "8" THEN Bunch(k) ELSE << >>,
         Points(add_o, Elem(k)), bus.mar = Elem(k), out.size = ir.size
  PROVE  Collect(buf) = Fetched(k)
<1>0. ir.size \in {"8", "32"} /\ k \in Nat
  BY FetchedFacts
<1>1. Elem(k) \in Int /\ addr = Elem(k) /\ ~Misaligned(Elem(k), ir.size)
  BY <1>0, StridedElems, PointsNum DEF addr
<1>2. Word(Elem(k)) + (Elem(k) % 4) = Elem(k)
  BY <1>1, WordFacts
<1>3. CASE ir.size = "32"
  <2>1. Elem(k) % 4 = 0
    BY <1>1, <1>3 DEF Misaligned
  <2>2. Collect(buf) = WordBytes(Elem(k))
    BY <1>1, <1>2, <1>3 DEF Collect
  <2>3. 4 - (Elem(k) % 4) = 4
    BY <2>1
  <2>. QED BY <1>3, <2>2, <2>3 DEF WordBytes, Fetched
<1>4. CASE ir.size = "8"
  <2>. DEFINE q == k \div 4
              s == k % 4
              b == [j \in 1 .. s |-> Elem(4 * q + j - 1)]
              f == [j \in 1 .. s + 1 |-> Elem(4 * q + j - 1)]
  <2>1. k = 4 * q + s /\ q \in Nat /\ s \in 0 .. 3 /\ 4 * q + (s + 1) - 1 = k
    BY <1>0
  <2>2. buf = b /\ Fetched(k) = f
    BY <1>4 DEF Bunch, Fetched
  <2>. HIDE DEF q, s
  <2>3. \A j \in 1 .. s + 1 : Elem(4 * q + j - 1) \in Int
    <3>1. \A j \in 1 .. s + 1 : 4 * q + j - 1 \in Nat
      BY <2>1
    <3>. QED BY <3>1, StridedElems, <1>4
  <2>4. b \in Seq(Int) /\ Len(b) = s /\ \A j \in 1 .. s : b[j] = Elem(4 * q + j - 1)
    <3>0. 1 .. s \subseteq 1 .. s + 1
      BY <2>1
    <3>1. \A j \in 1 .. s : Elem(4 * q + j - 1) \in Int
      BY <2>3, <3>0, Zenon
    <3>2. b \in Seq(Int) /\ Len(b) = s
      BY <2>1, <3>1
    <3>. QED BY <3>2
  <2>5. f \in Seq(Int) /\ Len(f) = s + 1 /\ \A j \in 1 .. s + 1 : f[j] = Elem(4 * q + j - 1)
    <3>1. s + 1 \in Nat
      BY <2>1
    <3>2. f \in [1 .. s + 1 -> Int]
      BY <2>3
    <3>3. f \in Seq(Int)
      BY <3>1, <3>2
    <3>. QED BY <3>1, <3>2, <3>3
  <2>6. Collect(buf) = Append(b, Elem(k))
    <3>1. Len(b) < 4
      BY <2>1, <2>4
    <3>. HIDE DEF b
    <3>. QED BY <1>1, <1>2, <1>4, <2>2, <3>1 DEF Collect
  <2>. HIDE DEF b, f
  <2>7. /\ Append(b, Elem(k)) \in Seq(Int) /\ Len(Append(b, Elem(k))) = s + 1
        /\ \A j \in 1 .. s + 1 : Append(b, Elem(k))[j] = IF j <= s THEN b[j] ELSE Elem(k)
    <3>1. /\ Append(b, Elem(k)) \in Seq(Int) /\ Len(Append(b, Elem(k))) = Len(b) + 1
          /\ \A j \in 1 .. Len(b) : Append(b, Elem(k))[j] = b[j]
          /\ Append(b, Elem(k))[Len(b) + 1] = Elem(k)
      BY <1>1, <2>4, AppendProperties
    <3>2. \A j \in 1 .. s + 1 : j \in 1 .. s \/ j = s + 1
      BY <2>1
    <3>. QED BY <2>1, <2>4, <3>1, <3>2
  <2>8. \A j \in 1 .. s + 1 : Append(b, Elem(k))[j] = f[j]
    <3>. SUFFICES ASSUME NEW j \in 1 .. s + 1 PROVE Append(b, Elem(k))[j] = f[j]
      OBVIOUS
    <3>1. CASE j <= s
      <4>1. j \in 1 .. s
        BY <2>1, <3>1
      <4>. QED BY <2>4, <2>5, <2>7, <3>1, <4>1
    <3>2. CASE ~(j <= s)
      <4>1. j = s + 1
        BY <2>1, <3>2
      <4>2. f[j] = Elem(k)
        BY <2>1, <2>5, <4>1
      <4>. QED BY <2>7, <3>2, <4>2
    <3>. QED BY <3>1, <3>2
  <2>9. Append(b, Elem(k)) = f
    BY <2>5, <2>7, <2>8, SeqEqual
  <2>. QED BY <2>2, <2>6, <2>9
<1>. QED BY <1>0, <1>3, <1>4

(* Register of the group that the fetched bytes complete.                   *)
LEMMA FetchedWritten ==
  ASSUME NEW answer, Moving(answer), ir.op = "vload", ir.mode = "strided",
         switch', ~ctrl_vector'.vwe, ~ctrl_vector'.zero, ctrl_vector'.mem = "strided",
         ctrl_vector'.wb, ctrl_vector'.mux = "mem",
         NEW k \in 0 .. Last - 1, v'.rd = Reg(ir.rd, Group(k)), DoneOf(rfNext, Group(k)),
         dp'.vbuf = Fetched(k), k + 1 = Last \/ Len(Fetched(k)) = 4
  PROVE  DoneOf(rfNext', Group(k) + 1) /\ Kept' = << >>
<1>0. Context /\ rf' = rfNext
  BY MovingFacts
<1>1. /\ Group(k) \in 0 .. DestOf - 1 /\ Fetched(k) \in Seq(Int) /\ Len(Fetched(k)) \in 1 .. 4
      /\ Wanted(ir, atIssue.rf, Last, Bytes(Fetched(k)), Group(k))
  BY <1>0, FetchedFacts
<1>. HIDE DEF DestOf, Last
<1>2. v'.rd # 0
  BY <1>0, <1>1, Destination
<1>. DEFINE f == Fetched(k)
            n == IF Len(f) < 4 THEN Len(f) ELSE 4
<1>3. rfNext' = [rf' EXCEPT ![v'.rd] = Bytes(SubSeq(f, 1, n))] /\ Kept' = SubSeq(f, 5, Len(f))
  BY <1>2, BufferWrite
<1>4. n = Len(f)
  <2>1. Len(f) \in 1 .. 4
    BY <1>1
  <2>2. ASSUME NEW l \in 1 .. 4 PROVE (IF l < 4 THEN l ELSE 4) = l
    OBVIOUS
  <2>. HIDE DEF f
  <2>. QED BY <2>1, <2>2
<1>. HIDE DEF n
<1>5. SubSeq(f, 1, n) = f /\ SubSeq(f, 5, Len(f)) = << >>
  <2>1. f \in Seq(Int) /\ Len(f) \in 1 .. 4
    BY <1>1
  <2>. HIDE DEF f
  <2>. QED BY <1>4, <2>1
<1>6. DoneOf([rfNext EXCEPT ![Reg(ir.rd, Group(k))] = Bytes(f)], Group(k) + 1)
  BY <1>0, <1>1, Written
<1>. QED BY <1>0, <1>3, <1>5, <1>6

(* The answer to access k: the buffer and the registers after it.           *)
LEMMA LoadingStridedGot ==
  ASSUME NEW answer, Moving(answer), ir.op = "vload", ir.mode = "strided",
         MemWaitStrided(answer), answer = "ack", NEW k \in 0 .. Last - 1, LoadingStridedAt(k)
  PROVE  /\ ~ctrl_vector'.vwe /\ ~ctrl_vector'.zero
         /\ k + 1 = Last => DoneOf(rfNext', DestOf)
         /\ k + 1 # Last => /\ DoneOf(rfNext', Group(k + 1))
                            /\ Kept' = IF ir.size = "8" THEN Bunch(k + 1) ELSE << >>
         /\ rf' = rf /\ DoneOf(rf, Group(k))
<1>0. /\ Context /\ ir' = ir /\ atIssue' = atIssue /\ rf' = rfNext
      /\ StridedAccess(k) /\ Points(add_o, Elem(k)) /\ out = ctrl_vector /\ switch
      /\ v.state = "S_MEM_WAIT_STRIDED"
  BY MovingFacts DEF Moving, LoadingStridedAt, MemWaitStrided
<1>1. /\ Kept = (IF ir.size = "8" THEN Bunch(k) ELSE << >>) /\ DoneOf(rfNext, Group(k))
      /\ v.rd = Reg(ir.rd, Group(k))
  BY <1>0, LoadingStridedState
<1>2. /\ bus.mar = Elem(k) /\ switch' /\ v'.rd = v.rd
      /\ ctrl_vector'.mux = "mem" /\ ctrl_vector'.mem = "strided"
      /\ ~ctrl_vector'.vwe /\ ~ctrl_vector'.zero
      /\ ctrl_vector'.wb <=> (k + 1 = Last \/ ir.size # "8" \/ (k + 1) % 4 = 0)
  BY <1>0, StridedAccessAck
<1>3. out.mem = "strided" /\ out.size = ir.size /\ ~ctrl_vector.wb /\ ~ctrl_vector.vwe /\ ~ctrl_vector.zero
  BY <1>0 DEF StridedAccess, MemWord
<1>4. Kept = dp.vbuf /\ dp'.vbuf = Collect(dp.vbuf)
  BY <1>0, <1>3, MovingFacts DEF Kept, LoadReg
<1>5. dp'.vbuf = Fetched(k)
  BY <1>0, <1>1, <1>2, <1>3, <1>4, Grasped
<1>6. rfNext = rf
  BY <1>0, <1>3, NoWrite
<1>7. /\ ir.size \in {"8", "32"} /\ (k + 1 = Last => Group(k) + 1 = DestOf)
      /\ (ir.size = "32" \/ (k + 1) % 4 = 0 <=> Len(Fetched(k)) = 4)
      /\ Group(k + 1) = (IF Len(Fetched(k)) = 4 THEN Group(k) + 1 ELSE Group(k))
      /\ (ir.size = "8" => Bunch(k + 1) = (IF Len(Fetched(k)) = 4 THEN << >> ELSE Fetched(k)))
  BY <1>0, FetchedFacts
<1>8. CASE k + 1 = Last \/ Len(Fetched(k)) = 4
  <2>1. ctrl_vector'.wb
    BY <1>2, <1>7, <1>8
  <2>2. DoneOf(rfNext', Group(k) + 1) /\ Kept' = << >>
    BY <1>1, <1>2, <1>5, <1>8, <2>1, FetchedWritten
  <2>3. k + 1 = Last => DoneOf(rfNext', DestOf)
    BY <1>7, <2>2
  <2>4. k + 1 # Last => DoneOf(rfNext', Group(k + 1))
    BY <1>7, <1>8, <2>2
  <2>5. k + 1 # Last => Kept' = IF ir.size = "8" THEN Bunch(k + 1) ELSE << >>
    BY <1>7, <1>8, <2>2
  <2>. QED BY <1>0, <1>1, <1>2, <1>6, <2>3, <2>4, <2>5
<1>9. CASE k + 1 # Last /\ Len(Fetched(k)) # 4
  <2>1. ~ctrl_vector'.wb /\ ir.size = "8"
    BY <1>2, <1>7, <1>9
  <2>2. rfNext' = rf' /\ Kept' = dp'.vbuf
    BY <1>2, <2>1, BufferWrite
  <2>3. DoneOf(rfNext', Group(k + 1))
    BY <1>0, <1>1, <1>7, <1>9, <2>2
  <2>4. Kept' = IF ir.size = "8" THEN Bunch(k + 1) ELSE << >>
    BY <1>5, <1>7, <1>9, <2>1, <2>2
  <2>. QED BY <1>0, <1>1, <1>2, <1>6, <1>9, <2>3, <2>4
<1>. QED BY <1>8, <1>9

(* More elements follow.                                                    *)
LEMMA LoadingStridedMore ==
  ASSUME NEW answer, Moving(answer), ir.op = "vload", ir.mode = "strided",
         MemWaitStrided(answer), answer = "ack", NEW k \in 0 .. Last - 1, LoadingStridedAt(k),
         k + 1 # Last
  PROVE  LoadingStridedAt(k + 1)' /\ v'.state = "S_MEM_ADDR_STRIDED" /\ k + 1 \in 0 .. Last - 1
<1>0. /\ Context /\ ir' = ir /\ atIssue' = atIssue /\ k \in Nat
      /\ StridedAccess(k) /\ Points(add_o, Elem(k)) /\ v.state = "S_MEM_WAIT_STRIDED"
      /\ v.rs2 = ir.rs2 /\ v.rd = Reg(ir.rd, Group(k))
  BY MovingFacts DEF Moving, LoadingStridedAt, MemWaitStrided
<1>1. /\ switch' /\ v'.rd = v.rd /\ v'.mop = FALSE /\ v'.state = "S_MEM_ADDR_STRIDED"
      /\ ctrl_vector'.opa = "acc" /\ ctrl_vector'.opb = "rs2"
      /\ StridedAccess(k + 1)' /\ k + 1 \in 0 .. Last - 1
  BY <1>0, StridedAccessAck
<1>2. /\ DoneOf(rfNext', Group(k + 1)) /\ DoneOf(rf, Group(k))
      /\ Kept' = IF ir.size = "8" THEN Bunch(k + 1) ELSE << >>
  BY LoadingStridedGot
<1>3. /\ StrideOf \in Int /\ Points(atIssue.rf[ir.rs2], StrideOf) /\ ir.rs2 \in Regs
      /\ ir.rs2 \notin Dest(ir, Last) /\ Elem(k) \in Int /\ Elem(k + 1) = Elem(k) + StrideOf
  BY <1>0, StridedElems DEF StrideReg
<1>4. Points(dp'.rs2, StrideOf)
  <2>1. rf[ir.rs2] = atIssue.rf[ir.rs2]
    BY <1>2, <1>3 DEF DoneOf, Done, Last
  <2>. QED BY <1>0, <1>3, <2>1, MovingFacts
<1>5. Points(add_o', Elem(k + 1))
  BY <1>0, <1>1, <1>3, <1>4, AddressMoved
<1>6. LoadingStridedAt(k + 1)'
  <2>0. FALSE = (k + 1 = 0)
    BY <1>0
  <2>1. v'.mop = (k + 1 = 0)
    BY <1>1, <2>0, Zenon
  <2>2. Group(IF v'.state = "S_MEM_ADDR_STRIDED" /\ k + 1 > 0 THEN (k + 1) - 1 ELSE k + 1) = Group(k)
    BY <1>0, <1>1
  <2>3. /\ Kept' = (IF ir'.size = "8" THEN Bunch(k + 1)' ELSE << >>)
        /\ DoneOf(rfNext, Group(k + 1))' /\ Points(add_o, Elem(k + 1))'
    <3>1. Group(k + 1)' = Group(k + 1) /\ Bunch(k + 1)' = Bunch(k + 1)
      BY <1>0, LastingStrided
    <3>. QED BY <1>0, <1>2, <1>5, <3>1, LastingStrided DEF DoneOf
  <2>4. v'.rd = Reg(ir'.rd, Group(IF v.state = "S_MEM_ADDR_STRIDED" /\ k + 1 > 0 THEN (k + 1) - 1 ELSE k + 1)')
    BY <1>0, <1>1, <2>2 DEF Group
  <2>. QED BY <1>1, <2>1, <2>3, <2>4 DEF LoadingStridedAt, Bunch
<1>. QED BY <1>1, <1>6

(* Every clock of a strided load.                                           *)
LEMMA LoadingStridedStep ==
  ASSUME NEW answer, Moving(answer), ir.op = "vload", ir.mode = "strided", LoadingStrided,
         MemAddrStrided \/ MemReqStrided \/ MemWaitStrided(answer)
  PROVE  LoadingStrided'
<1>0. ir' = ir /\ atIssue' = atIssue /\ Context /\ Last \in Nat
  BY MovingFacts DEF Moving
<1>1. Last' = Last /\ DestOf' = DestOf
  BY <1>0, LastingStrided
<1>. HIDE DEF Last, DestOf
<1>2. PICK k \in 0 .. Last - 1 : LoadingStridedAt(k)
  BY DEF LoadingStrided, MemAddrStrided, MemReqStrided, MemWaitStrided
<1>3. CASE MemAddrStrided
  BY <1>1, <1>2, <1>3, LoadingStridedAddr DEF LoadingStrided
<1>4. CASE MemReqStrided \/ (MemWaitStrided(answer) /\ answer # "ack")
  BY <1>1, <1>2, <1>4, LoadingStridedReq DEF LoadingStrided
<1>5. CASE MemWaitStrided(answer) /\ answer = "ack" /\ k + 1 # Last
  <2>1. LoadingStridedAt(k + 1)' /\ v'.state = "S_MEM_ADDR_STRIDED" /\ k + 1 \in 0 .. Last - 1
    BY <1>2, <1>5, LoadingStridedMore
  <2>2. ~ctrl_vector'.vwe /\ ~ctrl_vector'.zero
    BY <1>2, <1>5, LoadingStridedGot
  <2>. QED BY <1>1, <2>1, <2>2 DEF LoadingStrided
<1>6. CASE MemWaitStrided(answer) /\ answer = "ack" /\ k + 1 = Last
  <2>1. ~ctrl_vector'.vwe /\ ~ctrl_vector'.zero /\ DoneOf(rfNext', DestOf)
    BY <1>2, <1>6, LoadingStridedGot
  <2>2. v'.state = "S_IDLE"
    <3>1. StridedAccess(k)
      BY <1>2 DEF LoadingStridedAt
    <3>. QED BY <1>0, <1>2, <1>6, <3>1, StridedAccessAck
  <2>3. DoneOf(rfNext, DestOf)'
    BY <1>0, <1>1, <2>1 DEF DoneOf
  <2>. QED BY <2>1, <2>2, <2>3 DEF LoadingStrided
<1>. QED BY <1>3, <1>4, <1>5, <1>6

(* A strided load that has gone idle is done with the write of this cycle.  *)
LEMMA LoadingStridedOver ==
  ASSUME ir.op = "vload", LoadingStrided, v.state = "S_IDLE" PROVE Over
BY DEF Over, LoadingStrided

-----------------------------------------------------------------------------
(* The execute engine                                                       *)

(* The control signals that each state of the execute engine leaves.        *)
LEMMA ExecCtrl ==
  ASSUME TypeInv, NEW answer, ExecuteEngine(answer)
  PROVE  /\ ex # "DISPATCH" => ir' = ir /\ atIssue' = atIssue
         /\ ex = "DISPATCH" =>
              /\ ctrl' = NoCtrl
              /\ Dispatch \/ (atIssue' = atIssue /\ ex' \in {"DISPATCH", "TRAP_ENTER"})
         /\ ex \in {"VECTOR_WAIT", "TRAP_ENTER", "TRAP_START", "TRAP_EXECUTE"} => ctrl' = NoCtrl
         /\ ex = "EXECUTE" =>
              ctrl' = IF ir.op = "lw" THEN [NoCtrl EXCEPT !.mo = TRUE, !.opb = "imm"] ELSE NoCtrl
         /\ ex = "MEM_REQ" => ctrl' = [NoCtrl EXCEPT !.rd = TRUE]
         /\ ex = "MEM_WAIT" =>
              ctrl' = IF exc = {} /\ answer = "ack"
                      THEN [NoCtrl EXCEPT !.wb = TRUE, !.mux = "mem"] ELSE NoCtrl
         /\ ex = "BRANCHED" => ctrl' = [NoCtrl EXCEPT !.zero = TRUE, !.mux = "csr"]
<1>. USE DEF Go, Keep, Look
<1>1. ex = "DISPATCH" => DispatchWait \/ DispatchTrap \/ Dispatch
  BY DEF ExecuteEngine, Execute, VectorWait, MemReq, MemWait, TrapEnter, TrapStart, TrapExecute, Branched
<1>2. ex = "EXECUTE" => Execute
  BY DEF ExecuteEngine, DispatchWait, DispatchTrap, Dispatch, VectorWait, MemReq, MemWait, TrapEnter,
     TrapStart, TrapExecute, Branched
<1>3. ex = "VECTOR_WAIT" => VectorWait
  BY DEF ExecuteEngine, DispatchWait, DispatchTrap, Dispatch, Execute, MemReq, MemWait, TrapEnter,
     TrapStart, TrapExecute, Branched
<1>4. ex = "MEM_REQ" => MemReq
  BY DEF ExecuteEngine, DispatchWait, DispatchTrap, Dispatch, Execute, VectorWait, MemWait, TrapEnter,
     TrapStart, TrapExecute, Branched
<1>5. ex = "MEM_WAIT" => MemWait(answer)
  BY DEF ExecuteEngine, DispatchWait, DispatchTrap, Dispatch, Execute, VectorWait, MemReq, TrapEnter,
     TrapStart, TrapExecute, Branched
<1>6. ex \in {"TRAP_ENTER", "TRAP_START", "TRAP_EXECUTE", "BRANCHED"} =>
        TrapEnter \/ TrapStart \/ TrapExecute \/ Branched
  BY DEF ExecuteEngine, DispatchWait, DispatchTrap, Dispatch, Execute, VectorWait, MemReq, MemWait
<1>7. ex \in ExecStates
  BY DEF TypeInv, TypeOK, ControlTypeOK
<1>8. CASE ex = "DISPATCH"
  BY <1>1, <1>8 DEF DispatchWait, DispatchTrap, Dispatch
<1>9. CASE ex = "EXECUTE"
  BY <1>2, <1>9 DEF Execute
<1>10. CASE ex = "VECTOR_WAIT"
  BY <1>3, <1>10 DEF VectorWait
<1>11. CASE ex = "MEM_REQ"
  BY <1>4, <1>11 DEF MemReq
<1>12. CASE ex = "MEM_WAIT"
  BY <1>5, <1>12 DEF MemWait
<1>13. CASE ex \in {"TRAP_ENTER", "TRAP_START", "TRAP_EXECUTE", "BRANCHED"}
  BY <1>6, <1>13 DEF TrapEnter, TrapStart, TrapExecute, Branched
<1>. QED BY <1>7, <1>8, <1>9, <1>10, <1>11, <1>12, <1>13 DEF ExecStates

-----------------------------------------------------------------------------
(* The bus, whatever the execute engine does                                *)

(* An access that is requested is aligned.                                  *)
LEMMA WorkingAligned ==
  ASSUME TypeInv, Working, v.state \in RequestStates PROVE ~bus.mis
<1>1. ir.op \in VectorOps \union {"lw"}
  BY TypeFacts, InstrFields
<1>2. CASE ir.op \in {"vadd", "vmul", "vmac", "vcsr"}
  <2>1. ir.op = "vadd" => v.state \in {"S_ALU", "S_IDLE"}
    BY DEF Working, Adding, AddingAt
  <2>2. ir.op = "vmul" => v.state \in {"S_MUL", "S_IDLE"}
    BY DEF Working, Multiplying, MultiplyingAt
  <2>3. ir.op = "vmac" => v.state \in {"S_MAC", "S_IDLE"}
    BY DEF Working, Accumulating, AccumulatingAt
  <2>4. ir.op = "vcsr" => v.state \in {"S_VECTOR_CSR", "S_IDLE"}
    BY DEF Working, Setting
  <2>. QED BY <1>2, <2>1, <2>2, <2>3, <2>4 DEF RequestStates
<1>3. CASE ir.op = "vstore" /\ ir.mode = "unit"
  BY <1>3 DEF Working, StoringUnit, StoringUnitAt, UnitAccess, RequestStates
<1>4. CASE ir.op = "vstore" /\ ir.mode # "unit"
  BY <1>4 DEF Working, StoringStrided, StoringStridedAt, StridedAccess, RequestStates
<1>5. CASE ir.op = "vload" /\ ir.mode = "unit"
  BY <1>5 DEF Working, LoadingUnit, LoadingUnitAt, UnitAccess, RequestStates
<1>6. CASE ir.op = "vload" /\ ir.mode # "unit"
  BY <1>6 DEF Working, LoadingStrided, LoadingStridedAt, StridedAccess, RequestStates
<1>. QED BY <1>1, <1>2, <1>3, <1>4, <1>5, <1>6 DEF Working, VectorOps

(* What Data says of the bus is kept by every clock.                        *)
LEMMA BusData ==
  ASSUME Handshake, Data, NEW answer \in Answers, NEW irq \in BOOLEAN, Cycle(answer, irq)
  PROVE  IsList(stored') /\ Accesses'
<1>0. TypeInv /\ BusUnit(answer) /\ TrapFlags(irq) /\ MayAnswer(answer)
  BY DEF Handshake, Cycle
<1>1. IsList(stored')
  BY <1>0, ListAppend DEF BusUnit, Data
<1>2. /\ bus'.mar = IF ~out.mo THEN bus.mar ELSE IF out.mem = "unit" THEN Word(addr) ELSE addr
      /\ ~out.mo => bus'.mis = bus.mis
      /\ bus'.pend => bus.pend \/ out.rd \/ out.wr
      /\ bus'.rw = IF bus.pend THEN bus.rw ELSE out.wr
      /\ bus'.err = (bus.pend /\ (bus.err \/ answer = "err"))
      /\ slave' = "wr" => out.wr \/ slave = "wr"
      /\ slave' = "rd" => (out.rd /\ ~out.wr) \/ slave = "rd"
  BY <1>0 DEF BusUnit
<1>3. /\ out.rd \/ out.wr => ~bus.pend /\ ~out.mo
      /\ bus.pend => ~out.mo
      /\ slave # "idle" => bus.pend
      /\ exc # {} => bus.pend
  BY RequestFacts, PendingQuiet DEF Handshake, Pending
<1>4. slave' = "wr" => bus'.rw
  BY <1>2, <1>3 DEF Data, Accesses
<1>5. slave' = "rd" => ~bus'.rw
  <2>1. CASE out.rd /\ ~out.wr
    BY <1>2, <1>3, <2>1
  <2>2. CASE slave = "rd"
    BY <1>2, <1>3, <2>2 DEF Data, Accesses
  <2>. QED BY <1>2, <2>1, <2>2
<1>6. bus'.pend \/ bus.pend => ir_last' = ir_last
  <2>1. ex # "EXECUTE" \/ (~bus.pend /\ ~out.rd /\ ~out.wr)
    BY RequestFacts DEF Handshake, Pending, TrapStates
  <2>2. ex # "EXECUTE" => ir_last' = ir_last
    BY <1>0, ExecStep DEF Cycle
  <2>. QED BY <1>2, <2>1, <2>2
<1>7. bus'.pend /\ bus'.mis => ir_last'.op = "lw"
  <2>1. CASE bus.pend
    BY <1>2, <1>3, <1>6, <2>1 DEF Data, Accesses
  <2>2. CASE ~bus.pend /\ (out.rd \/ out.wr)
    <3>1. \/ ex = "VECTOR_WAIT" /\ v.state \in RequestStates
          \/ ex = "MEM_WAIT"
      BY <2>2, RequestFacts
    <3>2. CASE ex = "VECTOR_WAIT" /\ v.state \in RequestStates
      BY <1>0, <1>2, <1>3, <2>2, <3>2, WorkingAligned DEF Data
    <3>3. CASE ex = "MEM_WAIT"
      BY <1>6, <3>3 DEF Handshake, Requests, EngineRuns
    <3>. QED BY <3>1, <3>2, <3>3
  <2>. QED BY <1>2, <2>1, <2>2
<1>8. bus.pend => bus'.mar = bus.mar /\ bus'.mis = bus.mis
  BY <1>2, <1>3
<1>9. answer = "err" => Faulty(bus.mar)
  BY <1>0 DEF MayAnswer
<1>10. bus'.err => Faulty(bus'.mar)
  BY <1>2, <1>8, <1>9 DEF Data, Accesses
<1>11. exc' # {} => exc # {} \/ (bus.pend /\ (bus.err \/ bus.mis))
  BY <1>0 DEF TrapFlags
<1>12. exc' # {} => Faulty(bus'.mar) \/ (ir_last'.op = "lw" /\ bus'.mis)
  <2>. SUFFICES ASSUME exc' # {} PROVE Faulty(bus'.mar) \/ (ir_last'.op = "lw" /\ bus'.mis)
    OBVIOUS
  <2>1. bus.pend /\ ir_last' = ir_last
    BY <1>3, <1>6, <1>11
  <2>. QED BY <1>8, <1>11, <2>1 DEF Data, Accesses
<1>. QED BY <1>1, <1>4, <1>5, <1>7, <1>10, <1>12 DEF Accesses

(* A clock leaves a register file a register file.                          *)
LEMMA FileKept ==
  ASSUME IsFile(rf), NEW answer, Datapath(answer) PROVE IsFile(rf') /\ IsFile(rfNext)
<1>1. rfNext = rf \/ \E r, w : rfNext = [rf EXCEPT ![r] = w]
  BY DEF rfNext
<1>2. IsFile(rfNext)
  BY <1>1 DEF IsFile
<1>. QED BY <1>2 DEF Datapath, IsFile

(* No access is under way, so that nothing is stored.                       *)
LEMMA BusIdle ==
  ASSUME Handshake, NEW answer \in Answers, NEW irq \in BOOLEAN, Cycle(answer, irq),
         ~(ex = "VECTOR_WAIT" /\ v.state \in WaitStates), ex # "MEM_WAIT"
  PROVE  slave = "idle" /\ answer = "none" /\ stored' = stored
<1>1. slave = "idle"
  BY DEF Handshake, Pending
<1>2. answer = "none"
  BY <1>1 DEF Cycle, MayAnswer
<1>. QED BY <1>1, <1>2 DEF Cycle, BusUnit

(* The vector engine is idle and nothing is asked of it.                    *)
LEMMA EngineRests ==
  ASSUME v.state = "S_IDLE", start = "none", NEW answer, VectorControl(answer)
  PROVE  /\ v' = v /\ ~switch' /\ ~finished' /\ csr_vl' = csr_vl
         /\ out' = [ctrl' EXCEPT !.size = ir'.size]
<1>1. Idle
  BY DEF VectorControl, VectorCsr, VMul, VAlu, VMac, MemAddr, MemReqUnit, MemWaitUnit, MemLastStore,
     MemAddrStrided, MemReqStrided, MemWaitStrided
<1>2. IdleStay
  BY <1>1 DEF Idle, StartMem, StartStrided, StartAdd, StartMac, StartMul, StartCsr
<1>. QED BY <1>1, <1>2 DEF Idle, IdleStay, Hold, out

(* Then nothing is written unless the execute engine says so.               *)
LEMMA QuietWrite ==
  ASSUME ~switch', ctrl' \in CtrlType, ~ctrl'.wb, ~ctrl'.vwe, ~ctrl'.zero PROVE rfNext' = rf'
<1>1. out' = [ctrl' EXCEPT !.size = ir'.size]
  BY DEF out
<1>2. ~out'.wb /\ ~out'.vwe /\ ~out'.zero
  BY <1>1 DEF CtrlType
<1>. QED BY <1>2 DEF rfNext

-----------------------------------------------------------------------------
(* The operations together                                                  *)

(* An instruction is executed: its operation starts.                        *)
LEMMA WorkStart ==
  ASSUME Handshake, Data, Context, ex = "EXECUTE", ir.op # "lw",
         NEW answer \in Answers, NEW irq \in BOOLEAN, Cycle(answer, irq),
         ir' = ir, atIssue' = atIssue
  PROVE  Working' /\ csr_vl' = csr_vl
<1>0. /\ Datapath(answer) /\ BusUnit(answer) /\ MayAnswer(answer) /\ VectorControl(answer)
  BY DEF Cycle
<1>1. v.state = "S_IDLE" /\ start = Kind /\ TypeInv
  BY DEF Handshake, EngineRuns, start
<1>2. Idle
  BY <1>0, <1>1 DEF VectorControl, VectorCsr, VMul, VAlu, VMac, MemAddr, MemReqUnit, MemWaitUnit, MemLastStore,
     MemAddrStrided, MemReqStrided, MemWaitStrided
<1>3. ir.op \in VectorOps /\ ir.mode \in {"unit", "strided"}
  BY ContextFacts
<1>4. /\ IdleStay => start = "none"
      /\ StartMem => start \in {"load", "store"} /\ switch'
      /\ StartStrided => start \in {"load_strided", "store_strided"} /\ switch'
      /\ StartAdd => start = "add" /\ switch'
      /\ StartMac => start = "mac" /\ switch'
      /\ StartMul => start = "mul" /\ switch'
      /\ StartCsr => start = "csr" /\ switch'
  BY DEF IdleStay, StartMem, StartStrided, StartAdd, StartMac, StartMul, StartCsr, Hold
<1>5. csr_vl' = csr_vl
  BY <1>2 DEF Idle
<1>6. \/ IdleStay \/ StartMem \/ StartStrided \/ StartAdd \/ StartMac \/ StartMul \/ StartCsr
  BY <1>2 DEF Idle
<1>7. CASE ir.op = "vadd"
  <2>1. StartAdd /\ switch'
    BY <1>1, <1>4, <1>6, <1>7 DEF Kind
  <2>2. Adding'
    BY <1>0, <1>7, <2>1, AddingStart
  <2>. QED BY <1>5, <1>7, <2>1, <2>2 DEF Working
<1>8. CASE ir.op = "vmul"
  <2>1. StartMul /\ switch'
    BY <1>1, <1>4, <1>6, <1>8 DEF Kind
  <2>2. Multiplying'
    BY <1>0, <1>8, <2>1, MultiplyingStart
  <2>. QED BY <1>5, <1>8, <2>1, <2>2 DEF Working
<1>9. CASE ir.op = "vmac"
  <2>1. StartMac /\ switch'
    BY <1>1, <1>4, <1>6, <1>9 DEF Kind
  <2>2. Accumulating'
    BY <1>0, <1>9, <2>1, AccumulatingStart
  <2>. QED BY <1>5, <1>9, <2>1, <2>2 DEF Working
<1>10. CASE ir.op = "vcsr"
  <2>1. StartCsr /\ switch'
    BY <1>1, <1>4, <1>6, <1>10 DEF Kind
  <2>2. Setting'
    BY <1>0, <1>10, <2>1, SettingStart
  <2>. QED BY <1>5, <1>10, <2>1, <2>2 DEF Working
<1>11. CASE ir.op = "vload" /\ ir.mode = "unit"
  <2>1. StartMem /\ switch'
    BY <1>1, <1>4, <1>6, <1>11 DEF Kind
  <2>2. LoadingUnit'
    BY <1>0, <1>11, <2>1, LoadingUnitStart
  <2>. QED BY <1>5, <1>11, <2>1, <2>2 DEF Working
<1>12. CASE ir.op = "vload" /\ ir.mode = "strided"
  <2>1. StartStrided /\ switch'
    BY <1>1, <1>4, <1>6, <1>12 DEF Kind
  <2>2. LoadingStrided'
    BY <1>0, <1>12, <2>1, LoadingStridedStart
  <2>. QED BY <1>5, <1>12, <2>1, <2>2 DEF Working
<1>13. CASE ir.op = "vstore" /\ ir.mode = "unit"
  <2>1. StartMem /\ switch'
    BY <1>1, <1>4, <1>6, <1>13 DEF Kind
  <2>2. StoringUnit'
    BY <1>0, <1>13, <2>1, StoringUnitStart
  <2>. QED BY <1>5, <1>13, <2>1, <2>2 DEF Working
<1>14. CASE ir.op = "vstore" /\ ir.mode = "strided"
  <2>1. StartStrided /\ switch'
    BY <1>1, <1>4, <1>6, <1>14 DEF Kind
  <2>2. StoringStrided'
    BY <1>0, <1>14, <2>1, StoringStridedStart
  <2>. QED BY <1>5, <1>14, <2>1, <2>2 DEF Working
<1>. QED BY <1>3, <1>7, <1>8, <1>9, <1>10, <1>11, <1>12, <1>13, <1>14 DEF VectorOps

(* One clock in the middle of an operation.                                 *)
LEMMA WorkStep ==
  ASSUME NEW answer, Moving(answer), VectorControl(answer)
  PROVE  Working' /\ (ir.op # "vcsr" => csr_vl' = csr_vl)
<1>0. /\ Context /\ Working /\ switch /\ Datapath(answer) /\ ir' = ir /\ atIssue' = atIssue /\ TypeInv
      /\ ir.op \in VectorOps /\ ir.mode \in {"unit", "strided"} /\ ~AccessError
  BY MovingFacts, ContextFacts DEF Moving, Data, Working
<1>1. v.state # "S_IDLE"
  BY DEF Moving, Handshake, EngineRuns
<1>. DEFINE U == MemAddr \/ MemReqUnit \/ MemWaitUnit(answer)
            S == MemAddrStrided \/ MemReqStrided \/ MemWaitStrided(answer)
<1>2. /\ VectorCsr => v.state = "S_VECTOR_CSR" /\ switch'
      /\ VMul => v.state = "S_MUL" /\ switch' /\ csr_vl' = csr_vl
      /\ VAlu => v.state = "S_ALU" /\ switch' /\ csr_vl' = csr_vl
      /\ VMac => v.state = "S_MAC" /\ switch' /\ csr_vl' = csr_vl
  BY DEF VectorCsr, VMul, VAlu, VMac, Hold
<1>3. U => v.state \in {"S_MEM_ADDR", "S_MEM_REQ", "S_MEM_WAIT"} /\ switch' /\ csr_vl' = csr_vl
  BY <1>0 DEF MemAddr, MemReqUnit, MemWaitUnit, Hold
<1>4. S => v.state \in {"S_MEM_ADDR_STRIDED", "S_MEM_REQ_STRIDED", "S_MEM_WAIT_STRIDED"}
           /\ switch' /\ csr_vl' = csr_vl
  BY DEF MemAddrStrided, MemReqStrided, MemWaitStrided, Hold
<1>5. MemLastStore => v.state = "S_MEM_LAST_STORE" /\ switch' /\ csr_vl' = csr_vl
  BY DEF MemLastStore, Hold
<1>6. VectorCsr \/ VMul \/ VAlu \/ VMac \/ U \/ S \/ MemLastStore
  BY <1>1 DEF VectorControl, Idle
<1>. HIDE DEF U, S
<1>7. CASE ir.op = "vadd"
  <2>1. Adding /\ v.state = "S_ALU"
    BY <1>0, <1>1, <1>7 DEF Working, Adding, AddingAt
  <2>2. VAlu
    BY <1>2, <1>3, <1>4, <1>5, <1>6, <2>1
  <2>3. Adding'
    BY <1>0, <1>7, <2>1, <2>2, AddingStep
  <2>. QED BY <1>0, <1>2, <1>7, <2>2, <2>3 DEF Working
<1>8. CASE ir.op = "vmul"
  <2>1. Multiplying /\ v.state = "S_MUL"
    BY <1>0, <1>1, <1>8 DEF Working, Multiplying, MultiplyingAt
  <2>2. VMul
    BY <1>2, <1>3, <1>4, <1>5, <1>6, <2>1
  <2>3. Multiplying'
    BY <1>0, <1>8, <2>1, <2>2, MultiplyingStep
  <2>. QED BY <1>0, <1>2, <1>8, <2>2, <2>3 DEF Working
<1>9. CASE ir.op = "vmac"
  <2>1. Accumulating /\ v.state = "S_MAC"
    BY <1>0, <1>1, <1>9 DEF Working, Accumulating, AccumulatingAt
  <2>2. VMac
    BY <1>2, <1>3, <1>4, <1>5, <1>6, <2>1
  <2>3. Accumulating'
    BY <1>0, <1>9, <2>1, <2>2, AccumulatingStep
  <2>. QED BY <1>0, <1>2, <1>9, <2>2, <2>3 DEF Working
<1>10. CASE ir.op = "vcsr"
  <2>1. Setting /\ v.state = "S_VECTOR_CSR"
    BY <1>0, <1>1, <1>10 DEF Working, Setting
  <2>2. VectorCsr
    BY <1>2, <1>3, <1>4, <1>5, <1>6, <2>1
  <2>3. Setting'
    BY <1>0, <2>1, <2>2, SettingStep
  <2>. QED BY <1>0, <1>2, <1>10, <2>2, <2>3 DEF Working
<1>11. CASE ir.op = "vstore" /\ ir.mode = "unit"
  <2>1. StoringUnit /\ v.state \in {"S_MEM_ADDR", "S_MEM_REQ", "S_MEM_WAIT"}
    BY <1>0, <1>1, <1>11 DEF Working, StoringUnit
  <2>2. U
    BY <1>2, <1>4, <1>5, <1>6, <2>1
  <2>3. StoringUnit'
    BY <1>11, <2>1, <2>2, StoringUnitStep DEF U
  <2>. QED BY <1>0, <1>3, <1>11, <2>2, <2>3 DEF Working
<1>12. CASE ir.op = "vstore" /\ ir.mode = "strided"
  <2>1. StoringStrided /\ v.state \in {"S_MEM_ADDR_STRIDED", "S_MEM_REQ_STRIDED", "S_MEM_WAIT_STRIDED"}
    BY <1>0, <1>1, <1>12 DEF Working, StoringStrided
  <2>2. S
    BY <1>2, <1>3, <1>5, <1>6, <2>1
  <2>3. StoringStrided'
    BY <1>12, <2>1, <2>2, StoringStridedStep DEF S
  <2>. QED BY <1>0, <1>4, <1>12, <2>2, <2>3 DEF Working
<1>13. CASE ir.op = "vload" /\ ir.mode = "strided"
  <2>1. LoadingStrided /\ v.state \in {"S_MEM_ADDR_STRIDED", "S_MEM_REQ_STRIDED", "S_MEM_WAIT_STRIDED"}
    BY <1>0, <1>1, <1>13 DEF Working, LoadingStrided
  <2>2. S
    BY <1>2, <1>3, <1>5, <1>6, <2>1
  <2>3. LoadingStrided'
    BY <1>13, <2>1, <2>2, LoadingStridedStep DEF S
  <2>. QED BY <1>0, <1>4, <1>13, <2>2, <2>3 DEF Working
<1>14. CASE ir.op = "vload" /\ ir.mode = "unit"
  <2>1. LoadingUnit /\ v.state \in {"S_MEM_ADDR", "S_MEM_REQ", "S_MEM_WAIT", "S_MEM_LAST_STORE"}
    BY <1>0, <1>1, <1>14 DEF Working, LoadingUnit
  <2>2. CASE U
    <3>1. LoadingUnit'
      BY <1>14, <2>1, <2>2, LoadingUnitStep DEF U
    <3>. QED BY <1>0, <1>3, <1>14, <2>2, <3>1 DEF Working
  <2>3. CASE MemLastStore
    <3>1. answer # "ack"
      BY <1>5, <2>3, MovingBus DEF WaitStates
    <3>2. DoneOf(rfNext', DestOf)
      BY <1>0, <1>14, <2>1, <2>3, <3>1, LoadingUnitLast
    <3>3. v'.state = "S_IDLE" /\ ctrl_vector'.mem = "unit" /\ ctrl_vector'.size = "32"
          /\ ~ctrl_vector'.vwe /\ ~ctrl_vector'.zero
      <4>1. v \in VectorType
        BY MovingFacts
      <4>. QED BY <2>3, <4>1 DEF MemLastStore, NextCtrl, Unit, NoCtrl, VectorType
    <3>4. DoneOf(rfNext, DestOf)'
      <4>1. DestOf' = DestOf
        BY <1>0 DEF DestOf
      <4>. QED BY <1>0, <3>2, <4>1 DEF DoneOf
    <3>5. LoadingUnit'
      BY <3>3, <3>4 DEF LoadingUnit
    <3>. QED BY <1>0, <1>5, <1>14, <2>3, <3>5 DEF Working
  <2>4. U \/ MemLastStore
    BY <1>2, <1>4, <1>6, <2>1
  <2>. QED BY <2>2, <2>3, <2>4
<1>. QED BY <1>0, <1>7, <1>8, <1>9, <1>10, <1>11, <1>12, <1>13, <1>14 DEF VectorOps

(* An operation that has gone idle is over.                                 *)
LEMMA WorkOver ==
  ASSUME Context, Working, v.state = "S_IDLE" PROVE Over
<1>1. switch /\ ir.op \in VectorOps /\ ir.mode \in {"unit", "strided"}
  BY ContextFacts DEF Working
<1>2. CASE ir.op = "vadd"
  BY <1>1, <1>2, AddingOver DEF Working
<1>3. CASE ir.op = "vmul"
  BY <1>1, <1>3, MultiplyingOver DEF Working
<1>4. CASE ir.op = "vmac"
  BY <1>1, <1>4, AccumulatingOver DEF Working
<1>5. CASE ir.op = "vcsr"
  BY <1>1, <1>5, SettingOver DEF Working
<1>6. CASE ir.op = "vload" /\ ir.mode = "unit"
  BY <1>6, LoadingUnitOver DEF Working
<1>7. CASE ir.op = "vload" /\ ir.mode = "strided"
  BY <1>7, LoadingStridedOver DEF Working
<1>8. CASE ir.op = "vstore" /\ ir.mode = "unit"
  <2>1. StoringUnit
    BY <1>8 DEF Working
  <2>. QED BY <1>1, <1>8, <2>1, StoringOver DEF StoringUnit
<1>9. CASE ir.op = "vstore" /\ ir.mode = "strided"
  <2>1. StoringStrided
    BY <1>9 DEF Working
  <2>. QED BY <1>1, <1>9, <2>1, StoringOver DEF StoringStrided
<1>. QED BY <1>1, <1>2, <1>3, <1>4, <1>5, <1>6, <1>7, <1>8, <1>9 DEF VectorOps

-----------------------------------------------------------------------------
(* The refinement mapping                                                   *)

(* The registers, the vector length, the memory and the instruction that    *)
(* the program sees. An instruction is seen all at once, when it ends.      *)
IsaRegs == IF Active THEN atIssue.rf ELSE rfNext
IsaVl   == IF Active THEN atIssue.vl ELSE csr_vl
IsaMem  == IF Active THEN atIssue.stored ELSE stored
IsaCur  == IF Active THEN ir ELSE NoInstr

(* A step of the abstract specification, or none.                           *)
IsaStep == [ISA!Next]_(ISA!isaVars)

(* A step that the program does not see.                                    *)
LEMMA IsaStutter ==
  ASSUME IsaRegs' = IsaRegs, IsaVl' = IsaVl, IsaMem' = IsaMem, IsaCur' = IsaCur PROVE IsaStep
BY DEF IsaStep, ISA!isaVars, IsaRegs, IsaVl, IsaMem, IsaCur

(* In particular every step in the middle of an instruction.                *)
LEMMA IsaHeld ==
  ASSUME Active, Active', ir' = ir, atIssue' = atIssue PROVE IsaStep
BY IsaStutter DEF IsaRegs, IsaVl, IsaMem, IsaCur

(* An instruction is issued.                                                *)
LEMMA IsaIssue ==
  ASSUME ~Active, Active', ir' \in Instrs, atIssue'.rf = rfNext, atIssue'.vl = csr_vl,
         atIssue'.stored = stored
  PROVE  IsaStep
<1>1. ISA!Issue
  BY DEF ISA!Issue
<1>. QED BY <1>1 DEF IsaStep, ISA!Next

-----------------------------------------------------------------------------
(* Between two instructions                                                 *)

(* No instruction is in progress: the registers, the vector length and the  *)
(* memory stay as they are, and an instruction may be issued.               *)
LEMMA RestStep ==
  ASSUME Handshake, Data, ~Active, TypeInv',
         NEW answer \in Answers, NEW irq \in BOOLEAN, Cycle(answer, irq)
  PROVE  Data' /\ IsaStep
<1>0. /\ TypeInv /\ Datapath(answer) /\ VectorControl(answer) /\ ExecuteEngine(answer)
  BY DEF Handshake, Cycle
<1>1. v.state = "S_IDLE" /\ start = "none"
  BY DEF Handshake, EngineRuns, Active, start
<1>2. v' = v /\ ~switch' /\ csr_vl' = csr_vl
  BY <1>0, <1>1, EngineRests
<1>3. answer = "none" /\ stored' = stored
  BY BusIdle DEF Active
<1>4. IsList(stored') /\ IsFile(rf') /\ Accesses'
  BY BusData, FileKept DEF Data, Cycle
<1>5. rf' = rfNext /\ rfNext[0] = Zero /\ DOMAIN rf' = Regs /\ 0 \in Regs /\ rf' = [r \in Regs |-> rf'[r]]
  BY <1>0, <1>4, NumRegsAssumption DEF Datapath, Data, TypeInv, TypeOK, Regs, IsFile
<1>6. ex \in {"DISPATCH", "TRAP_ENTER", "TRAP_START", "TRAP_EXECUTE", "BRANCHED"}
  BY <1>0 DEF Active, TypeInv, TypeOK, ControlTypeOK, ExecStates
<1>7. rfNext' = rf'
  <2>1. CASE ex = "BRANCHED"
    <3>1. ctrl' = [NoCtrl EXCEPT !.zero = TRUE, !.mux = "csr"]
      BY <1>0, <2>1, ExecCtrl
    <3>2. out' = [ctrl' EXCEPT !.size = ir'.size]
      BY <1>2 DEF out
    <3>3. out'.zero /\ out'.mux = "csr"
      BY <3>1, <3>2 DEF NoCtrl
    <3>4. rfNext' = [rf' EXCEPT ![0] = Zero]
      BY <3>3 DEF rfNext, opaAddr, wdata
    <3>5. rf'[0] = Zero
      BY <1>5
    <3>. QED BY <1>5, <3>4, <3>5
  <2>2. CASE ex # "BRANCHED"
    <3>1. ctrl' = NoCtrl
      BY <1>0, <1>6, <2>2, ExecCtrl
    <3>2. ~ctrl'.wb /\ ~ctrl'.vwe /\ ~ctrl'.zero
      BY <3>1 DEF NoCtrl
    <3>. QED BY <1>2, <3>1, <3>2, NoCtrlType, QuietWrite
  <2>. QED BY <2>1, <2>2
<1>8. CASE Dispatch
  <2>1. /\ ir' \in Instrs /\ ex' = "EXECUTE" /\ ctrl' = NoCtrl
        /\ atIssue' = [rf |-> rf', vl |-> csr_vl, stored |-> stored']
    BY <1>8 DEF Dispatch, Go
  <2>2. atIssue'.rf = rf' /\ atIssue'.vl = csr_vl /\ atIssue'.stored = stored'
    BY <2>1
  <2>3. Active'
    BY <2>1 DEF Active
  <2>4. IsaStep
    BY <1>3, <1>5, <2>1, <2>2, <2>3, IsaIssue
  <2>5. AtIssue'
    <3>1. csr_vl \in Counter /\ \A r \in Regs : IsWord(rf'[r])
      BY <1>0 DEF TypeInv, TypeOK, WordsOK
    <3>. QED BY <1>2, <1>4, <1>5, <2>2, <3>1 DEF AtIssue
  <2>6. (ex' = "EXECUTE") => /\ Untouched' /\ ctrl' = NoCtrl /\ stored' = atIssue'.stored /\ ~switch'
                             /\ csr_vl' = atIssue'.vl
    BY <1>2, <2>1, <2>2 DEF Untouched
  <2>. QED BY <1>4, <2>1, <2>3, <2>4, <2>5, <2>6 DEF Data
<1>9. CASE atIssue' = atIssue /\ ex' \in {"DISPATCH", "TRAP_ENTER", "TRAP_START", "TRAP_EXECUTE", "BRANCHED"}
  <2>1. ~Active'
    BY <1>9 DEF Active
  <2>2. IsaStep
    BY <1>2, <1>3, <1>5, <1>7, <2>1, IsaStutter DEF IsaRegs, IsaVl, IsaMem, IsaCur
  <2>3. rfNext'[0] = Zero
    BY <1>5, <1>7
  <2>. QED BY <1>4, <1>9, <2>1, <2>2, <2>3 DEF Data
<1>10. \/ Dispatch
       \/ atIssue' = atIssue /\ ex' \in {"DISPATCH", "TRAP_ENTER", "TRAP_START", "TRAP_EXECUTE", "BRANCHED"}
  <2>1. CASE ex = "DISPATCH"
    BY <1>0, <2>1, ExecCtrl
  <2>2. CASE ex # "DISPATCH"
    <3>1. atIssue' = atIssue
      BY <1>0, <2>2, ExecCtrl
    <3>2. ex' \in {"DISPATCH", "TRAP_ENTER", "TRAP_START", "TRAP_EXECUTE", "BRANCHED"}
      BY <1>0, <1>6, <2>2, ExecStep
    <3>. QED BY <3>1, <3>2
  <2>. QED BY <2>1, <2>2
<1>. QED BY <1>8, <1>9, <1>10

-----------------------------------------------------------------------------
(* An instruction is executed                                               *)

(* What lasts as long as the instruction.                                   *)
LEMMA AtIssueKept ==
  ASSUME AtIssue, ir' = ir, atIssue' = atIssue,
         ir.op # "vcsr" => csr_vl' = csr_vl,
         ir.op # "vstore" => stored' = stored
  PROVE  AtIssue'
BY DEF AtIssue

(* EXECUTE: an operation of the vector engine starts, or a load.            *)
LEMMA ExecuteStep ==
  ASSUME Handshake, Data, ProgramProper, ex = "EXECUTE",
         NEW answer \in Answers, NEW irq \in BOOLEAN, Cycle(answer, irq)
  PROVE  Data' /\ IsaStep
<1>0. /\ TypeInv /\ Datapath(answer) /\ VectorControl(answer) /\ ExecuteEngine(answer)
      /\ Active /\ AtIssue /\ Context /\ ir.op \in VectorOps \union {"lw"}
  BY ContextFacts DEF Handshake, Cycle, Active, Data, Context
<1>1. ir' = ir /\ atIssue' = atIssue /\ ex' = IF ir.op = "lw" THEN "MEM_REQ" ELSE "VECTOR_WAIT"
  BY <1>0, ExecCtrl, ExecStep
<1>2. answer = "none" /\ stored' = stored
  BY BusIdle
<1>3. IsList(stored') /\ IsFile(rf') /\ Accesses'
  BY BusData, FileKept DEF Data, Cycle
<1>4. Active' /\ IsaStep
  <2>1. Active'
    BY <1>1 DEF Active
  <2>. QED BY <1>0, <1>1, <2>1, IsaHeld
<1>5. CASE ir.op # "lw"
  <2>1. Working' /\ csr_vl' = csr_vl
    BY <1>0, <1>1, <1>5, WorkStart
  <2>2. AtIssue'
    BY <1>0, <1>1, <1>2, <2>1, AtIssueKept
  <2>. QED BY <1>1, <1>3, <1>4, <1>5, <2>1, <2>2 DEF Data
<1>6. CASE ir.op = "lw"
  <2>1. v.state = "S_IDLE" /\ start = "none"
    BY <1>6 DEF Handshake, EngineRuns, start, Kind
  <2>2. v' = v /\ ~switch' /\ csr_vl' = csr_vl
    BY <1>0, <2>1, EngineRests
  <2>3. AtIssue'
    BY <1>0, <1>1, <1>2, <2>2, AtIssueKept
  <2>4. ctrl' = [NoCtrl EXCEPT !.mo = TRUE, !.opb = "imm"]
    BY <1>0, <1>6, ExecCtrl
  <2>5. LoadingWord'
    BY <1>0, <1>1, <1>6, <2>2, <2>4, StartData DEF LoadingWord, Untouched
  <2>. QED BY <1>1, <1>3, <1>4, <1>6, <2>3, <2>5 DEF Data
<1>. QED BY <1>5, <1>6

(* VECTOR_WAIT: the operation goes on.                                      *)
LEMMA WaitingStep ==
  ASSUME Handshake, Data, ProgramProper, ex = "VECTOR_WAIT", ~finished, ~AccessError,
         NEW answer \in Answers, NEW irq \in BOOLEAN, Cycle(answer, irq)
  PROVE  Data' /\ IsaStep
<1>0. /\ TypeInv /\ Datapath(answer) /\ VectorControl(answer) /\ ExecuteEngine(answer)
      /\ Active /\ AtIssue /\ Context
  BY DEF Handshake, Cycle, Active, Data, Context
<1>1. ir' = ir /\ atIssue' = atIssue /\ ex' = "VECTOR_WAIT"
  BY <1>0, ExecCtrl, ExecStep
<1>2. Moving(answer)
  BY <1>0, <1>1 DEF Moving, Cycle
<1>3. IsList(stored') /\ IsFile(rf') /\ Accesses'
  BY BusData, FileKept DEF Data, Cycle
<1>4. Working' /\ (ir.op # "vcsr" => csr_vl' = csr_vl)
  BY <1>0, <1>2, WorkStep
<1>5. ir.op # "vstore" => stored' = stored
  BY <1>2, MovingBus
<1>6. AtIssue'
  BY <1>0, <1>1, <1>4, <1>5, AtIssueKept
<1>7. Active'
  BY <1>1 DEF Active
<1>8. IsaStep
  BY <1>0, <1>1, <1>7, IsaHeld
<1>. QED BY <1>1, <1>3, <1>4, <1>6, <1>7, <1>8 DEF Data

-----------------------------------------------------------------------------
(* An instruction is over                                                   *)

(* The vocabulary is the same on both sides of the refinement.              *)
LEMMA IsaVocabulary ==
  /\ \A x, y : ISA!Add(x, y) = Add(x, y) /\ ISA!Mul(x, y) = Mul(x, y)
  /\ \A x, y, b : ISA!MulByte(x, y, b) = MulByte(x, y, b)
  /\ \A s : ISA!Bytes(s) = Bytes(s)
  /\ \A a : ISA!WordBytes(a) = WordBytes(a) /\ ISA!Word(a) = Word(a) /\ ISA!Faulty(a) = Faulty(a)
  /\ \A i, R : ISA!Base(i, R) = Base(i, R)
  /\ \A i, R, k : ISA!ElemAddr(i, R, k) = ElemAddr(i, R, k)
  /\ \A i : ISA!StoreSize(i) = StoreSize(i)
  /\ \A i, n : ISA!Dest(i, n) = Dest(i, n) /\ ISA!DestCount(i, n) = DestCount(i, n)
  /\ \A r, k : ISA!Reg(r, k) = Reg(r, k)
  /\ \A w : ISA!Num(w) = Num(w)
  /\ \A n : ISA!Count(n) = Count(n)
  /\ ISA!Regs = Regs /\ ISA!Counter = Counter /\ ISA!Zero = Zero
BY DEF ISA!Add, Add, ISA!Mul, Mul, ISA!MulByte, MulByte, ISA!Bytes, Bytes, ISA!WordBytes, WordBytes,
   ISA!Word, Word, ISA!Faulty, Faulty, ISA!Base, Base, ISA!ElemAddr, ElemAddr, ISA!StoreSize, StoreSize,
   ISA!Dest, Dest, ISA!DestCount, DestCount, ISA!Reg, Reg, ISA!Num, Num, ISA!Count, Count,
   ISA!Regs, Regs, ISA!Counter, Counter, ISA!Zero, Zero, ISA!Scalar, Scalar, ISA!Stride, Stride,
   ISA!Width, Width, ISA!Groups, Groups

(* What VectorIsa promises of a register and of the memory, in the terms of *)
(* the invariant.                                                           *)
LEMMA IsaResult ==
  ASSUME NEW i, i.op \in {"vload", "vadd", "vmul", "vmac", "lw"}, NEW w, NEW m
  PROVE  ISA!Result(w, i, m) <=> Wanted(i, IsaRegs, IsaVl, w, m)
<1>1. ISA!DotProduct(i) = SumTo(i, IsaRegs, IsaVl, IsaVl)
  BY DEF ISA!DotProduct, ISA!Product, SumTo, Prod, IsaRegs, IsaVl, ISA!MulByte, MulByte, ISA!Reg, Reg,
     ISA!Add, Add, ISA!Zero, Zero, ISA!Scalar, Scalar
<1>2. ISA!Holds(w, i, m) <=> Brings(i, IsaRegs, IsaVl, w, m)
  BY IsaVocabulary DEF ISA!Holds, ISA!LoadedByte, Brings, ByteOf, IsaRegs, IsaVl
<1>3. CASE i.op = "vload"
  BY <1>2, <1>3 DEF ISA!Result, Wanted
<1>4. CASE i.op = "vmac"
  BY <1>1, <1>4 DEF ISA!Result, Wanted, IsaRegs, IsaVl
<1>5. CASE i.op = "vadd"
  BY <1>5, IsaVocabulary DEF ISA!Result, Wanted, IsaRegs, IsaVl
<1>6. CASE i.op = "vmul"
  BY <1>6, IsaVocabulary DEF ISA!Result, Wanted, IsaRegs, IsaVl
<1>7. CASE i.op = "lw"
  BY <1>7, IsaVocabulary DEF ISA!Result, Wanted, IsaRegs, IsaVl
<1>. QED BY <1>3, <1>4, <1>5, <1>6, <1>7

(* And of the memory.                                                       *)
LEMMA IsaStores ==
  ASSUME NEW i, NEW n PROVE ISA!Stores(i, n) = StoresTo(i, IsaRegs, n)
BY IsaVocabulary DEF ISA!Stores, StoresTo, IsaRegs

(* An instruction that did all it promises completes.                       *)
LEMMA IsaComplete ==
  ASSUME NoInstr \notin Instrs, ir \in Instrs, Context, ~Active', DoneOf(rfNext', DestOf),
         csr_vl' = IF ir.op = "vcsr" THEN Count(Num(atIssue.rf[ir.rd])) ELSE Last,
         stored' = IF ir.op = "vstore" THEN atIssue.stored \o StoresTo(ir, atIssue.rf, Last)
                   ELSE atIssue.stored
  PROVE  IsaStep
<1>1. /\ IsaRegs = atIssue.rf /\ IsaVl = Last /\ IsaMem = atIssue.stored /\ IsaCur = ir
      /\ IsaRegs' = rfNext' /\ IsaVl' = csr_vl' /\ IsaMem' = stored' /\ IsaCur' = NoInstr
  BY DEF Context, IsaRegs, IsaVl, IsaMem, IsaCur, Last
<1>2. \A r \in Regs \ Dest(ir, IsaVl) : IsaRegs'[r] = IsaRegs[r]
  BY <1>1 DEF DoneOf, Done, Last
<1>3. ASSUME NEW m \in 0 .. DestCount(ir, IsaVl) - 1
      PROVE  ISA!Result(IsaRegs'[Reg(ir.rd, m)], ir, m)
  <2>1. m \in 0 .. DestOf - 1 /\ m < DestOf
    BY <1>1, ContextFacts DEF DestOf, Last
  <2>2. Wanted(ir, IsaRegs, IsaVl, IsaRegs'[Reg(ir.rd, m)], m)
    BY <1>1, <2>1 DEF DoneOf, Done, Last, DestOf
  <2>3. ir.op \in {"vload", "vadd", "vmul", "vmac", "lw"}
    BY <1>1, <2>1, ContextFacts DEF DestOf, DestCount, VectorOps
  <2>. QED BY <2>2, <2>3, IsaResult
<1>4. IsaMem' = IF ir.op = "vstore" THEN IsaMem \o ISA!Stores(ir, IsaVl) ELSE IsaMem
  BY <1>1, IsaStores
<1>5. IsaVl' = IF ir.op = "vcsr" THEN Count(Num(IsaRegs[ir.rd])) ELSE IsaVl
  BY <1>1
<1>6. IsaCur = ir /\ IsaCur # NoInstr /\ IsaCur' = NoInstr
  BY <1>1
<1>7. ISA!Complete
  BY <1>2, <1>3, <1>4, <1>5, <1>6, IsaVocabulary DEF ISA!Complete, IsaRegs, IsaVl, IsaMem, IsaCur
<1>. QED BY <1>7 DEF IsaStep, ISA!Next

(* Between two instructions the invariant asks little of the data.          *)
LEMMA DataAtRest ==
  ASSUME Handshake, Data, NEW answer \in Answers, NEW irq \in BOOLEAN, Cycle(answer, irq),
         ex' = "DISPATCH", rfNext'[0] = Zero
  PROVE  Data' /\ ~Active'
<1>1. IsList(stored') /\ IsFile(rf') /\ Accesses'
  BY BusData, FileKept DEF Data, Cycle
<1>2. ~Active'
  BY DEF Active
<1>. QED BY <1>1, <1>2 DEF Data

(* The cycle in which the execute engine sees finished: the operation is    *)
(* over and the instruction completes.                                      *)
LEMMA FinishedStep ==
  ASSUME NoInstr \notin Instrs, ir \in Instrs,
         Handshake, Data, ProgramProper, TypeInv', ex = "VECTOR_WAIT", finished,
         NEW answer \in Answers, NEW irq \in BOOLEAN, Cycle(answer, irq)
  PROVE  Data' /\ IsaStep
<1>0. /\ TypeInv /\ Datapath(answer) /\ VectorControl(answer) /\ ExecuteEngine(answer)
      /\ Active /\ AtIssue /\ Context /\ Working /\ switch
  BY DEF Handshake, Cycle, Active, Data, Context, Working
<1>1. ir' = ir /\ atIssue' = atIssue /\ ex' = "DISPATCH" /\ ctrl' = NoCtrl
  BY <1>0, ExecCtrl, ExecStep
<1>2. v.state \in {"S_IDLE", "S_MEM_LAST_STORE"}
  BY DEF Handshake, EngineRuns
<1>3. answer = "none" /\ stored' = stored /\ answer # "ack"
  BY <1>2, BusIdle DEF WaitStates
<1>4. ~Active' /\ rf' = rfNext /\ ir.op # "lw"
  BY <1>0, <1>1 DEF Active, Datapath, Working
<1>5. /\ DoneOf(rfNext', DestOf)
      /\ csr_vl' = (IF ir.op = "vcsr" THEN Count(Num(atIssue.rf[ir.rd])) ELSE Last)
      /\ ir.op = "vstore" => Stored(Last)
  <2>1. CASE v.state = "S_IDLE"
    <3>1. start = "none"
      BY <1>0 DEF start
    <3>2. v' = v /\ ~switch' /\ csr_vl' = csr_vl
      BY <1>0, <2>1, <3>1, EngineRests
    <3>3. ctrl' \in CtrlType /\ ~ctrl'.wb /\ ~ctrl'.vwe /\ ~ctrl'.zero
      BY <1>1, NoCtrlType DEF NoCtrl
    <3>4. rfNext' = rfNext
      BY <1>4, <3>2, <3>3, QuietWrite
    <3>5. Over
      BY <1>0, <2>1, WorkOver
    <3>6. ir.op # "vcsr" => csr_vl = Last
      BY <1>0, ContextFacts
    <3>. QED BY <3>2, <3>4, <3>5, <3>6 DEF Over
  <2>2. CASE v.state = "S_MEM_LAST_STORE"
    <3>1. ir.op = "vload" /\ ir.mode = "unit" /\ LoadingUnit
      <4>1. ir.op \in VectorOps /\ ir.mode \in {"unit", "strided"}
        BY <1>0, <1>4, ContextFacts
      <4>2. ~Adding /\ ~Multiplying /\ ~Accumulating /\ ~Setting /\ ~StoringUnit /\ ~StoringStrided
            /\ ~LoadingStrided
        BY <2>2 DEF Adding, AddingAt, Multiplying, MultiplyingAt, Accumulating, AccumulatingAt, Setting,
           StoringUnit, StoringStrided, LoadingStrided
      <4>. QED BY <1>0, <4>1, <4>2 DEF Working, VectorOps
    <3>2. MemLastStore
      BY <1>0, <2>2 DEF VectorControl, Idle, VectorCsr, VMul, VAlu, VMac, MemAddr, MemReqUnit,
         MemWaitUnit, MemAddrStrided, MemReqStrided, MemWaitStrided
    <3>3. DoneOf(rfNext', DestOf)
      BY <1>0, <1>1, <1>3, <3>1, <3>2, LoadingUnitLast
    <3>4. csr_vl' = csr_vl
      BY <3>2 DEF MemLastStore
    <3>5. csr_vl = Last
      BY <1>0, <3>1, ContextFacts
    <3>. QED BY <3>1, <3>3, <3>4, <3>5
  <2>. QED BY <1>2, <2>1, <2>2
<1>6. stored' = (IF ir.op = "vstore" THEN atIssue.stored \o StoresTo(ir, atIssue.rf, Last)
                 ELSE atIssue.stored)
  BY <1>0, <1>3, <1>5 DEF Stored, AtIssue
<1>7. IsaStep
  BY <1>0, <1>4, <1>5, <1>6, IsaComplete
<1>8. rfNext'[0] = Zero
  <2>1. Separate(ir, atIssue.vl)
    BY <1>0, ContextFacts DEF Last
  <2>. QED BY <1>0, <1>5, <2>1, DoneZero DEF DoneOf, AtIssue
<1>. QED BY <1>1, <1>7, <1>8, DataAtRest

-----------------------------------------------------------------------------
(* An instruction is cut off                                                *)

(* It ended at element e, and g registers of its destination are written.   *)
LEMMA IsaAbort ==
  ASSUME NoInstr \notin Instrs, ir \in Instrs, Context, ~Active', NEW e \in Counter, NEW g,
         ir.op \in {"vload", "vstore", "lw"}, e < IF ir.op = "lw" THEN 1 ELSE Last,
         Faulty(Elem(e)) \/ (ir.op = "lw" /\ Elem(e) % Width(ir) # 0), \A j \in 0 .. e - 1 : ~Faulty(Elem(j)),
         DoneOf(rfNext', g),
         \A m \in 0 .. DestOf - 1 : m < g <=> IF ir.size = "8" THEN 4 * m + 3 < e ELSE m < e,
         csr_vl' = Last,
         stored' = IF ir.op = "vstore" THEN atIssue.stored \o StoresTo(ir, atIssue.rf, e)
                   ELSE atIssue.stored
  PROVE  IsaStep
<1>1. /\ IsaRegs = atIssue.rf /\ IsaVl = Last /\ IsaMem = atIssue.stored /\ IsaCur = ir
      /\ IsaRegs' = rfNext' /\ IsaVl' = csr_vl' /\ IsaMem' = stored' /\ IsaCur' = NoInstr
  BY DEF Context, IsaRegs, IsaVl, IsaMem, IsaCur, Last
<1>2. \A r \in Regs \ Dest(ir, IsaVl) : IsaRegs'[r] = IsaRegs[r]
  BY <1>1 DEF DoneOf, Done, Last
<1>3. ASSUME NEW m \in 0 .. DestCount(ir, IsaVl) - 1
      PROVE  IF ISA!LoadedBefore(ir, m, e) THEN ISA!Result(IsaRegs'[Reg(ir.rd, m)], ir, m)
             ELSE IsaRegs'[Reg(ir.rd, m)] = IsaRegs[Reg(ir.rd, m)]
  <2>1. m \in 0 .. DestOf - 1
    BY <1>1 DEF DestOf, Last
  <2>2. IF m < g THEN Wanted(ir, IsaRegs, IsaVl, IsaRegs'[Reg(ir.rd, m)], m)
        ELSE IsaRegs'[Reg(ir.rd, m)] = IsaRegs[Reg(ir.rd, m)]
    BY <1>1, <2>1 DEF DoneOf, Done, Last, DestOf
  <2>3. ir.op \in {"vload", "vadd", "vmul", "vmac", "lw"}
    BY <1>1, <2>1, ContextFacts DEF DestOf, DestCount, VectorOps
  <2>4. ISA!LoadedBefore(ir, m, e) <=> m < g
    BY <2>1 DEF ISA!LoadedBefore
  <2>. QED BY <2>2, <2>3, <2>4, IsaResult
<1>4. IsaMem' = IF ir.op = "vstore" THEN IsaMem \o ISA!Stores(ir, e) ELSE IsaMem
  BY <1>1, IsaStores
<1>5. IsaVl' = IsaVl
  BY <1>1
<1>6. IsaCur = ir /\ IsaCur # NoInstr /\ IsaCur' = NoInstr
  BY <1>1
<1>7. e < ISA!Elements(ir)
  BY <1>1 DEF ISA!Elements, IsaVl
<1>8. ISA!Fails(ir, ElemAddr(ir, IsaRegs, e)) /\ \A j \in 0 .. e - 1 : ~ISA!Fails(ir, ElemAddr(ir, IsaRegs, j))
  <2>1. \A a : ISA!Fails(ir, a) <=> Faulty(a) \/ (ir.op = "lw" /\ a % Width(ir) # 0)
    BY IsaVocabulary DEF ISA!Fails, ISA!Width, Width
  <2>2. ir.op = "lw" => 0 .. e - 1 = {}
    BY DEF Counter
  <2>. QED BY <1>1, <2>1, <2>2 DEF Elem
<1>9. ISA!Abort(e)
  BY <1>2, <1>3, <1>4, <1>5, <1>6, <1>7, <1>8, IsaVocabulary
     DEF ISA!Abort, IsaRegs, IsaVl, IsaMem, IsaCur
<1>. QED BY <1>9, IsaVocabulary DEF IsaStep, ISA!Next

(* The bytes of a word.                                                     *)
LEMMA ByteInWord ==
  ASSUME NEW b \in Int, b % 4 = 0, NEW r \in 0 .. 3
  PROVE  Word(b + r) = b
<1>1. (b + r) % 4 = r
  OBVIOUS
<1>. QED BY <1>1 DEF Word

(* The word that holds a byte of a run of words.                            *)
LEMMA WordOfRun ==
  ASSUME NEW a \in Int, NEW t \in Nat
  PROVE  /\ t \div 4 \in Nat /\ 4 * (t \div 4) <= t
         /\ Word(a + t - (a % 4)) = Word(a + 4 * (t \div 4))
         /\ Word(a + 4 * (t \div 4)) = a - (a % 4) + 4 * (t \div 4)
<1>1. PICK q \in Nat, r \in 0 .. 3 : t = 4 * q + r /\ t \div 4 = q
  OBVIOUS
<1>2. Word(a) \in Int /\ Word(a) % 4 = 0 /\ Word(a) + (a % 4) = a /\ a % 4 \in 0 .. 3
  BY WordFacts
<1>3. PICK b \in Int : b = Word(a) + 4 * q
  BY <1>2
<1>4. b % 4 = 0
  BY <1>2, <1>3
<1>5. a + t - (a % 4) = b + r /\ a + 4 * q = b + (a % 4) /\ b = a - (a % 4) + 4 * q
  <2>1. PICK w \in Int, o \in Int : w = Word(a) /\ o = a % 4
    BY <1>2
  <2>2. a = w + o /\ b = w + 4 * q /\ t = 4 * q + r
    BY <1>1, <1>2, <1>3, <2>1
  <2>3. a + t - o = b + r /\ a + 4 * q = b + o /\ b = a - o + 4 * q
    BY <2>2
  <2>. QED BY <2>1, <2>3
<1>6. Word(b + r) = b /\ Word(b + (a % 4)) = b
  BY <1>2, <1>4, ByteInWord
<1>. QED BY <1>1, <1>5, <1>6

(* A faulty word of a unit-stride load, in elements.                        *)
LEMMA UnitFault ==
  ASSUME Context, ir.op = "vload", ir.mode = "unit", NEW k \in Nat, Count1(k) < Last,
         Faulty(Start + 4 * k), \A j \in 0 .. k - 1 : ~Faulty(Start + 4 * j)
  PROVE  /\ Count1(k) \in Nat /\ Faulty(Elem(Count1(k)))
         /\ \A j \in 0 .. Count1(k) - 1 : ~Faulty(Elem(j))
         /\ \A m \in Nat : m < Full(k) <=> IF ir.size = "8" THEN 4 * m + 3 < Count1(k) ELSE m < Count1(k)
<1>1. Start \in Int /\ Offset \in 0 .. 3
  BY StartInt
<1>2. /\ ir.size \in {"8", "32"} /\ Count1(k) \in Nat
      /\ ir.size = "32" => Offset = 0
  BY LoadCounts
<1>3. CASE ir.size = "32"
  <2>1. Count1(k) = k /\ Full(k) = k
    BY <1>2, <1>3 DEF Count1, Full
  <2>2. \A j \in Nat : Elem(j) = Start + 4 * j
    BY <1>1, <1>3 DEF Elem, ElemAddr, Width, Start
  <2>. QED BY <1>2, <1>3, <2>1, <2>2
<1>4. CASE ir.size = "8"
  <2>1. \A j \in Nat : Elem(j) = Start + j
    BY <1>1, <1>4 DEF Elem, ElemAddr, Width, Start
  <2>2. CASE k = 0
    <3>1. Count1(k) = 0 /\ Full(k) = 0
      BY <1>4, <2>2 DEF Count1, Full
    <3>2. Elem(0) = Start + 4 * k
      BY <1>1, <2>1, <2>2
    <3>. QED BY <1>4, <3>1, <3>2
  <2>3. CASE k # 0
    <3>1. Count1(k) = 4 * k - Offset /\ Full(k) = IF Offset = 0 THEN k ELSE k - 1
      BY <1>4, <2>3 DEF Count1, Full
    <3> HIDE DEF Offset
    <3>2. ASSUME NEW t \in Nat PROVE Word(Start + t - Offset) = Word(Start + 4 * (t \div 4))
      BY <1>1, WordOfRun DEF Offset
    <3>3. Faulty(Elem(Count1(k)))
      <4>1. Elem(Count1(k)) = Start + 4 * k - Offset
        BY <1>1, <1>2, <2>1, <3>1
      <4>2. 4 * k \in Nat /\ (4 * k) \div 4 = k
        OBVIOUS
      <4>3. Word(Start + 4 * k - Offset) = Word(Start + 4 * k)
        BY <3>2, <4>2
      <4>. QED BY <4>1, <4>3 DEF Faulty
    <3>4. ASSUME NEW j \in 0 .. Count1(k) - 1 PROVE ~Faulty(Elem(j))
      <4> DEFINE t == j + Offset
      <4>1. t \in Nat /\ t < 4 * k /\ j \in Nat
        BY <1>1, <1>2, <3>1
      <4>2. Elem(j) = Start + t - Offset
        BY <1>1, <2>1, <4>1
      <4> HIDE DEF t
      <4>3. t \div 4 \in 0 .. k - 1
        BY <4>1
      <4>4. Word(Start + t - Offset) = Word(Start + 4 * (t \div 4))
        BY <3>2, <4>1
      <4>. QED BY <4>2, <4>3, <4>4 DEF Faulty
    <3>5. ASSUME NEW m \in Nat PROVE m < Full(k) <=> 4 * m + 3 < Count1(k)
      BY <1>1, <3>1
    <3>. QED BY <1>2, <1>4, <3>3, <3>4, <3>5
  <2>. QED BY <2>2, <2>3
<1>. QED BY <1>2, <1>3, <1>4

(* A bus error in a unit-stride access: the engine gives up.                *)
LEMMA AbortUnitStep ==
  ASSUME NoInstr \notin Instrs, ir \in Instrs,
         Handshake, Data, ProgramProper, ex = "VECTOR_WAIT", AccessError, NoStridedFault,
         NEW answer \in Answers, NEW irq \in BOOLEAN, Cycle(answer, irq)
  PROVE  Data' /\ IsaStep
<1>0. /\ TypeInv /\ Datapath(answer) /\ VectorControl(answer) /\ ExecuteEngine(answer)
      /\ Active /\ AtIssue /\ Context /\ Working /\ switch
  BY DEF Handshake, Cycle, Active, Data, Context, Working
<1>1. v.state = "S_MEM_WAIT" /\ IsMem(ir) /\ ~finished
  BY FaultPlace
<1>2. ir' = ir /\ atIssue' = atIssue /\ ex' = "DISPATCH" /\ ctrl' = NoCtrl
  BY <1>0, <1>1, ExecCtrl, ExecStep
<1>3. MemWaitUnit(answer)
  BY <1>0, <1>1 DEF VectorControl, Idle, VectorCsr, VMul, VAlu, VMac, MemAddr, MemReqUnit,
     MemLastStore, MemAddrStrided, MemReqStrided, MemWaitStrided
<1>4. ~switch' /\ csr_vl' = csr_vl
  BY <1>3 DEF MemWaitUnit, Hold
<1>5. exc # {} /\ slave = "idle" /\ Faulty(bus.mar)
  BY <1>1 DEF AccessError, Handshake, EngineRuns, Pending, Data, Accesses, IsMem
<1>6. stored' = stored
  BY <1>5 DEF Cycle, BusUnit
<1>7. rfNext' = rfNext /\ ~Active'
  <2>1. ctrl' \in CtrlType /\ ~ctrl'.wb /\ ~ctrl'.vwe /\ ~ctrl'.zero
    BY <1>2, NoCtrlType DEF NoCtrl
  <2>. QED BY <1>0, <1>2, <1>4, <2>1, QuietWrite DEF Datapath, Active
<1>8. csr_vl = Last /\ Separate(ir, Last) /\ Last \in Counter /\ ir.op \in {"vload", "vstore"}
  BY <1>0, <1>1, ContextFacts DEF IsMem
<1>9. IsaStep /\ \E g : DoneOf(rfNext', g)
  <2>1. CASE ir.op = "vstore"
    <3>1. StoringUnit
      BY <1>0, <1>1, <2>1 DEF Working, StoringStrided
    <3>2. PICK k \in 0 .. Last - 1 : StoringUnitAt(k)
      BY <1>1, <3>1 DEF StoringUnit
    <3>3. ir.mode = "unit"
      BY <1>0, <1>1, <2>1, ContextFacts DEF Working, StoringStrided
    <3>4. k \in Counter /\ k \in Nat
      BY <1>8 DEF Counter
    <3>5. UnitAccess(k) /\ Stored(k) /\ bus.mar = Word(Start + 4 * k)
      BY <1>1, <3>2 DEF StoringUnitAt, UnitAccess
    <3>6. \A j \in Nat : Word(Start + 4 * j) = Elem(j)
      BY <1>0, <2>1, <3>3, UnitStoreElem
    <3>7. \A j \in Nat : Faulty(Elem(j)) = Faulty(Start + 4 * j)
      <4>1. ASSUME NEW j \in Nat PROVE Faulty(Elem(j)) = Faulty(Start + 4 * j)
        <5>1. Start + 4 * j \in Int
          BY <1>0, StartInt
        <5>. QED BY <3>6, <5>1, WordFacts
      <4>. QED BY <4>1
    <3>8. Faulty(Elem(k)) /\ \A j \in 0 .. k - 1 : ~Faulty(Elem(j))
      BY <1>5, <3>4, <3>5, <3>6, <3>7 DEF UnitAccess
    <3>9. ~ctrl_vector.wb /\ ~ctrl_vector.vwe /\ ~ctrl_vector.zero /\ rf = atIssue.rf
      BY <3>1 DEF StoringUnit, Untouched
    <3>15. PICK g : g = 0
      OBVIOUS
    <3>10. DoneOf(rfNext', g)
      BY <3>15, <1>0, <1>7, <3>9, NoWrite, DoneStart
    <3>11. DestOf = 0
      BY <2>1 DEF DestOf, DestCount
    <3>12. stored' = atIssue.stored \o StoresTo(ir, atIssue.rf, k)
      BY <1>6, <3>5 DEF Stored
    <3>13. k < Last /\ csr_vl' = Last
      BY <1>4, <1>8 DEF Counter
    <3>14. \A m \in 0 .. DestOf - 1 : m < g <=> IF ir.size = "8" THEN 4 * m + 3 < k ELSE m < k
      BY <3>11
    <3>16. stored' = IF ir.op = "vstore" THEN atIssue.stored \o StoresTo(ir, atIssue.rf, k)
                     ELSE atIssue.stored
      BY <2>1, <3>12
    <3>17. k < IF ir.op = "lw" THEN 1 ELSE Last
      BY <2>1, <3>13
    <3> HIDE DEF Last, Counter, Start, Offset
    <3>18. ~Active' /\ ir.op \in {"vload", "vstore", "lw"} /\ csr_vl' = Last /\ Context
      BY <1>0, <1>7, <2>1, <3>13
    <3>19. IsaStep
      BY <3>4, <3>8, <3>10, <3>14, <3>16, <3>17, <3>18, IsaAbort
    <3>. QED BY <3>10, <3>19
  <2>2. CASE ir.op = "vload"
    <3>1. LoadingUnit /\ ir.mode = "unit"
      BY <1>0, <1>1, <2>2, ContextFacts DEF Working, LoadingStrided
    <3>2. PICK k \in 0 .. Last : LoadingUnitAt(k)
      BY <1>1, <3>1 DEF LoadingUnit
    <3>3. k \in Nat /\ Count1(k) < Last /\ DoneOf(rfNext, Full(k)) /\ UnitAccess(k)
      BY <1>8, <3>2 DEF LoadingUnitAt, Counter
    <3>4. bus.mar = Word(Start + 4 * k) /\ \A j \in 0 .. k - 1 : ~Faulty(Start + 4 * j)
      BY <1>1, <3>3 DEF UnitAccess
    <3>5. Faulty(Start + 4 * k)
      <4>1. Start + 4 * k \in Int
        BY <1>0, <3>3, StartInt
      <4>. QED BY <1>5, <3>4, <4>1, WordFacts
    <3>6. PICK e \in Nat : e = Count1(k)
      BY <1>0, <2>2, <3>1, <3>3, <3>4, <3>5, UnitFault
    <3>7. /\ Faulty(Elem(e)) /\ \A j \in 0 .. e - 1 : ~Faulty(Elem(j))
          /\ \A m \in Nat : m < Full(k) <=> IF ir.size = "8" THEN 4 * m + 3 < e ELSE m < e
      BY <1>0, <2>2, <3>1, <3>3, <3>4, <3>5, <3>6, UnitFault
    <3>8. e < Last /\ e \in Counter
      BY <1>8, <3>3, <3>6 DEF Counter
    <3>9. \A m \in 0 .. DestOf - 1 : m \in Nat
      BY <1>0, ContextFacts
    <3>10. \A m \in 0 .. DestOf - 1 : m < Full(k) <=> IF ir.size = "8" THEN 4 * m + 3 < e ELSE m < e
      BY <3>7, <3>9
    <3>11. DoneOf(rfNext', Full(k)) /\ csr_vl' = Last
      BY <1>4, <1>7, <1>8, <3>3
    <3>12. stored' = atIssue.stored
      BY <1>0, <1>6, <2>2 DEF AtIssue
    <3> HIDE DEF Last, Counter
    <3>. QED BY <1>0, <1>7, <2>2, <3>7, <3>8, <3>10, <3>11, <3>12, IsaAbort
  <2>. QED BY <1>8, <2>1, <2>2
<1>10. rfNext'[0] = Zero
  BY <1>0, <1>8, <1>9, DoneZero DEF DoneOf, AtIssue, Last
<1>. QED BY <1>2, <1>9, <1>10, DataAtRest

(* A bus error in a strided access: the execute engine gives up, and the    *)
(* vector engine waits for good, writing nothing.                           *)
LEMMA AbortStridedStep ==
  ASSUME NoInstr \notin Instrs, ir \in Instrs,
         Handshake, Data, ProgramProper, ex = "VECTOR_WAIT", ~NoStridedFault,
         NEW answer \in Answers, NEW irq \in BOOLEAN, Cycle(answer, irq)
  PROVE  Stuck' /\ Idling' /\ IsaStep /\ rfNext'[0] = Zero /\ ~Active'
<1>0. /\ TypeInv /\ Datapath(answer) /\ VectorControl(answer) /\ ExecuteEngine(answer)
      /\ Active /\ AtIssue /\ Context /\ Working /\ switch
  BY DEF Handshake, Cycle, Active, Data, Context, Working
<1>1. v.state = "S_MEM_WAIT_STRIDED" /\ AccessError /\ IsMem(ir) /\ ~finished
  BY DEF NoStridedFault, Handshake, EngineRuns, MemStates, WaitStates
<1>2. ir' = ir /\ atIssue' = atIssue /\ ex' = "DISPATCH"
  BY <1>0, <1>1, ExecCtrl, ExecStep
<1>3. exc # {} /\ slave = "idle" /\ Faulty(bus.mar)
  BY <1>1 DEF AccessError, Handshake, EngineRuns, Pending, Data, Accesses, IsMem
<1>4. answer = "none" /\ stored' = stored
  BY <1>3 DEF Cycle, BusUnit, MayAnswer
<1>5. MemWaitStrided(answer)
  BY <1>0, <1>1 DEF VectorControl, Idle, VectorCsr, VMul, VAlu, VMac, MemAddr, MemReqUnit,
     MemLastStore, MemWaitUnit, MemAddrStrided, MemReqStrided
<1>6. ctrl_vector' = [StridedAcc EXCEPT !.mux = "mem"] /\ switch' /\ csr_vl' = csr_vl
  BY <1>4, <1>5 DEF MemWaitStrided, NextCtrl, Hold
<1>7. ~ctrl_vector'.wb /\ ~ctrl_vector'.vwe /\ ~ctrl_vector'.zero
  BY <1>6 DEF StridedAcc, Strided, NoCtrl
<1>8. ~Active' /\ rf' = rfNext /\ rfNext' = rfNext
  BY <1>0, <1>2, <1>6, <1>7 DEF Active, Datapath, rfNext, out
<1>9. Stuck' /\ Idling'
  BY <1>7, <1>8, FaultSticks DEF Idling
<1>10. csr_vl = Last /\ Separate(ir, Last) /\ Last \in Counter /\ ir.op \in {"vload", "vstore"}
  BY <1>0, <1>1, ContextFacts DEF IsMem
<1>11. IsaStep /\ \E g : DoneOf(rfNext', g)
  <2>1. CASE ir.op = "vstore"
    <3>1. StoringStrided
      BY <1>0, <1>1, <2>1 DEF Working, StoringUnit
    <3>2. PICK k \in 0 .. Last - 1 : StoringStridedAt(k)
      BY <1>1, <3>1 DEF StoringStrided
    <3>3. k \in Counter /\ k < Last /\ csr_vl' = Last
      BY <1>6, <1>10 DEF Counter
    <3>4. StridedAccess(k) /\ Stored(k)
      BY <3>2 DEF StoringStridedAt
    <3>5. Faulty(Elem(k)) /\ \A j \in 0 .. k - 1 : ~Faulty(Elem(j))
      BY <1>1, <1>3, <3>4 DEF StridedAccess
    <3>6. ~ctrl_vector.wb /\ ~ctrl_vector.vwe /\ ~ctrl_vector.zero /\ rf = atIssue.rf
      BY <3>1 DEF StoringStrided, Untouched
    <3>11. PICK g : g = 0
      OBVIOUS
    <3>7. DoneOf(rfNext', g)
      BY <3>11, <1>0, <1>8, <3>6, NoWrite, DoneStart
    <3>8. DestOf = 0
      BY <2>1 DEF DestOf, DestCount
    <3>9. stored' = atIssue.stored \o StoresTo(ir, atIssue.rf, k)
      BY <1>4, <3>4 DEF Stored
    <3>10. \A m \in 0 .. DestOf - 1 : m < g <=> IF ir.size = "8" THEN 4 * m + 3 < k ELSE m < k
      BY <3>8
    <3>12. stored' = IF ir.op = "vstore" THEN atIssue.stored \o StoresTo(ir, atIssue.rf, k)
                     ELSE atIssue.stored
      BY <2>1, <3>9
    <3>13. k < IF ir.op = "lw" THEN 1 ELSE Last
      BY <2>1, <3>3
    <3> HIDE DEF Last, Counter, Start, Offset
    <3>14. ~Active' /\ ir.op \in {"vload", "vstore", "lw"} /\ csr_vl' = Last /\ Context
      BY <1>0, <1>8, <2>1, <3>3
    <3>15. IsaStep
      BY <3>3, <3>5, <3>7, <3>10, <3>12, <3>13, <3>14, IsaAbort
    <3>. QED BY <3>7, <3>15
  <2>2. CASE ir.op = "vload"
    <3>1. LoadingStrided
      BY <1>0, <1>1, <2>2 DEF Working, LoadingUnit
    <3>2. PICK k \in 0 .. Last - 1 : LoadingStridedAt(k)
      BY <1>1, <3>1 DEF LoadingStrided
    <3>3. k \in Counter /\ k < Last /\ csr_vl' = Last
      BY <1>6, <1>10 DEF Counter
    <3>4. StridedAccess(k) /\ DoneOf(rfNext', Group(k))
      BY <1>8, <3>2 DEF LoadingStridedAt
    <3>5. Faulty(Elem(k)) /\ \A j \in 0 .. k - 1 : ~Faulty(Elem(j))
      BY <1>1, <1>3, <3>4 DEF StridedAccess
    <3>6. ASSUME NEW m \in 0 .. DestOf - 1
          PROVE  m < Group(k) <=> IF ir.size = "8" THEN 4 * m + 3 < k ELSE m < k
      <4>1. m \in Nat /\ k \in Nat
        BY <1>0, <3>3, ContextFacts DEF Counter
      <4>. QED BY <4>1 DEF Group
    <3>7. stored' = atIssue.stored
      BY <1>0, <1>4, <2>2 DEF AtIssue
    <3> HIDE DEF Last, Counter
    <3>. QED BY <1>0, <1>8, <2>2, <3>3, <3>4, <3>5, <3>6, <3>7, IsaAbort
  <2>. QED BY <1>10, <2>1, <2>2
<1>12. rfNext'[0] = Zero
  BY <1>0, <1>10, <1>11, DoneZero DEF DoneOf, AtIssue, Last
<1>. QED BY <1>8, <1>9, <1>11, <1>12

-----------------------------------------------------------------------------
(* A scalar load                                                            *)

(* What all clocks of a scalar load have in common.                         *)
LEMMA WordLoadFacts ==
  ASSUME Handshake, Data, ProgramProper, ex \in {"MEM_REQ", "MEM_WAIT"},
         NEW answer \in Answers, NEW irq \in BOOLEAN, Cycle(answer, irq)
  PROVE  /\ TypeInv /\ Active /\ AtIssue /\ Context /\ LoadingWord /\ ir.op = "lw"
         /\ ir' = ir /\ atIssue' = atIssue /\ csr_vl' = csr_vl /\ csr_vl = Last
         /\ ~switch /\ ~switch' /\ out = [ctrl EXCEPT !.size = ir.size]
         /\ out' = [ctrl' EXCEPT !.size = ir.size]
         /\ stored' = stored /\ stored = atIssue.stored
         /\ rf' = atIssue.rf
         /\ Start \in Int /\ Elem(0) = Start /\ DestOf = 1
         /\ Separate(ir, Last)
<1>0. /\ TypeInv /\ Datapath(answer) /\ VectorControl(answer) /\ ExecuteEngine(answer) /\ BusUnit(answer)
      /\ Active /\ AtIssue /\ Context /\ LoadingWord
  BY DEF Handshake, Cycle, Active, Data, Context
<1>1. ir.op = "lw"
  BY DEF Handshake, Requests
<1>2. ir' = ir /\ atIssue' = atIssue
  BY <1>0, ExecCtrl
<1>3. v.state = "S_IDLE" /\ start = "none"
  BY DEF Handshake, EngineRuns, start
<1>4. ~switch' /\ csr_vl' = csr_vl /\ out' = [ctrl' EXCEPT !.size = ir'.size]
  BY <1>0, <1>3, EngineRests
<1>5. ~switch /\ out = [ctrl EXCEPT !.size = ir.size] /\ rf = atIssue.rf
  BY <1>0 DEF LoadingWord, out, Untouched
<1>6. slave # "wr"
  BY <1>1 DEF Handshake, EngineRuns, Pending, Data, Accesses
<1>7. stored' = stored /\ stored = atIssue.stored /\ csr_vl = Last
  BY <1>0, <1>1, <1>6 DEF BusUnit, AtIssue, Last
<1>8. ctrl \in {NoCtrl, [NoCtrl EXCEPT !.rd = TRUE], [NoCtrl EXCEPT !.mo = TRUE, !.opb = "imm"]}
  BY <1>0 DEF LoadingWord
<1>9. ~out.wb /\ ~out.vwe /\ ~out.zero
  <2>1. CASE ctrl = NoCtrl
    BY <1>5, <2>1 DEF NoCtrl
  <2>2. CASE ctrl = [NoCtrl EXCEPT !.rd = TRUE]
    BY <1>5, <2>2 DEF NoCtrl
  <2>3. CASE ctrl = [NoCtrl EXCEPT !.mo = TRUE, !.opb = "imm"]
    BY <1>5, <2>3 DEF NoCtrl
  <2>. QED BY <1>8, <2>1, <2>2, <2>3
<1>10. rf' = atIssue.rf
  BY <1>0, <1>5, <1>9 DEF Datapath, rfNext
<1>11. Start \in Int
  BY <1>0, StartInt
<1>12. Elem(0) = Start
  <2>1. IsWord(atIssue.rf[ir.rd])
    BY <1>0, ContextFacts
  <2>2. Stride(ir, atIssue.rf) \in Int
    BY <1>1, <2>1, NumType DEF Stride
  <2>3. 0 * Stride(ir, atIssue.rf) = 0 /\ 0 * Width(ir) = 0
    BY <2>2 DEF Width
  <2>. QED BY <1>1, <1>11, <2>3 DEF Elem, ElemAddr, Start
<1>13. DestOf = 1 /\ Separate(ir, Last)
  BY <1>0, <1>1, ContextFacts DEF DestOf, DestCount
<1>. QED BY <1>0, <1>1, <1>2, <1>4, <1>5, <1>7, <1>10, <1>11, <1>12, <1>13

(* The data of an instruction in the middle of a scalar load.               *)
LEMMA WordData ==
  ASSUME Handshake, Data, ProgramProper, ex \in {"MEM_REQ", "MEM_WAIT"}, ex' = "MEM_WAIT",
         NEW answer \in Answers, NEW irq \in BOOLEAN, Cycle(answer, irq), LoadingWord'
  PROVE  Data' /\ IsaStep
<1>1. IsList(stored') /\ IsFile(rf') /\ Accesses'
  BY BusData, FileKept DEF Data, Cycle
<1>2. Active /\ AtIssue /\ ir' = ir /\ atIssue' = atIssue /\ csr_vl' = csr_vl /\ stored' = stored
  BY WordLoadFacts
<1>3. AtIssue' /\ Active'
  BY <1>2, AtIssueKept DEF Active
<1>4. IsaStep
  BY <1>2, <1>3, IsaHeld
<1>. QED BY <1>1, <1>3, <1>4 DEF Data

(* MEM_REQ: the address is on the bus.                                      *)
LEMMA WordReqStep ==
  ASSUME Handshake, Data, ProgramProper, ex = "MEM_REQ",
         NEW answer \in Answers, NEW irq \in BOOLEAN, Cycle(answer, irq)
  PROVE  Data' /\ IsaStep
<1>0. /\ TypeInv /\ LoadingWord /\ ir.op = "lw" /\ rf' = atIssue.rf /\ ~switch' /\ atIssue' = atIssue
      /\ out = [ctrl EXCEPT !.size = ir.size] /\ ir' = ir
      /\ Start \in Int /\ Context
  BY WordLoadFacts
<1>1. ctrl' = [NoCtrl EXCEPT !.rd = TRUE] /\ ex' = "MEM_WAIT"
  BY <1>0, ExecCtrl, ExecStep DEF Cycle
<1>2. out.mo /\ out.mem = "no" /\ out.opa = "rs1" /\ out.opb = "imm" /\ out.size = ir.size
  BY <1>0 DEF LoadingWord, NoCtrl
<1>3. add_o = Add(dp.rs1, Scalar(0)) /\ dp.rs1 = atIssue.rf[ir.rs1]
  BY <1>0, <1>2 DEF add_o, opa, opb, LoadingWord
<1>4. IsWord(atIssue.rf[ir.rs1])
  BY <1>0, ContextFacts
<1>5. addr = Start
  <2>1. ASSUME NEW w, IsWord(w) PROVE Num(Add(w, Scalar(0))) = Num(w)
    <3>1. CASE w[1] = "int"
      BY <2>1, <3>1 DEF IsWord, Num, Add, Scalar
    <3>2. CASE w[1] # "int"
      BY <3>2 DEF Num, Add, Scalar, Zero
    <3>. QED BY <3>1, <3>2
  <2>. QED BY <1>3, <1>4, <2>1 DEF addr, Start, Base
<1>6. bus'.mar = Start /\ bus'.mis = Misaligned(Start, ir.size)
  <2>1. bus'.mar = addr /\ bus'.mis = (out.mem # "unit" /\ Misaligned(addr, out.size))
    BY <1>2 DEF Cycle, BusUnit
  <2>2. (out.mem # "unit" /\ Misaligned(addr, out.size)) = Misaligned(addr, out.size)
    BY <1>2 DEF Misaligned
  <2>. QED BY <1>2, <1>5, <2>1, <2>2
<1>7. Start' = Start /\ Misaligned(Start, ir.size)' = Misaligned(Start, ir.size)
  BY <1>0 DEF Start, Misaligned
<1>8. LoadingWord'
  BY <1>0, <1>1, <1>6, <1>7 DEF LoadingWord, Untouched
<1>. QED BY <1>1, <1>8, WordData

(* MEM_WAIT: the answer, or an exception for it, ends the instruction.      *)
LEMMA WordWaitStep ==
  ASSUME NoInstr \notin Instrs, ir \in Instrs,
         Handshake, Data, ProgramProper, ex = "MEM_WAIT",
         NEW answer \in Answers, NEW irq \in BOOLEAN, Cycle(answer, irq)
  PROVE  Data' /\ IsaStep
<1>0. /\ TypeInv /\ LoadingWord /\ ir.op = "lw" /\ rf' = atIssue.rf /\ ~switch' /\ atIssue' = atIssue
      /\ out = [ctrl EXCEPT !.size = ir.size] /\ out' = [ctrl' EXCEPT !.size = ir.size] /\ ir' = ir
      /\ Start \in Int /\ Elem(0) = Start /\ DestOf = 1 /\ Context /\ Separate(ir, Last)
      /\ csr_vl' = Last /\ stored' = atIssue.stored /\ atIssue.rf[0] = Zero
  BY WordLoadFacts DEF AtIssue
<1>1. /\ ex' = IF exc # {} \/ answer = "ack" THEN "DISPATCH" ELSE "MEM_WAIT"
      /\ ctrl' = IF exc = {} /\ answer = "ack" THEN [NoCtrl EXCEPT !.wb = TRUE, !.mux = "mem"] ELSE NoCtrl
  BY <1>0, ExecCtrl, ExecStep DEF Cycle
<1>2. bus.mar = Start /\ bus.mis = Misaligned(Start, ir.size)
  BY <1>0 DEF LoadingWord
<1>3. CASE ex' = "MEM_WAIT"
  <2>1. ctrl' = NoCtrl
    BY <1>1, <1>3
  <2>2. ~out.mo
    BY <1>0 DEF LoadingWord, NoCtrl
  <2>3. bus'.mar = bus.mar /\ bus'.mis = bus.mis
    BY <2>2 DEF Cycle, BusUnit
  <2>4. Start' = Start /\ Misaligned(Start, ir.size)' = Misaligned(Start, ir.size)
    BY <1>0 DEF Start, Misaligned
  <2>5. LoadingWord'
    BY <1>0, <1>2, <1>3, <2>1, <2>3, <2>4 DEF LoadingWord, Untouched
  <2>. QED BY <1>3, <2>5, WordData
<1>4. CASE exc # {}
  <2>1. ex' = "DISPATCH" /\ ctrl' = NoCtrl /\ ~Active'
    BY <1>1, <1>4 DEF Active
  <2>2. Faulty(Elem(0)) \/ (ir.op = "lw" /\ Elem(0) % Width(ir) # 0)
    BY <1>0, <1>2, <1>4, ContextFacts DEF Data, Accesses, Misaligned, Width
  <2>3. rfNext' = atIssue.rf
    <3>1. ~out'.wb /\ ~out'.vwe /\ ~out'.zero
      BY <1>0, <2>1 DEF NoCtrl
    <3>. QED BY <1>0, <3>1 DEF rfNext
  <2>4. PICK g \in Counter : g = 0
    BY DEF Counter
  <2>5. DoneOf(rfNext', g)
    BY <1>0, <2>3, <2>4, DoneStart
  <2>6. /\ \A m \in 0 .. DestOf - 1 : m < g <=> IF ir.size = "8" THEN 4 * m + 3 < g ELSE m < g
        /\ \A j \in 0 .. g - 1 : ~Faulty(Elem(j))
        /\ g < IF ir.op = "lw" THEN 1 ELSE Last
    BY <1>0, <2>4
  <2>7. Faulty(Elem(g)) \/ (ir.op = "lw" /\ Elem(g) % Width(ir) # 0)
    BY <2>2, <2>4
  <2>8. stored' = IF ir.op = "vstore" THEN atIssue.stored \o StoresTo(ir, atIssue.rf, g)
                  ELSE atIssue.stored
    BY <1>0
  <2>9. IsaStep
    BY <1>0, <2>1, <2>5, <2>6, <2>7, <2>8, IsaAbort
  <2>. QED BY <1>0, <2>1, <2>3, <2>9, DataAtRest
<1>5. CASE exc = {} /\ answer = "ack"
  <2>1. ex' = "DISPATCH" /\ ctrl' = [NoCtrl EXCEPT !.wb = TRUE, !.mux = "mem"] /\ ~Active'
    BY <1>1, <1>5 DEF Active
  <2>2. out'.wb /\ out'.mux = "mem" /\ ~out'.zero /\ out'.mem = "no"
    BY <1>0, <2>1 DEF NoCtrl
  <2>3. dp'.rdata = Bytes(WordBytes(Start))
    BY <1>2, <1>5 DEF Cycle, Datapath
  <2>4. memData' = Bytes(WordBytes(Start)) /\ wdata' = memData'
    BY <2>2, <2>3 DEF memData, wdata
  <2>5. 0 \in 0 .. DestOf - 1 /\ Reg(ir.rd, 0) = ir.rd /\ ir.rd # 0
    BY <1>0, ContextFacts, RegZero, Destination
  <2>6. rfNext' = [atIssue.rf EXCEPT ![Reg(ir.rd, 0)] = Bytes(WordBytes(Start))]
    BY <1>0, <2>2, <2>4, <2>5 DEF rfNext, opaAddr, rdA
  <2>7. Wanted(ir, atIssue.rf, Last, Bytes(WordBytes(Start)), 0)
    BY <1>0 DEF Wanted, Start
  <2>8. DoneOf(rfNext', DestOf)
    <3>1. DoneOf(atIssue.rf, 0)
      BY <1>0, DoneStart
    <3>2. DoneOf(rfNext', 0 + 1)
      BY <1>0, <2>5, <2>6, <2>7, <3>1, Written
    <3>. QED BY <1>0, <3>2
  <2>9. IsaStep
    BY <1>0, <2>1, <2>8, IsaComplete
  <2>10. rfNext'[0] = Zero
    BY <1>0, <2>8, DoneZero DEF DoneOf, Last
  <2>. QED BY <2>1, <2>9, <2>10, DataAtRest
<1>. QED BY <1>1, <1>3, <1>4, <1>5

-----------------------------------------------------------------------------
(* A step that changes nothing                                              *)

(* A step that changes no variable changes none of the operators of the     *)
(* invariant.                                                               *)
LEMMA StillOperators ==
  ASSUME UNCHANGED vars
  PROVE  /\ out' = out /\ add_o' = add_o /\ rfNext' = rfNext /\ Kept' = Kept
         /\ Active' = Active /\ Last' = Last /\ Start' = Start /\ DestOf' = DestOf /\ Offset' = Offset
         /\ \A f, k : DoneOf(f, k)' <=> DoneOf(f', k)
         /\ \A k : Stored(k)' <=> Stored(k)
         /\ \A k : Elem(k)' = Elem(k)
         /\ \A r, k : Src(r, k)' = Src(r, k)
         /\ \A k : Count1(k)' = Count1(k) /\ Full(k)' = Full(k) /\ Group(k)' = Group(k)
         /\ \A m, len : Run(m, len)' = Run(m, len)
         /\ \A mem, size : MemWord(mem, size)' <=> MemWord(mem, size)
<1>1. /\ ex' = ex /\ ir' = ir /\ ctrl' = ctrl /\ v' = v /\ ctrl_vector' = ctrl_vector /\ switch' = switch
      /\ bus' = bus /\ rf' = rf /\ dp' = dp /\ stored' = stored /\ atIssue' = atIssue
  BY DEF vars, execVars, trapVars, vectorVars, busVars, dataVars
<1>2. out' = out /\ rdA' = rdA /\ rs1A' = rs1A
  BY <1>1 DEF out, rdA, rs1A
<1>3. add_o' = add_o
  BY <1>1, <1>2 DEF add_o, opa, opb, cp_res
<1>4. rfNext' = rfNext
  BY <1>1, <1>2, <1>3 DEF rfNext, opaAddr, wdata, memData, aluRes, cp_res
<1>5. Kept' = Kept
  BY <1>1, <1>2, <1>3 DEF Kept, LoadReg, Collect, addr
<1>6. Active' = Active /\ Last' = Last /\ Start' = Start /\ DestOf' = DestOf /\ Offset' = Offset
  BY <1>1 DEF Active, Last, Start, DestOf, Offset
<1>7. /\ \A k : Stored(k)' <=> Stored(k)
      /\ \A k : Elem(k)' = Elem(k)
      /\ \A r, k : Src(r, k)' = Src(r, k)
  BY <1>1 DEF Stored, Elem, Src
<1>8. /\ \A k : Count1(k)' = Count1(k) /\ Full(k)' = Full(k) /\ Group(k)' = Group(k)
      /\ \A m, len : Run(m, len)' = Run(m, len)
  BY <1>1, <1>6 DEF Count1, Full, Group, Run
<1>9. \A f, k : DoneOf(f, k)' <=> DoneOf(f', k)
  BY <1>1 DEF DoneOf
<1>10. \A mem, size : MemWord(mem, size)' <=> MemWord(mem, size)
  BY <1>1 DEF MemWord
<1>. QED BY <1>2, <1>3, <1>4, <1>5, <1>6, <1>7, <1>8, <1>9, <1>10

(* Nor the state of an operation.                                           *)
LEMMA StillWorking == ASSUME UNCHANGED vars PROVE Working' <=> Working
<1>1. /\ ex' = ex /\ ir' = ir /\ ctrl' = ctrl /\ v' = v /\ ctrl_vector' = ctrl_vector /\ switch' = switch
      /\ bus' = bus /\ rf' = rf /\ dp' = dp /\ stored' = stored /\ atIssue' = atIssue /\ csr_vl' = csr_vl
  BY DEF vars, execVars, trapVars, vectorVars, busVars, dataVars
<1>2. Adding' <=> Adding
  BY <1>1, StillOperators DEF Adding, AddingAt
<1>3. Multiplying' <=> Multiplying
  <2>1. \A c : MultiplyingAt(c)' <=> MultiplyingAt(c)
    BY <1>1 DEF MultiplyingAt, Last, Src, DoneOf, Untouched
  <2>. QED BY <2>1, StillOperators DEF Multiplying
<1>4. Accumulating' <=> Accumulating
  <2>1. \A c : AccumulatingAt(c)' <=> AccumulatingAt(c)
    BY <1>1 DEF AccumulatingAt, Last, Src, DoneOf, Untouched
  <2>. QED BY <2>1, StillOperators DEF Accumulating
<1>5. Setting' <=> Setting
  BY <1>1 DEF Setting, Untouched
<1>6. \A k : UnitAccess(k)' <=> UnitAccess(k)
  BY <1>1, StillOperators DEF UnitAccess
<1>7. \A k : StridedAccess(k)' <=> StridedAccess(k)
  BY <1>1, StillOperators DEF StridedAccess
<1>8. StoringUnit' <=> StoringUnit
  BY <1>1, <1>6, StillOperators DEF StoringUnit, StoringUnitAt, Untouched
<1>9. StoringStrided' <=> StoringStrided
  BY <1>1, <1>7, StillOperators DEF StoringStrided, StoringStridedAt, Untouched
<1>10. LoadingUnit' <=> LoadingUnit
  BY <1>1, <1>6, StillOperators DEF LoadingUnit, LoadingUnitAt, LoadingLast
<1>11. LoadingStrided' <=> LoadingStrided
  <2>1. \A k : LoadingStridedAt(k)' <=> LoadingStridedAt(k)
    <3>1. ASSUME NEW k PROVE LoadingStridedAt(k)' <=> LoadingStridedAt(k)
      <4>1. DoneOf(rfNext, Group(k))' <=> DoneOf(rfNext, Group(k))
        BY StillOperators
      <4>2. Points(add_o, Elem(k))' <=> Points(add_o, Elem(k))
        BY StillOperators DEF Points
      <4>3. \A j : Group(j)' = Group(j) /\ Elem(j)' = Elem(j)
        BY StillOperators
      <4>. QED BY <1>1, <1>7, <4>1, <4>2, <4>3, StillOperators DEF LoadingStridedAt
    <3>. QED BY <3>1
  <2>. QED BY <1>1, <2>1, StillOperators DEF LoadingStrided
<1>. QED BY <1>1, <1>2, <1>3, <1>4, <1>5, <1>8, <1>9, <1>10, <1>11 DEF Working

(* Nor the data.                                                            *)
LEMMA StillData == ASSUME UNCHANGED vars, Data PROVE Data'
<1>1. /\ ex' = ex /\ ir' = ir /\ ctrl' = ctrl /\ v' = v /\ ctrl_vector' = ctrl_vector /\ switch' = switch
      /\ bus' = bus /\ rf' = rf /\ dp' = dp /\ stored' = stored /\ atIssue' = atIssue /\ csr_vl' = csr_vl
      /\ slave' = slave /\ exc' = exc /\ ir_last' = ir_last
  BY DEF vars, execVars, trapVars, vectorVars, busVars, dataVars
<1>2. IsList(stored)' <=> IsList(stored)
  BY <1>1 DEF IsList
<1>3. IsFile(rf)' <=> IsFile(rf)
  BY <1>1 DEF IsFile
<1>4. AtIssue' <=> AtIssue
  BY <1>1 DEF AtIssue, IsList
<1>5. LoadingWord' <=> LoadingWord
  BY <1>1, StillOperators DEF LoadingWord, Untouched
<1>6. Untouched' <=> Untouched
  BY <1>1 DEF Untouched
<1>7. Accesses' <=> Accesses
  BY <1>1 DEF Accesses
<1>. QED BY <1>1, <1>2, <1>3, <1>4, <1>5, <1>6, <1>7, StillOperators, StillWorking DEF Data

-----------------------------------------------------------------------------
(* After the hand-over was lost                                             *)

(* The registers and the memory no longer change, and an instruction that   *)
(* is issued never ends.                                                    *)
LEMMA IdlingStep ==
  ASSUME TypeInv, Stuck, Idling, NEW answer \in Answers, NEW irq \in BOOLEAN, Cycle(answer, irq)
  PROVE  Idling' /\ IsaStep
<1>0. /\ Datapath(answer) /\ VectorControl(answer) /\ ExecuteEngine(answer) /\ BusUnit(answer)
      /\ switch /\ ~finished /\ v.state = "S_MEM_WAIT_STRIDED" /\ slave = "idle"
  BY DEF Cycle, Stuck
<1>1. answer = "none" /\ stored' = stored
  BY <1>0 DEF Cycle, MayAnswer, BusUnit
<1>2. MemWaitStrided(answer)
  BY <1>0 DEF VectorControl, Idle, VectorCsr, VMul, VAlu, VMac, MemAddr, MemReqUnit,
     MemLastStore, MemWaitUnit, MemAddrStrided, MemReqStrided
<1>3. ctrl_vector' = [StridedAcc EXCEPT !.mux = "mem"] /\ switch' /\ csr_vl' = csr_vl
  BY <1>1, <1>2 DEF MemWaitStrided, NextCtrl, Hold
<1>4. ~ctrl_vector'.wb /\ ~ctrl_vector'.vwe /\ ~ctrl_vector'.zero
  BY <1>3 DEF StridedAcc, Strided, NoCtrl
<1>5. rfNext = rf /\ rf' = rf /\ rfNext' = rf'
  BY <1>0, <1>3, <1>4 DEF Idling, Datapath, rfNext, out
<1>6. CASE Active
  <2>1. exc = {}
    BY <1>6 DEF Stuck, Active, TrapStates
  <2>2. ~AccessError
    BY <2>1 DEF AccessError
  <2>3. Active'
    BY <1>0, <1>1, <1>6, <2>1, <2>2, ExecStep DEF Active
  <2>4. ir' = ir /\ atIssue' = atIssue
    BY <1>0, <1>6, ExecCtrl DEF Active
  <2>5. IsaStep
    BY <1>6, <2>3, <2>4, IsaHeld
  <2>. QED BY <1>1, <1>3, <1>4, <1>5, <1>6, <2>4, <2>5 DEF Idling, Untouched
<1>7. CASE ~Active /\ ~Active'
  <2>1. IsaStep
    BY <1>1, <1>3, <1>5, <1>7, IsaStutter DEF IsaRegs, IsaVl, IsaMem, IsaCur
  <2>. QED BY <1>4, <1>7, <2>1 DEF Idling
<1>8. CASE ~Active /\ Active'
  <2>1. ex = "DISPATCH"
    BY <1>0, <1>8, ExecStep DEF Active, TypeInv, TypeOK, ControlTypeOK, ExecStates
  <2>2. Dispatch
    BY <1>0, <1>8, <2>1, ExecCtrl DEF Active
  <2>3. ir' \in Instrs /\ atIssue' = [rf |-> rf', vl |-> csr_vl, stored |-> stored']
    BY <2>2 DEF Dispatch
  <2>4. atIssue'.rf = rf' /\ atIssue'.vl = csr_vl /\ atIssue'.stored = stored'
    BY <2>3
  <2>5. IsaStep
    BY <1>1, <1>5, <1>8, <2>3, <2>4, IsaIssue
  <2>. QED BY <1>1, <1>3, <1>4, <2>4, <2>5 DEF Idling, Untouched
<1>. QED BY <1>6, <1>7, <1>8

-----------------------------------------------------------------------------
(* The whole engine                                                         *)

(* The invariant holds after reset, and the program sees the initial state  *)
(* of the abstract specification.                                           *)
LEMMA FaithfulStart ==
  ASSUME NoInstr \notin Instrs, InitRegs[0] = Zero, Init PROVE Faithful /\ ISA!Init
<1>1. Handshake /\ TypeInv
  BY InitHandshake DEF Handshake
<1>2. ~Active /\ ~switch /\ ctrl = NoCtrl /\ rf = InitRegs /\ stored = <<>> /\ ex = "BRANCHED"
      /\ csr_vl \in VLs
  BY DEF Init, Active
<1>3. rfNext = rf
  BY <1>2 DEF rfNext, out, NoCtrl
<1>4. IsList(stored)
  BY <1>2 DEF IsList
<1>5. IsFile(rf)
  BY <1>2, InitRegsAssumption DEF IsFile
<1>6. Data
  BY <1>2, <1>3, <1>4, <1>5 DEF Data, Accesses, Init
<1>7. ISA!Init
  BY <1>2, <1>3 DEF ISA!Init
<1>. QED BY <1>1, <1>2, <1>6, <1>7 DEF Faithful

(* The step of the induction: one lemma above for each thing that can       *)
(* happen to an instruction.                                                *)
LEMMA FaithfulStep ==
  ASSUME NoInstr \notin Instrs, ProgramProper, Faithful, [Next]_vars
  PROVE  Faithful' /\ IsaStep
<1>1. TypeInv'
  BY StepType DEF Faithful
<1>2. CASE UNCHANGED vars
  <2>1. IsaStep
    BY <1>2, StillOperators, IsaStutter DEF IsaRegs, IsaVl, IsaMem, IsaCur, vars, execVars, vectorVars,
       busVars
  <2>2. Active' => ir' \in Instrs
    BY <1>2 DEF Faithful, Active, vars, execVars
  <2>3. CASE Handshake /\ Data
    <3>1. Handshake'
      <4>1. EngineRuns' /\ Requests' /\ Pending'
        BY <1>2, <2>3 DEF Handshake, EngineRuns, Requests, Pending, vars, execVars, trapVars, vectorVars,
           busVars, dataVars
      <4>. QED BY <1>1, <4>1 DEF Handshake
    <3>. QED BY <1>1, <1>2, <2>1, <2>2, <2>3, <3>1, StillData DEF Faithful
  <2>4. CASE Stuck /\ Idling
    <3>1. Stuck'
      BY <1>2, <2>4, StuckStep DEF Faithful
    <3>2. Idling'
      BY <1>2, <2>4 DEF Idling, Untouched, Active, vars, execVars, vectorVars, busVars, dataVars
    <3>. QED BY <1>1, <2>1, <2>2, <3>1, <3>2 DEF Faithful
  <2>. QED BY <2>3, <2>4 DEF Faithful
<1>3. CASE Next
  <2>1. PICK answer \in Answers, irq \in BOOLEAN : Cycle(answer, irq)
    BY <1>3 DEF Next
  <2>2. Active' => ir' \in Instrs
    <3>. SUFFICES ASSUME Active' PROVE ir' \in Instrs
      OBVIOUS
    <3>1. CASE ex = "DISPATCH"
      <4>1. Dispatch
        BY <2>1, <3>1, ExecCtrl DEF Cycle, Faithful, Active
      <4>. QED BY <4>1 DEF Dispatch
    <3>2. CASE ex # "DISPATCH"
      <4>1. Active
        BY <2>1, <3>2, ExecStep DEF Cycle, Faithful, Active, TypeInv, TypeOK, ControlTypeOK, ExecStates
      <4>. QED BY <2>1, <3>2, <4>1, ExecCtrl DEF Cycle, Faithful
    <3>. QED BY <3>1, <3>2
  <2>3. CASE Stuck /\ Idling
    <3>1. Stuck' /\ Idling' /\ IsaStep
      BY <2>1, <2>3, StuckStep, IdlingStep DEF Faithful
    <3>. QED BY <1>1, <2>2, <3>1 DEF Faithful
  <2>4. CASE Handshake /\ Data /\ ~NoStridedFault
    <3>1. ex = "VECTOR_WAIT"
      BY <2>4 DEF NoStridedFault, Handshake, EngineRuns
    <3>2. Stuck' /\ Idling' /\ IsaStep
      BY <2>1, <2>4, <3>1, AbortStridedStep DEF Faithful, Active
    <3>. QED BY <1>1, <2>2, <3>2 DEF Faithful
  <2>5. CASE Handshake /\ Data /\ NoStridedFault
    <3>1. Handshake'
      BY <2>5, StepHandshake
    <3>2. Data' /\ IsaStep
      <4>1. CASE ~Active
        BY <1>1, <2>1, <2>5, <4>1, RestStep
      <4>2. CASE ex = "EXECUTE"
        BY <2>1, <2>5, <4>2, ExecuteStep
      <4>3. CASE ex = "MEM_REQ"
        BY <2>1, <2>5, <4>3, WordReqStep
      <4>4. CASE ex = "MEM_WAIT"
        BY <2>1, <2>5, <4>4, WordWaitStep DEF Faithful, Active
      <4>5. CASE ex = "VECTOR_WAIT"
        <5>1. CASE AccessError
          BY <2>1, <2>5, <4>5, <5>1, AbortUnitStep DEF Faithful, Active
        <5>2. CASE ~AccessError /\ finished
          BY <1>1, <2>1, <2>5, <4>5, <5>2, FinishedStep DEF Faithful, Active
        <5>3. CASE ~AccessError /\ ~finished
          BY <2>1, <2>5, <4>5, <5>3, WaitingStep
        <5>. QED BY <5>1, <5>2, <5>3
      <4>. QED BY <4>1, <4>2, <4>3, <4>4, <4>5 DEF Active
    <3>. QED BY <1>1, <2>2, <3>1, <3>2 DEF Faithful
  <2>. QED BY <2>3, <2>4, <2>5 DEF Faithful
<1>. QED BY <1>2, <1>3

(* The two engines, the bus and the memory, clock by clock, implement the   *)
(* vector instructions as the program sees them, for every number of        *)
(* registers, instruction set, register contents, memory map, timing of the *)
(* bus and of the interrupts. In every behaviour in which the program keeps *)
(* to the rules of Proper, every instruction either completes, with exactly *)
(* the registers, stores and vector length that VectorIsa promises,         *)
(* computed from what its sources held when it was issued, although the     *)
(* engine overlaps the read of one element, the computation of another and  *)
(* the write of a third; or it is cut off by a bus error, with every        *)
(* element before the faulty one done and none from it on.                  *)
THEOREM IsaCorrect ==
  ASSUME NoInstr \notin Instrs, InitRegs[0] = Zero
  PROVE  Spec /\ []ProgramProper => ImplementsIsa
<1>1. Init => Faithful /\ ISA!Init
  BY FaithfulStart
<1>2. Faithful /\ ProgramProper /\ [Next]_vars => Faithful' /\ [ISA!Next]_(ISA!isaVars)
  BY FaithfulStep DEF IsaStep
<1>. QED BY <1>1, <1>2, PTL DEF Spec, ImplementsIsa, ISA!Spec

=============================================================================
