--------------------------- MODULE InstrFrontEnd ---------------------------
(***************************************************************************)
(* The front end of the CPU (neorv32_cpu_control.vhd): the fetch engine     *)
(* reads 32-bit words ahead of the program and puts their half-words into   *)
(* two prefetch buffers, the issue engine takes 16- or 32-bit instructions  *)
(* out of them, and the execute engine tells both, through fetch_engine.    *)
(* reset, to start again at another pc.  Of the execute engine there is     *)
(* everything that touches the pc or the front end.                         *)
(*                                                                          *)
(* One step is one clock cycle.  Addresses count half-words (pc) or words   *)
(* (fetch_engine.pc); a half-word of the memory stands for itself.          *)
(***************************************************************************)
EXTENDS Integers, Sequences

CONSTANTS
  NumWords,   (* Words of the address space, which wraps.                  *)
  Depth,      (* CPU_IPB_ENTRIES                                           *)
  Configs,    (* Systems and programs: see cfg.                            *)
  FaultWords, (* Words whose read may end with a bus error.                *)
  PmpWords,   (* Words without the right to execute.                       *)
  Handler,    (* mtvec                                                     *)
  NoWord      (* Stands for "no word" or "no half-word".                   *)

Words == 0 .. NumWords - 1
Halves == 0 .. 2 * NumWords - 1

(* The assertions of neorv32_cpu.vhd, lines 207 and 208. *)
ASSUME DepthAssumption == Depth \in Nat /\ Depth >= 2
ASSUME WordsAssumption == NumWords \in Nat /\ NumWords >= 1 /\ NoWord \notin Halves
(* "No word" is no instruction either. *)
ASSUME NothingAssumption == NoWord \notin [adr : Halves, hi : Halves \union {NoWord}]
ASSUME HandlerAssumption == Handler \in Halves /\ Handler % 2 = 0
(* c: CPU_EXTENSION_RISCV_C; pmp: PmpWords is in force; slow: a read may    *)
(* take longer than a cycle; long: half-words that begin a 32-bit           *)
(* instruction; targets: of the program's jumps.                            *)
ASSUME ConfigAssumption ==
  Configs \subseteq [c : BOOLEAN, pmp : BOOLEAN, slow : BOOLEAN,
                     long : SUBSET Halves, targets : SUBSET Halves]

VARIABLES
  cfg,        (* the system and the program                                *)
  fetch,      (* fetch_engine: state, restart, unaligned, pc, pmp_err      *)
  ipb,        (* the prefetch buffers of low and high half-words           *)
  align,      (* issue_engine.align                                        *)
  ex,         (* execute_engine: state, pc, next_pc, branched, i_reg       *)
  exc,        (* instr_be and instr_ma of the last dispatch                *)
  open        (* the word that is being read (history)                     *)

vars == <<cfg, fetch, ipb, align, ex, exc, open>>

Fetch == {"S_RESTART", "S_REQUEST", "S_PENDING", "S_WAIT"}
ExStates == {"DISPATCH", "TRAP_ENTER", "TRAP_START", "TRAP_EXIT", "TRAP_EXECUTE", "EXECUTE",
             "SYSTEM", "WORK", "BRANCH", "BRANCHED"}

(* alu: everything that ends in DISPATCH, at once or after WORK, which is   *)
(* ALU_WAIT, MEM_REQ, MEM_WAIT and VECTOR_WAIT.                             *)
Kinds == {"alu", "branch", "fence", "system"}
Entries == [adr : Halves \union {NoWord}, long : BOOLEAN, be : BOOLEAN, ma : BOOLEAN]
Instructions == [adr : Halves \union {NoWord}, hi : Halves \union {NoWord}, ci : BOOLEAN,
                 kind : Kinds]
-----------------------------------------------------------------------------
(* Fetch engine.  ans is the answer of the bus in this cycle.               *)

Odd(h) == h % 2 = 1
a_err == fetch.unaligned /\ ~cfg.c
(* Mutant: a restart does not wait for the answer that is under way.        *)
resp_Restart(ans) == ans.ack \/ ans.err \/ fetch.pmp_err \/ a_err \/ fetch.restart
resp(ans) == ans.ack \/ ans.err \/ fetch.pmp_err \/ a_err
half == \E i \in {0, 1} : Len(ipb[i]) >= Depth \div 2
(* Mutant: both buffers have to be nearly empty.                            *)
free_NotHalf == ~half
free == \A i \in {0, 1} : Len(ipb[i]) < Depth

(* An instruction of the branch class in the instruction register: wait.   *)
Predicted == ex.ir.kind = "branch"

AfterFetch == IF half \/ Predicted THEN "S_WAIT" ELSE "S_REQUEST"

FetchEngine(ans, reset) ==
  LET again == fetch.restart \/ reset
      keep == [fetch EXCEPT !.restart = again]
  IN  fetch' =
        CASE fetch.state = "S_RESTART" ->
               [fetch EXCEPT !.restart = FALSE, !.state = "S_REQUEST",
                             !.pc = ex.pc \div 2, !.unaligned = Odd(ex.pc)]
          [] fetch.state = "S_REQUEST" ->
               [keep EXCEPT !.state = "S_PENDING", !.pmp_err = cfg.pmp /\ fetch.pc \in PmpWords]
          [] fetch.state = "S_PENDING" ->
               IF ~resp(ans) THEN keep
               ELSE [keep EXCEPT !.pc = (@ + 1) % NumWords, !.unaligned = FALSE, !.pmp_err = FALSE,
                                 !.state = IF again THEN "S_RESTART" ELSE AfterFetch]
          [] fetch.state = "S_WAIT" ->
               [keep EXCEPT !.state = IF again THEN "S_RESTART"
                                      ELSE IF free THEN "S_REQUEST" ELSE @]

(* The half-words on the write ports.  Without an acknowledge the data      *)
(* lines carry anything, what looks like a compressed instruction or not.   *)
wdata(i, ans, long) ==
  [adr |-> IF ans.ack THEN 2 * ans.word + i ELSE NoWord,
   long |-> IF ans.ack THEN 2 * ans.word + i \in cfg.long ELSE long,
   be |-> ans.err \/ fetch.pmp_err, ma |-> a_err]

(* Mutant: the half-word before an unaligned target is stored as well.      *)
we_Both(i, ans) == fetch.state = "S_PENDING" /\ resp(ans)
we(i, ans) ==
  fetch.state = "S_PENDING" /\ resp(ans) /\ (i = 1 \/ ~fetch.unaligned \/ ~cfg.c)
-----------------------------------------------------------------------------
(* Issue engine *)

first == IF align THEN 1 ELSE 0
avail(i) == ipb[i] # <<>>
rdata(i) == Head(ipb[i])
Compressed == cfg.c /\ ~rdata(first).long

(* The buffers an instruction comes from; {} as long as it is not complete. *)
valid ==
  IF ~avail(first) THEN {}
  ELSE IF Compressed THEN {first}
  ELSE IF avail(1 - first) THEN {0, 1} ELSE {}

data(kind) ==
  [adr |-> rdata(first).adr,
   hi |-> IF Compressed THEN NoWord ELSE rdata(1 - first).adr,
   ci |-> Compressed, kind |-> kind]
(* Mutant: the flags of both buffers, used or not.                          *)
data_be_Any == \E i \in {0, 1} : avail(i) /\ rdata(i).be
data_be == \E i \in valid : rdata(i).be
data_ma == \E i \in valid : rdata(i).ma

re(i) == ex.state = "DISPATCH" /\ i \in valid

(* Mutant: a restart leaves the alignment alone.                            *)
IssueEngine_NoRestart ==
  align' = IF cfg.c /\ ex.state = "DISPATCH" /\ valid = {first} THEN ~align ELSE align
IssueEngine ==
  align' = IF ~cfg.c THEN FALSE
           ELSE IF fetch.restart THEN Odd(ex.pc)
           ELSE IF ex.state = "DISPATCH" /\ valid = {first} THEN ~align
           ELSE align

(* Two FIFOs as BoundedQueue describes them. *)
NextBuffers(ans, clear) ==
  \E long \in IF ans.ack THEN {<<FALSE, FALSE>>} ELSE BOOLEAN \X BOOLEAN :
    ipb' = [i \in {0, 1} |->
      IF clear THEN <<>>
      ELSE (IF re(i) THEN Tail(ipb[i]) ELSE ipb[i])
             \o (IF we(i, ans) THEN <<wdata(i, ans, long[i + 1])>> ELSE <<>>)]
(* Mutant: they are emptied when the restart is carried out.                *)
Buffers_LateClear(ans) == NextBuffers(ans, fetch.state = "S_RESTART")
Buffers(ans) == NextBuffers(ans, fetch.restart)
-----------------------------------------------------------------------------
(* Execute engine: one action for a state, each with fetch_engine.reset.    *)

(* Mutant: the increment runs out of the address space.                     *)
NextPc_NoWrap(i, h) == h + (IF i.ci THEN 1 ELSE 2)
NextPc(i, h) == (h + (IF i.ci THEN 1 ELSE 2)) % (2 * NumWords)
Goto(s) == ex' = [ex EXCEPT !.state = s]

(* The register takes what the issue engine shows, complete or not; what is *)
(* incomplete matters for its opcode only.                                  *)
Dispatch ==
  /\ ex.state = "DISPATCH"
  /\ IF valid = {}
     THEN /\ \E kind \in {"alu", "branch"} : ex' = [ex EXCEPT !.ir.kind = kind]
          /\ UNCHANGED exc
     ELSE \E kind \in Kinds, trap \in BOOLEAN :
          /\ exc' = [be |-> data_be, ma |-> data_ma /\ ~cfg.c]
          /\ ex' = [ex EXCEPT !.ir = data(kind), !.branched = FALSE,
                              !.pc = IF ex.branched THEN @ ELSE ex.next,
                              !.state = IF trap \/ exc'.be \/ exc'.ma
                                        THEN "TRAP_ENTER" ELSE "EXECUTE"]

Execute ==
  /\ ex.state = "EXECUTE"
  /\ \E s \in CASE ex.ir.kind = "alu" -> {"DISPATCH", "WORK"}
                [] ex.ir.kind = "branch" -> {"BRANCH"}
                [] ex.ir.kind = "fence" -> {"TRAP_EXECUTE"}
                [] ex.ir.kind = "system" -> {"SYSTEM"} :
       ex' = [ex EXCEPT !.state = s, !.next = NextPc(ex.ir, ex.pc)]
  /\ UNCHANGED exc

Work ==
  /\ ex.state = "WORK"
  /\ Goto("WORK") \/ Goto("DISPATCH")
  /\ UNCHANGED exc

System ==
  /\ ex.state = "SYSTEM"
  /\ Goto("DISPATCH") \/ Goto("TRAP_EXIT")
  /\ UNCHANGED exc

(* The pc is written whether the branch is taken or not. *)
Branch(taken) ==
  /\ ex.state = "BRANCH"
  /\ \E target \in cfg.targets :
       ex' = [ex EXCEPT !.pc = target, !.state = IF taken THEN "BRANCHED" ELSE "DISPATCH"]
  /\ UNCHANGED exc

Branched ==
  /\ ex.state = "BRANCHED"
  /\ ex' = [ex EXCEPT !.branched = TRUE, !.state = "DISPATCH"]
  /\ UNCHANGED exc

(* In sleep mode, and until the trap controller has seen the exception. *)
TrapEnter ==
  /\ ex.state = "TRAP_ENTER"
  /\ Goto("TRAP_ENTER") \/ Goto("TRAP_START")
  /\ UNCHANGED exc

TrapStart ==
  /\ ex.state = "TRAP_START"
  /\ ex' = [ex EXCEPT !.next = Handler, !.state = "TRAP_EXECUTE"]
  /\ exc' = [be |-> FALSE, ma |-> FALSE]

TrapExit ==
  /\ ex.state = "TRAP_EXIT"
  /\ \E mepc \in cfg.targets : ex' = [ex EXCEPT !.next = mepc, !.state = "TRAP_EXECUTE"]
  /\ UNCHANGED exc

TrapExecute ==
  /\ ex.state = "TRAP_EXECUTE"
  /\ ex' = [ex EXCEPT !.pc = ex.next, !.state = "BRANCHED"]
  /\ UNCHANGED exc

ExecuteEngine(taken) ==
  \/ Dispatch \/ Execute \/ Work \/ System \/ Branch(taken) \/ Branched
  \/ TrapEnter \/ TrapStart \/ TrapExit \/ TrapExecute

(* fetch_engine.reset, of this cycle *)
Reset(taken) == ex.state = "TRAP_EXECUTE" \/ (ex.state = "BRANCH" /\ taken)
-----------------------------------------------------------------------------
(* One clock cycle with the answer ans. *)

Strobe == fetch.state = "S_REQUEST"

FrontEnd(ans) ==
  \E taken \in IF ex.state = "BRANCH" THEN BOOLEAN ELSE {FALSE} :
    /\ ExecuteEngine(taken)
    /\ FetchEngine(ans, Reset(taken))
    /\ Buffers(ans) /\ IssueEngine
    /\ open' = IF Strobe THEN fetch.pc ELSE IF ans.ack \/ ans.err THEN NoWord ELSE open
    /\ UNCHANGED cfg

(* The bus: one read at a time, answered in the next cycle or later. *)
NoAnswer == [ack |-> FALSE, err |-> FALSE, word |-> NoWord]
Answers ==
  IF open = NoWord THEN {NoAnswer}
  ELSE {[ack |-> TRUE, err |-> FALSE, word |-> open]}
       \union (IF open \in FaultWords THEN {[NoAnswer EXCEPT !.err = TRUE]} ELSE {})

Wait == cfg.slow /\ open # NoWord /\ FrontEnd(NoAnswer)
Clock == \E ans \in Answers : FrontEnd(ans)

Init ==
  /\ cfg \in Configs
  /\ fetch \in [state : {"S_RESTART"}, restart : {TRUE}, unaligned : {FALSE},
                pc : {0}, pmp_err : {FALSE}]
  /\ ipb = [i \in {0, 1} |-> <<>>]
  /\ align = FALSE
  /\ ex = [state |-> "BRANCHED", pc |-> 0, next |-> 0, branched |-> TRUE,
           ir |-> [adr |-> NoWord, hi |-> NoWord, ci |-> FALSE, kind |-> "alu"]]
  /\ exc = [be |-> FALSE, ma |-> FALSE]
  /\ open = NoWord

Next == Clock \/ Wait
Spec == Init /\ [][Next]_vars

(* The clock, and a bus that answers. *)
FairSpec == Spec /\ WF_vars(Next) /\ WF_vars(Clock)
-----------------------------------------------------------------------------
(* Properties *)

TypeOK ==
  /\ cfg \in Configs
  /\ fetch \in [state : Fetch, restart : BOOLEAN, unaligned : BOOLEAN, pc : Words,
                pmp_err : BOOLEAN]
  /\ ipb \in [{0, 1} -> Seq(Entries)]
  /\ align \in BOOLEAN
  /\ ex \in [state : ExStates, pc : Halves, next : Halves, branched : BOOLEAN,
             ir : Instructions]
  /\ exc \in [be : BOOLEAN, ma : BOOLEAN]
  /\ open \in Words \union {NoWord}

(* "Only a single transfer request can be on the fly at once"               *)
(* (docs/datasheet/cpu.adoc): the fetch engine asks when nothing is open,   *)
(* and whatever it waits for, somebody is going to answer.                  *)
OneFetch ==
  /\ Strobe => open = NoWord
  /\ fetch.state = "S_PENDING" => open # NoWord

(* The buffers are neither overrun nor out of step: they differ by the one  *)
(* half-word that the next instruction begins with when it is not aligned.  *)
(* While a restart is pending they are being emptied.                       *)
InStep ==
  /\ \A i \in {0, 1} : Len(ipb[i]) <= Depth
  /\ ~fetch.restart /\ cfg.c =>
       Len(ipb[1]) - Len(ipb[0]) = IF align /\ ~fetch.unaligned THEN 1 ELSE 0
  /\ ~fetch.restart /\ ~cfg.c => Len(ipb[1]) = Len(ipb[0])

(* No restart is lost: S_RESTART clears the request, so that the execute    *)
(* engine must not ask again before the fetch engine is through with it.    *)
RestartKept ==
  ex.state \in {"BRANCH", "TRAP_EXECUTE"} => ~fetch.restart /\ fetch.state # "S_RESTART"

(* A fetch fault is charged to an instruction that has it: one of its       *)
(* half-words is in a word that failed, or it is misaligned.                *)
MayFail(h) == h \div 2 \in FaultWords \/ (cfg.pmp /\ h \div 2 \in PmpWords)
FaultReal ==
  ex.state = "TRAP_ENTER" =>
    /\ exc.ma => ~cfg.c /\ Odd(ex.pc)
    /\ exc.be => \/ MayFail(ex.pc)
                 \/ (~cfg.c \/ ex.pc \in cfg.long) /\ MayFail((ex.pc + 1) % (2 * NumWords))

(* The program runs in order: every instruction that is executed is the one *)
(* of its pc, whole and of the right length, and the pc of a trap is that of *)
(* the instruction that would have been next.                               *)
Here ==
  IF ex.state = "TRAP_EXECUTE" \/ (ex.state = "DISPATCH" /\ ~ex.branched) THEN ex.next ELSE ex.pc
Running ==
  IF ex.state \in {"EXECUTE", "WORK", "SYSTEM", "BRANCH", "TRAP_EXIT"}
  THEN [adr |-> ex.ir.adr, hi |-> ex.ir.hi] ELSE NoWord
Order == INSTANCE ProgramOrder WITH
  NumHalves <- 2 * NumWords, here <- Here, running <- Running,
  prog <- [c |-> cfg.c, long |-> cfg.long, targets |-> cfg.targets,
           barred |-> IF cfg.pmp THEN {h \in Halves : h \div 2 \in PmpWords} ELSE {}]
ImplementsOrder == Order!Spec

(* The front end never dries up: an instruction arrives, or the fault that  *)
(* takes its place.                                                         *)
Supplied == ex.state = "DISPATCH" ~> ex.state # "DISPATCH"
=============================================================================
