------------------------ MODULE InstrFrontEnd_proofs ------------------------
(***************************************************************************)
(* For any depth of the prefetch buffers, any address space and any set of  *)
(* programs: types, no restart is lost, and the buffers are neither overrun *)
(* nor out of step. For programs that do not make the fetch engine answer   *)
(* itself: one fetch at a time, fetch faults are real, and the front end    *)
(* keeps the program order.                                                 *)
(*                                                                          *)
(* The argument for the order counts back from the fetch pc: entry k of a   *)
(* buffer of length l is the half-word of the word l - k + 1 before it      *)
(* (Contents), and the first one is where the execute engine is about to go *)
(* on (Following).                                                          *)
(***************************************************************************)
EXTENDS InstrFrontEnd, SequenceTheorems, TLAPS

USE DepthAssumption, WordsAssumption, HandlerAssumption, ConfigAssumption

(* What the bus may bring in a cycle. *)
Replies == [ack : BOOLEAN, err : BOOLEAN, word : Words \union {NoWord}]
Proper(ans) == ans \in Replies /\ (ans.ack => ans.word \in Words)

(* Remainders are addresses. *)
LEMMA ModWord ==
  ASSUME NEW n \in Nat \ {0}, NEW x \in Int
  PROVE  x % n \in 0 .. n - 1
OBVIOUS

LEMMA ModHalves ==
  ASSUME NEW x \in Int
  PROVE  x % (2 * NumWords) \in Halves
<1>1. 2 * NumWords \in Nat \ {0}
  OBVIOUS
<1> QED BY <1>1, ModWord DEF Halves

(* Half of a half-word address is a word address. *)
LEMMA DivWords ==
  ASSUME NEW h \in Halves
  PROVE  h \div 2 \in Words
BY DEF Halves, Words

(* The answers of the bus, and the cycles without one, are proper. *)
LEMMA AnswersProper ==
  ASSUME TypeOK
  PROVE  Proper(NoAnswer) /\ \A ans \in Answers : Proper(ans)
<1>1. Proper(NoAnswer)
  BY DEF Proper, NoAnswer, Replies
<1>2. ASSUME NEW ans \in Answers PROVE Proper(ans)
  <2>1. CASE ans = NoAnswer
    BY <2>1, <1>1
  <2>2. CASE open # NoWord /\ ans = [ack |-> TRUE, err |-> FALSE, word |-> open]
    BY <2>2 DEF Proper, Replies, TypeOK
  <2>3. CASE ans = [NoAnswer EXCEPT !.err = TRUE]
    BY <2>3 DEF Proper, Replies, NoAnswer
  <2> QED BY <2>1, <2>2, <2>3 DEF Answers
<1> QED BY <1>1, <1>2

(* Every step is a cycle of the front end with a proper answer. *)
LEMMA StepIsCycle ==
  ASSUME TypeOK, Next
  PROVE  \E ans : /\ Proper(ans) /\ FrontEnd(ans)
                  /\ ans \in Answers \/ (ans = NoAnswer /\ cfg.slow /\ open # NoWord)
BY AnswersProper DEF Next, Clock, Wait
-----------------------------------------------------------------------------
(* Types *)

LEMMA FetchType ==
  ASSUME TypeOK, NEW ans, NEW reset \in BOOLEAN, Proper(ans), FetchEngine(ans, reset)
  PROVE  fetch' \in [state : Fetch, restart : BOOLEAN, unaligned : BOOLEAN, pc : Words,
                     pmp_err : BOOLEAN]
<1> DEFINE again == fetch.restart \/ reset
           stay == [fetch EXCEPT !.restart = again]
           next == (fetch.pc + 1) % NumWords
           after == IF again THEN "S_RESTART" ELSE AfterFetch
           wait == IF again THEN "S_RESTART" ELSE IF free THEN "S_REQUEST" ELSE fetch.state
<1>1. again \in BOOLEAN /\ fetch.pc \in Words /\ fetch.state \in Fetch
  BY DEF TypeOK
<1>2. next \in Words
  <2>1. fetch.pc + 1 \in Int /\ NumWords \in Nat \ {0}
    BY <1>1 DEF Words
  <2> QED BY <2>1, ModWord DEF Words
<1>3. ex.pc \div 2 \in Words /\ Odd(ex.pc) \in BOOLEAN
  BY DivWords DEF TypeOK, Odd
<1>4. after \in Fetch /\ wait \in Fetch
  BY <1>1 DEF AfterFetch, Fetch
<1>5. (cfg.pmp /\ fetch.pc \in PmpWords) \in BOOLEAN
  BY DEF TypeOK
<1>6. CASE fetch.state = "S_RESTART"
  BY <1>6, <1>3 DEF FetchEngine, TypeOK, Fetch
<1>7. CASE fetch.state = "S_REQUEST"
  BY <1>7, <1>1, <1>5 DEF FetchEngine, TypeOK, Fetch
<1>8. CASE fetch.state = "S_PENDING"
  <2>1. CASE ~resp(ans)
    BY <1>8, <2>1, <1>1 DEF FetchEngine, TypeOK
  <2>2. CASE resp(ans)
    <3>1. fetch' = [stay EXCEPT !.pc = next, !.unaligned = FALSE, !.pmp_err = FALSE,
                                !.state = after]
      BY <1>8, <2>2 DEF FetchEngine
    <3> HIDE DEF next, after, again
    <3> QED BY <3>1, <1>1, <1>2, <1>4 DEF TypeOK
  <2> QED BY <2>1, <2>2
<1>9. CASE fetch.state = "S_WAIT"
  <2>1. fetch' = [stay EXCEPT !.state = wait]
    BY <1>9 DEF FetchEngine
  <2> HIDE DEF wait, again
  <2> QED BY <2>1, <1>1, <1>4 DEF TypeOK
<1> QED BY <1>1, <1>6, <1>7, <1>8, <1>9 DEF Fetch

LEMMA EntryType ==
  ASSUME TypeOK, NEW ans, Proper(ans), NEW i \in {0, 1}, NEW long \in BOOLEAN
  PROVE  wdata(i, ans, long) \in Entries
<1>1. ans.ack => 2 * ans.word + i \in Halves
  BY DEF Proper, Words, Halves
<1>2. ans.ack \in BOOLEAN /\ ans.err \in BOOLEAN /\ fetch.pmp_err \in BOOLEAN
  BY DEF Proper, Replies, TypeOK
<1>3. a_err \in BOOLEAN
  BY DEF a_err, TypeOK
<1> DEFINE adr == IF ans.ack THEN 2 * ans.word + i ELSE NoWord
           len == IF ans.ack THEN 2 * ans.word + i \in cfg.long ELSE long
           be == ans.err \/ fetch.pmp_err
<1>4. adr \in Halves \union {NoWord}
  BY <1>1
<1>5. len \in BOOLEAN
  <2>1. CASE ans.ack
    BY <2>1
  <2>2. CASE ~ans.ack
    BY <2>2
  <2> QED BY <2>1, <2>2
<1>6. be \in BOOLEAN
  BY <1>2
<1>7. wdata(i, ans, long) = [adr |-> adr, long |-> len, be |-> be, ma |-> a_err]
  BY DEF wdata
<1> HIDE DEF adr, len, be
<1> QED BY <1>3, <1>4, <1>5, <1>6, <1>7 DEF Entries

(* The two parts of a buffer's next value. *)
Left(i) == IF re(i) THEN Tail(ipb[i]) ELSE ipb[i]
Written(i, ans, long) == IF we(i, ans) THEN <<wdata(i, ans, long)>> ELSE <<>>

(* A buffer is read when it is not empty. *)
LEMMA LeftType ==
  ASSUME TypeOK, NEW i \in {0, 1}
  PROVE  /\ Left(i) \in Seq(Entries)
         /\ re(i) => ipb[i] # <<>>
         /\ Len(Left(i)) = Len(ipb[i]) - (IF re(i) THEN 1 ELSE 0)
         /\ Len(ipb[i]) \in Nat
<1>1. ipb[i] \in Seq(Entries)
  BY DEF TypeOK
<1>2. re(i) => ipb[i] # <<>>
  BY DEF re, valid, avail, first
<1>3. CASE re(i)
  BY <1>1, <1>2, <1>3, HeadTailProperties DEF Left
<1>4. CASE ~re(i)
  BY <1>1, <1>4 DEF Left
<1> QED BY <1>1, <1>2, <1>3, <1>4

(* The effect of a cycle on the two buffers. *)
LEMMA BuffersStep ==
  ASSUME TypeOK, NEW ans, Proper(ans), Buffers(ans)
  PROVE  /\ ipb' \in [{0, 1} -> Seq(Entries)]
         /\ fetch.restart => ipb'[0] = <<>> /\ ipb'[1] = <<>>
         /\ ~fetch.restart => \A i \in {0, 1} :
              Len(ipb'[i]) = Len(ipb[i]) - (IF re(i) THEN 1 ELSE 0)
                                         + (IF we(i, ans) THEN 1 ELSE 0)
<1>1. PICK long \in BOOLEAN \X BOOLEAN :
        ipb' = [i \in {0, 1} |-> IF fetch.restart THEN <<>>
                                 ELSE Left(i) \o Written(i, ans, long[i + 1])]
  <2>1. <<FALSE, FALSE>> \in BOOLEAN \X BOOLEAN
    OBVIOUS
  <2>2. PICK long \in IF ans.ack THEN {<<FALSE, FALSE>>} ELSE BOOLEAN \X BOOLEAN :
          ipb' = [i \in {0, 1} |-> IF fetch.restart THEN <<>>
                                   ELSE Left(i) \o Written(i, ans, long[i + 1])]
    BY DEF Buffers, NextBuffers, Left, Written
  <2>3. long \in BOOLEAN \X BOOLEAN
    BY <2>1
  <2> QED BY <2>2, <2>3
<1>2. CASE fetch.restart
  <2>1. ipb' = [i \in {0, 1} |-> <<>>]
    BY <1>1, <1>2
  <2>2. <<>> \in Seq(Entries)
    OBVIOUS
  <2> QED BY <2>1, <2>2, <1>2
<1>3. CASE ~fetch.restart
  <2>1. ASSUME NEW i \in {0, 1}
        PROVE  /\ ipb'[i] \in Seq(Entries)
               /\ Len(ipb'[i]) = Len(ipb[i]) - (IF re(i) THEN 1 ELSE 0)
                                             + (IF we(i, ans) THEN 1 ELSE 0)
    <3> DEFINE w == Written(i, ans, long[i + 1])
    <3>1. ipb'[i] = Left(i) \o w
      BY <1>1, <1>3
    <3>2. long[i + 1] \in BOOLEAN
      OBVIOUS
    <3>3. w \in Seq(Entries) /\ Len(w) = IF we(i, ans) THEN 1 ELSE 0
      <4>1. wdata(i, ans, long[i + 1]) \in Entries
        BY <3>2, EntryType
      <4> QED BY <4>1 DEF Written
    <3>4. Left(i) \in Seq(Entries) /\ Len(Left(i)) = Len(ipb[i]) - (IF re(i) THEN 1 ELSE 0)
      BY LeftType
    <3>5. Len(ipb[i]) \in Nat
      BY LeftType
    <3> HIDE DEF w
    <3>6. Left(i) \o w \in Seq(Entries) /\ Len(Left(i) \o w) = Len(Left(i)) + Len(w)
      BY <3>3, <3>4, ConcatProperties
    <3> QED BY <3>1, <3>3, <3>4, <3>5, <3>6
  <2>2. ipb' \in [{0, 1} -> Seq(Entries)]
    <3>1. ipb' = [i \in {0, 1} |-> ipb'[i]]
      BY <1>1
    <3> QED BY <3>1, <2>1
  <2> QED BY <2>1, <2>2, <1>3
<1> QED BY <1>2, <1>3 DEF TypeOK

LEMMA DataType ==
  ASSUME TypeOK, valid # {}, NEW kind \in Kinds
  PROVE  data(kind) \in Instructions /\ data_be \in BOOLEAN /\ data_ma \in BOOLEAN
<1>1. first \in {0, 1} /\ 1 - first \in {0, 1}
  BY DEF first
<1>2. avail(first) /\ (~Compressed => avail(1 - first))
  BY DEF valid
<1>3. rdata(first) \in Entries
  BY <1>1, <1>2, HeadTailProperties DEF avail, rdata, TypeOK
<1>4. ~Compressed => rdata(1 - first) \in Entries
  BY <1>1, <1>2, HeadTailProperties DEF avail, rdata, TypeOK
<1>5. Compressed \in BOOLEAN
  BY <1>3 DEF Compressed, TypeOK, Entries
<1> QED BY <1>3, <1>4, <1>5 DEF data, Instructions, Entries, data_be, data_ma

LEMMA ExecuteType ==
  ASSUME TypeOK, NEW taken, ExecuteEngine(taken)
  PROVE  /\ ex' \in [state : ExStates, pc : Halves, next : Halves, branched : BOOLEAN,
                     ir : Instructions]
         /\ exc' \in [be : BOOLEAN, ma : BOOLEAN]
<1> USE DEF TypeOK, ExStates
<1>1. CASE Dispatch
  <2>1. CASE valid = {}
    <3>1. PICK kind \in {"alu", "branch"} : ex' = [ex EXCEPT !.ir.kind = kind]
      BY <1>1, <2>1 DEF Dispatch
    <3>2. [ex.ir EXCEPT !.kind = kind] \in Instructions
      BY DEF Instructions, Kinds
    <3> QED BY <1>1, <2>1, <3>1, <3>2 DEF Dispatch
  <2>2. CASE valid # {}
    <3>1. PICK kind \in Kinds, trap \in BOOLEAN :
            /\ exc' = [be |-> data_be, ma |-> data_ma /\ ~cfg.c]
            /\ ex' = [ex EXCEPT !.ir = data(kind), !.branched = FALSE,
                                !.pc = IF ex.branched THEN @ ELSE ex.next,
                                !.state = IF trap \/ exc'.be \/ exc'.ma
                                          THEN "TRAP_ENTER" ELSE "EXECUTE"]
      BY <1>1, <2>2 DEF Dispatch
    <3>2. data(kind) \in Instructions /\ data_be \in BOOLEAN /\ data_ma \in BOOLEAN
      BY <2>2, DataType
    <3> DEFINE pc == IF ex.branched THEN ex.pc ELSE ex.next
               state == IF trap \/ exc'.be \/ exc'.ma THEN "TRAP_ENTER" ELSE "EXECUTE"
    <3>3. pc \in Halves /\ state \in ExStates
      OBVIOUS
    <3>4. ex' = [ex EXCEPT !.ir = data(kind), !.branched = FALSE, !.pc = pc, !.state = state]
      BY <3>1
    <3>5. exc' \in [be : BOOLEAN, ma : BOOLEAN]
      BY <3>1, <3>2
    <3> HIDE DEF pc, state
    <3> QED BY <3>2, <3>3, <3>4, <3>5
  <2> QED BY <2>1, <2>2
<1>2. CASE Execute
  <2>1. NextPc(ex.ir, ex.pc) \in Halves
    <3>1. ex.pc + (IF ex.ir.ci THEN 1 ELSE 2) \in Int
      BY DEF Halves
    <3> QED BY <3>1, ModHalves DEF NextPc
  <2>2. PICK s \in ExStates : ex' = [ex EXCEPT !.state = s, !.next = NextPc(ex.ir, ex.pc)]
    <3>1. ex.ir.kind \in Kinds
      BY DEF Instructions
    <3> QED BY <1>2, <3>1 DEF Execute, Kinds
  <2> QED BY <1>2, <2>1, <2>2 DEF Execute
<1>3. CASE Work
  BY <1>3 DEF Work, Goto
<1>4. CASE System
  BY <1>4 DEF System, Goto
<1>5. CASE Branch(taken)
  <2>1. PICK target \in cfg.targets :
          ex' = [ex EXCEPT !.pc = target, !.state = IF taken THEN "BRANCHED" ELSE "DISPATCH"]
    BY <1>5 DEF Branch
  <2>2. target \in Halves
    OBVIOUS
  <2> QED BY <1>5, <2>1, <2>2 DEF Branch
<1>6. CASE Branched
  BY <1>6 DEF Branched
<1>7. CASE TrapEnter
  BY <1>7 DEF TrapEnter, Goto
<1>8. CASE TrapStart
  BY <1>8 DEF TrapStart
<1>9. CASE TrapExit
  <2>1. PICK mepc \in cfg.targets : ex' = [ex EXCEPT !.next = mepc, !.state = "TRAP_EXECUTE"]
    BY <1>9 DEF TrapExit
  <2>2. mepc \in Halves
    OBVIOUS
  <2> QED BY <1>9, <2>1, <2>2 DEF TrapExit
<1>10. CASE TrapExecute
  BY <1>10 DEF TrapExecute
<1> QED BY <1>1, <1>2, <1>3, <1>4, <1>5, <1>6, <1>7, <1>8, <1>9, <1>10 DEF ExecuteEngine

(* A cycle keeps the types. *)
LEMMA CycleType ==
  ASSUME TypeOK, NEW ans, Proper(ans), FrontEnd(ans)
  PROVE  TypeOK'
<1>1. PICK taken \in BOOLEAN :
        /\ ExecuteEngine(taken) /\ FetchEngine(ans, Reset(taken))
        /\ Buffers(ans) /\ IssueEngine /\ UNCHANGED cfg
        /\ open' = IF Strobe THEN fetch.pc ELSE IF ans.ack \/ ans.err THEN NoWord ELSE open
  BY DEF FrontEnd
<1>2. Reset(taken) \in BOOLEAN
  BY DEF Reset
<1>3. fetch' \in [state : Fetch, restart : BOOLEAN, unaligned : BOOLEAN, pc : Words,
                  pmp_err : BOOLEAN]
  BY <1>1, <1>2, FetchType
<1>4. ipb' \in [{0, 1} -> Seq(Entries)]
  BY <1>1, BuffersStep
<1>5. /\ ex' \in [state : ExStates, pc : Halves, next : Halves, branched : BOOLEAN,
                  ir : Instructions]
      /\ exc' \in [be : BOOLEAN, ma : BOOLEAN]
  BY <1>1, ExecuteType
<1>6. align' \in BOOLEAN
  BY <1>1 DEF IssueEngine, Odd, TypeOK
<1>7. open' \in Words \union {NoWord}
  BY <1>1 DEF TypeOK
<1>8. cfg' \in Configs
  BY <1>1 DEF TypeOK
<1> QED BY <1>3, <1>4, <1>5, <1>6, <1>7, <1>8 DEF TypeOK

LEMMA InitType == Init => TypeOK
<1> SUFFICES ASSUME Init PROVE TypeOK
  OBVIOUS
<1>1. 0 \in Words /\ 0 \in Halves
  BY DEF Words, Halves
<1>2. ex \in [state : ExStates, pc : Halves, next : Halves, branched : BOOLEAN,
             ir : Instructions]
  BY <1>1 DEF Init, ExStates, Instructions, Kinds
<1>3. ipb \in [{0, 1} -> Seq(Entries)]
  BY DEF Init
<1>4. fetch \in [state : Fetch, restart : BOOLEAN, unaligned : BOOLEAN, pc : Words,
                pmp_err : BOOLEAN]
  BY <1>1 DEF Init, Fetch
<1> QED BY <1>2, <1>3, <1>4 DEF Init, TypeOK

LEMMA StepType == TypeOK /\ [Next]_vars => TypeOK'
<1>1. ASSUME TypeOK, Next PROVE TypeOK'
  BY <1>1, StepIsCycle, CycleType
<1>2. ASSUME TypeOK, UNCHANGED vars PROVE TypeOK'
  BY <1>2 DEF TypeOK, vars
<1> QED BY <1>1, <1>2

(* The registers of the front end keep their types, and the buffers hold    *)
(* half-words of the memory with their flags, whatever the bus answers and  *)
(* the execute engine does.                                                 *)
THEOREM TypeCorrect == Spec => []TypeOK
BY InitType, StepType, PTL DEF Spec
-----------------------------------------------------------------------------
(* Restarts *)

(* What a cycle does to fetch_engine, by its state. *)
LEMMA FetchStep ==
  ASSUME TypeOK, NEW ans, NEW reset \in BOOLEAN, FetchEngine(ans, reset)
  PROVE  /\ fetch.state = "S_RESTART" =>
              ~fetch'.restart /\ fetch'.state = "S_REQUEST" /\ fetch'.unaligned = Odd(ex.pc)
         /\ fetch.state # "S_RESTART" => fetch'.restart = (fetch.restart \/ reset)
         /\ fetch.state = "S_REQUEST" =>
              fetch'.state = "S_PENDING" /\ fetch'.unaligned = fetch.unaligned
         /\ fetch.state = "S_PENDING" /\ ~resp(ans) =>
              fetch'.state = "S_PENDING" /\ fetch'.unaligned = fetch.unaligned
         /\ fetch.state = "S_PENDING" /\ resp(ans) =>
              /\ fetch'.state = IF fetch.restart \/ reset THEN "S_RESTART" ELSE AfterFetch
              /\ ~fetch'.unaligned
         /\ fetch.state = "S_WAIT" =>
              /\ fetch'.state = IF fetch.restart \/ reset THEN "S_RESTART"
                                ELSE IF free THEN "S_REQUEST" ELSE "S_WAIT"
              /\ fetch'.unaligned = fetch.unaligned
<1>1. fetch.state \in Fetch
  BY DEF TypeOK
<1>2. CASE fetch.state = "S_RESTART"
  BY <1>2 DEF FetchEngine, TypeOK
<1>3. CASE fetch.state = "S_REQUEST"
  BY <1>3 DEF FetchEngine, TypeOK
<1>4. CASE fetch.state = "S_PENDING"
  BY <1>4 DEF FetchEngine, TypeOK
<1>5. CASE fetch.state = "S_WAIT"
  BY <1>5 DEF FetchEngine, TypeOK
<1> QED BY <1>1, <1>2, <1>3, <1>4, <1>5 DEF Fetch

(* Nothing is read out of empty buffers. *)
LEMMA EmptyWaits ==
  ASSUME TypeOK, ipb[0] = <<>>, ipb[1] = <<>>
  PROVE  valid = {}
BY DEF valid, avail, first

(* While a restart is pending the execute engine is on its way to DISPATCH  *)
(* or waits there in front of empty buffers.                                *)
RestartHeld ==
  /\ fetch.state = "S_RESTART" => fetch.restart
  /\ fetch.restart => ex.state \in {"BRANCHED", "DISPATCH"}
  /\ fetch.restart /\ ex.state = "DISPATCH" => ipb[0] = <<>> /\ ipb[1] = <<>>

LEMMA RestartHeldInit == Init => RestartHeld
<1> SUFFICES ASSUME Init PROVE RestartHeld
  OBVIOUS
<1>1. fetch.restart /\ ex.state = "BRANCHED"
  BY DEF Init
<1> QED BY <1>1 DEF RestartHeld

LEMMA RestartHeldStep == TypeOK /\ RestartHeld /\ [Next]_vars => RestartHeld'
<1>1. ASSUME TypeOK, RestartHeld, NEW ans, Proper(ans), FrontEnd(ans)
      PROVE  RestartHeld'
  <2>1. PICK taken \in BOOLEAN :
          ExecuteEngine(taken) /\ FetchEngine(ans, Reset(taken)) /\ Buffers(ans)
    BY <1>1 DEF FrontEnd
  <2>2. Reset(taken) \in BOOLEAN
    BY DEF Reset
  <2>3. fetch'.state = "S_RESTART" => fetch'.restart
    BY <1>1, <2>1, <2>2, FetchStep DEF AfterFetch, TypeOK, Fetch
  <2>4. fetch'.restart => fetch.restart \/ Reset(taken)
    <3> DEFINE reset == Reset(taken)
    <3>1. reset \in BOOLEAN /\ FetchEngine(ans, reset)
      BY <2>1, <2>2
    <3> HIDE DEF reset
    <3>2. CASE fetch.state = "S_RESTART"
      BY <1>1, <3>1, <3>2, FetchStep
    <3>3. CASE fetch.state # "S_RESTART"
      <4>1. fetch'.restart = (fetch.restart \/ reset)
        BY <1>1, <3>1, <3>3, FetchStep
      <4>2. fetch.restart \in BOOLEAN
        BY <1>1 DEF TypeOK
      <4>3. fetch'.restart => fetch.restart \/ reset
        BY <3>1, <4>1, <4>2
      <4> QED BY <4>3 DEF reset
    <3> QED BY <3>2, <3>3
  <2>5. CASE fetch.restart
    <3>1. ipb'[0] = <<>> /\ ipb'[1] = <<>>
      BY <1>1, <2>1, <2>5, BuffersStep
    <3>2. ASSUME ex.state = "BRANCHED" PROVE ex'.state = "DISPATCH"
      <4>1. Branched
        BY <2>1, <3>2 DEF ExecuteEngine, Dispatch, Execute, Work, System, Branch,
           TrapEnter, TrapStart, TrapExit, TrapExecute
      <4> QED BY <1>1, <4>1 DEF Branched, TypeOK
    <3>3. ASSUME ex.state = "DISPATCH" PROVE ex'.state = "DISPATCH"
      <4>1. valid = {}
        BY <1>1, <2>5, <3>3, EmptyWaits DEF RestartHeld
      <4>2. Dispatch
        BY <2>1, <3>3 DEF ExecuteEngine, Execute, Work, System, Branch, Branched,
           TrapEnter, TrapStart, TrapExit, TrapExecute
      <4>3. ex'.state = "DISPATCH"
        BY <1>1, <3>3, <4>1, <4>2 DEF Dispatch, TypeOK
      <4> QED BY <4>3
    <3>4. ex'.state = "DISPATCH"
      BY <1>1, <2>5, <3>2, <3>3 DEF RestartHeld
    <3> QED BY <2>3, <3>1, <3>4 DEF RestartHeld
  <2>6. CASE ~fetch.restart /\ Reset(taken)
    <3>1. ex'.state = "BRANCHED"
      <4>1. CASE ex.state = "TRAP_EXECUTE"
        BY <1>1, <2>1, <4>1 DEF ExecuteEngine, Dispatch, Execute, Work, System, Branch,
           Branched, TrapEnter, TrapStart, TrapExit, TrapExecute, TypeOK
      <4>2. CASE ex.state = "BRANCH" /\ taken
        BY <1>1, <2>1, <4>2 DEF ExecuteEngine, Dispatch, Execute, Work, System, Branch,
           Branched, TrapEnter, TrapStart, TrapExit, TrapExecute, TypeOK
      <4> QED BY <2>6, <4>1, <4>2 DEF Reset
    <3> QED BY <2>3, <3>1 DEF RestartHeld
  <2>7. CASE ~fetch.restart /\ ~Reset(taken)
    BY <2>3, <2>4, <2>7 DEF RestartHeld
  <2> QED BY <2>5, <2>6, <2>7
<1>2. ASSUME TypeOK, RestartHeld, UNCHANGED vars PROVE RestartHeld'
  BY <1>2 DEF RestartHeld, vars
<1> QED BY <1>1, <1>2, StepIsCycle

(* No restart is lost: a jump or a trap asks for one only when the fetch    *)
(* engine has carried out the last one (fetch_engine.restart).              *)
THEOREM RestartCorrect == Spec => []RestartKept
<1>1. RestartHeld => RestartKept
  BY DEF RestartHeld, RestartKept
<1> QED BY <1>1, RestartHeldInit, RestartHeldStep, TypeCorrect, PTL DEF Spec
-----------------------------------------------------------------------------
(* The buffers *)

(* What is read in a cycle: from both buffers, from none, or from the one   *)
(* the next instruction begins in, which moves to the other.                *)
LEMMA ReadStep ==
  ASSUME TypeOK, ~fetch.restart, IssueEngine
  PROVE  /\ ~cfg.c => (re(0) <=> re(1))
         /\ cfg.c => \/ (re(0) <=> re(1)) /\ align' = align
                     \/ ~align /\ re(0) /\ ~re(1) /\ align'
                     \/ align /\ ~re(0) /\ re(1) /\ ~align'
<1>1. align \in BOOLEAN /\ cfg.c \in BOOLEAN
  BY DEF TypeOK
<1>2. first \in {0, 1} /\ (first = 1 <=> align)
  BY <1>1 DEF first
<1>3. cfg.c => align' = IF ex.state = "DISPATCH" /\ valid = {first} THEN ~align ELSE align
  BY DEF IssueEngine
<1>4. CASE ex.state # "DISPATCH" \/ valid = {}
  <2>1. ~re(0) /\ ~re(1) /\ (cfg.c => align' = align)
    BY <1>2, <1>3, <1>4 DEF re
  <2> QED BY <2>1
<1>5. CASE ex.state = "DISPATCH" /\ valid = {0, 1}
  <2>1. valid # {first}
    BY <1>2, <1>5
  <2>2. re(0) /\ re(1) /\ (cfg.c => align' = align)
    BY <1>3, <1>5, <2>1 DEF re
  <2> QED BY <2>2
<1>6. CASE ex.state = "DISPATCH" /\ Compressed /\ valid = {first}
  <2>1. cfg.c
    BY <1>6 DEF Compressed
  <2>2. align' = ~align
    BY <1>3, <1>6, <2>1
  <2>3. CASE align
    <3>1. first = 1
      BY <1>2, <2>3
    <3>2. ~re(0) /\ re(1)
      BY <1>6, <3>1 DEF re
    <3> QED BY <2>1, <2>2, <2>3, <3>2
  <2>4. CASE ~align
    <3>1. first = 0
      BY <1>2, <2>4
    <3>2. re(0) /\ ~re(1)
      BY <1>6, <3>1 DEF re
    <3> QED BY <2>1, <2>2, <2>4, <3>2
  <2> QED BY <2>3, <2>4
<1> QED BY <1>4, <1>5, <1>6 DEF valid

(* The fetch engine asks for a word when there is room for it. *)
Bounded == \A i \in {0, 1} : Len(ipb[i]) <= Depth
Room ==
  fetch.state \in {"S_REQUEST", "S_PENDING"} /\ ~fetch.restart =>
    \A i \in {0, 1} : Len(ipb[i]) < Depth

LEMMA RoomCycle ==
  ASSUME TypeOK, RestartHeld, Bounded, Room, NEW ans, Proper(ans), FrontEnd(ans)
  PROVE  Bounded' /\ Room'
<1>1. PICK taken \in BOOLEAN : FetchEngine(ans, Reset(taken)) /\ Buffers(ans)
  BY DEF FrontEnd
<1> DEFINE reset == Reset(taken)
<1>2. reset \in BOOLEAN /\ FetchEngine(ans, reset)
  BY <1>1 DEF Reset
<1> HIDE DEF reset
<1>3. \A i \in {0, 1} : Len(ipb[i]) \in Nat /\ (re(i) => Len(ipb[i]) # 0)
  BY LeftType, EmptySeq DEF TypeOK
<1>4. fetch.state \in Fetch /\ Depth \in Nat /\ Depth >= 2
  BY DEF TypeOK
<1>5. CASE fetch.restart
  <2>1. \A i \in {0, 1} : Len(ipb'[i]) = 0
    BY <1>1, <1>5, BuffersStep
  <2> QED BY <1>4, <2>1 DEF Bounded, Room
<1>6. CASE ~fetch.restart
  <2>1. ASSUME NEW i \in {0, 1}
        PROVE  /\ Len(ipb'[i]) \in Int
               /\ Len(ipb'[i]) <= Len(ipb[i]) + 1
               /\ ~we(i, ans) => Len(ipb'[i]) <= Len(ipb[i])
    <3> DEFINE r == IF re(i) THEN 1 ELSE 0
               w == IF we(i, ans) THEN 1 ELSE 0
    <3>1. Len(ipb'[i]) = Len(ipb[i]) - r + w
      BY <1>1, <1>6, BuffersStep
    <3>2. r \in {0, 1} /\ w \in {0, 1} /\ (~we(i, ans) => w = 0)
      OBVIOUS
    <3>3. Len(ipb[i]) \in Nat
      BY <1>3
    <3> HIDE DEF r, w
    <3> QED BY <3>1, <3>2, <3>3
  <2>2. fetch.state # "S_RESTART"
    BY <1>6 DEF RestartHeld
  <2>3. CASE fetch.state = "S_PENDING" /\ resp(ans)
    <3>1. \A i \in {0, 1} : Len(ipb'[i]) <= Len(ipb[i]) + 1
      BY <2>1
    <3>2. \A i \in {0, 1} : Len(ipb[i]) < Depth
      BY <1>6, <2>3 DEF Room
    <3>3. Bounded'
      BY <1>3, <1>4, <2>1, <3>1, <3>2 DEF Bounded
    <3>4. ASSUME fetch'.state \in {"S_REQUEST", "S_PENDING"}, NEW i \in {0, 1}
          PROVE  Len(ipb'[i]) < Depth
      <4>1. ~half
        BY <1>2, <2>3, <3>4, FetchStep DEF AfterFetch
      <4>2. Len(ipb[i]) < Depth \div 2
        BY <1>3, <4>1 DEF half
      <4>3. Len(ipb'[i]) \in Int
        BY <2>1
      <4> QED BY <1>3, <1>4, <3>1, <4>2, <4>3
    <3> QED BY <3>3, <3>4 DEF Room
  <2>4. CASE ~(fetch.state = "S_PENDING" /\ resp(ans))
    <3>1. \A i \in {0, 1} : ~we(i, ans)
      BY <2>4 DEF we
    <3>2. \A i \in {0, 1} : Len(ipb'[i]) <= Len(ipb[i]) /\ Len(ipb'[i]) \in Int
      BY <2>1, <3>1
    <3>3. Bounded'
      BY <1>3, <1>4, <3>2 DEF Bounded
    <3>4. ASSUME fetch'.state \in {"S_REQUEST", "S_PENDING"}, NEW i \in {0, 1}
          PROVE  Len(ipb[i]) < Depth
      <4>1. CASE fetch.state = "S_WAIT"
        BY <1>2, <3>4, <4>1, FetchStep DEF free
      <4>2. CASE fetch.state \in {"S_REQUEST", "S_PENDING"}
        BY <1>6, <4>2 DEF Room
      <4> QED BY <1>4, <2>2, <4>1, <4>2 DEF Fetch
    <3> QED BY <1>3, <1>4, <3>2, <3>3, <3>4 DEF Room
  <2> QED BY <2>3, <2>4
<1> QED BY <1>5, <1>6

(* Between a restart at an odd half-word and the answer to its first fetch  *)
(* nothing is in the buffers; after it the upper one leads.                 *)
Started ==
  cfg.c /\ ~fetch.restart /\ fetch.unaligned => align /\ ipb[0] = <<>> /\ ipb[1] = <<>>
Skew ==
  /\ ~fetch.restart /\ cfg.c =>
       Len(ipb[1]) - Len(ipb[0]) = IF align /\ ~fetch.unaligned THEN 1 ELSE 0
  /\ ~fetch.restart /\ ~cfg.c => Len(ipb[1]) = Len(ipb[0])

LEMMA SkewCycle ==
  ASSUME TypeOK, RestartHeld, Started, Skew, NEW ans, Proper(ans), FrontEnd(ans)
  PROVE  Started' /\ Skew'
<1>1. PICK taken \in BOOLEAN :
        FetchEngine(ans, Reset(taken)) /\ Buffers(ans) /\ IssueEngine /\ UNCHANGED cfg
  BY DEF FrontEnd
<1> DEFINE reset == Reset(taken)
<1>2. reset \in BOOLEAN /\ FetchEngine(ans, reset)
  BY <1>1 DEF Reset
<1> HIDE DEF reset
<1>3. /\ fetch.state \in Fetch /\ cfg.c \in BOOLEAN /\ align \in BOOLEAN
      /\ fetch.unaligned \in BOOLEAN /\ fetch.restart \in BOOLEAN /\ cfg' = cfg
  BY <1>1 DEF TypeOK
<1>4. Len(ipb[0]) \in Nat /\ Len(ipb[1]) \in Nat
  BY LeftType
<1>5. CASE fetch.restart
  <2>1. ipb'[0] = <<>> /\ ipb'[1] = <<>> /\ Len(ipb'[0]) = 0 /\ Len(ipb'[1]) = 0
    BY <1>1, <1>5, BuffersStep
  <2>2. cfg.c => align' = Odd(ex.pc)
    BY <1>1, <1>5 DEF IssueEngine
  <2>3. ASSUME ~fetch'.restart PROVE fetch'.unaligned = Odd(ex.pc)
    <3>1. fetch.state = "S_RESTART"
      <4>1. ASSUME fetch.state # "S_RESTART" PROVE FALSE
        <5>1. fetch'.restart = (fetch.restart \/ reset)
          BY <1>2, <4>1, FetchStep
        <5> QED BY <1>2, <1>5, <2>3, <5>1
      <4> QED BY <4>1
    <3> QED BY <1>2, <3>1, FetchStep
  <2>4. Odd(ex.pc) \in BOOLEAN
    BY DEF Odd
  <2>5. Started'
    BY <1>3, <2>1, <2>2, <2>3, <2>4 DEF Started
  <2>6. Skew'
    BY <1>3, <2>1, <2>2, <2>3, <2>4 DEF Skew
  <2> QED BY <2>5, <2>6
<1>6. CASE ~fetch.restart
  <2> DEFINE r0 == IF re(0) THEN 1 ELSE 0
             r1 == IF re(1) THEN 1 ELSE 0
             w0 == IF we(0, ans) THEN 1 ELSE 0
             w1 == IF we(1, ans) THEN 1 ELSE 0
  <2>1. Len(ipb'[0]) = Len(ipb[0]) - r0 + w0 /\ Len(ipb'[1]) = Len(ipb[1]) - r1 + w1
    BY <1>1, <1>6, BuffersStep
  <2>2. /\ ~cfg.c => r0 = r1
        /\ cfg.c => \/ r0 = r1 /\ align' = align
                    \/ ~align /\ r0 = 1 /\ r1 = 0 /\ align'
                    \/ align /\ r0 = 0 /\ r1 = 1 /\ ~align'
    <3>1. /\ ~cfg.c => (re(0) <=> re(1))
          /\ cfg.c => \/ (re(0) <=> re(1)) /\ align' = align
                      \/ ~align /\ re(0) /\ ~re(1) /\ align'
                      \/ align /\ ~re(0) /\ re(1) /\ ~align'
      BY <1>1, <1>6, ReadStep
    <3> QED BY <3>1
  <2>3. r0 \in {0, 1} /\ r1 \in {0, 1} /\ w0 \in {0, 1} /\ w1 \in {0, 1}
    OBVIOUS
  <2>4. fetch.state # "S_RESTART"
    BY <1>6 DEF RestartHeld
  <2>5. cfg.c => (IF align THEN 1 ELSE 0) - r1 + r0 = IF align' THEN 1 ELSE 0
    <3> HIDE DEF r0, r1
    <3>1. CASE cfg.c /\ r0 = r1 /\ align' = align
      <4>1. r0 = 0 \/ r0 = 1
        BY <2>3
      <4>2. CASE align
        BY <3>1, <4>1, <4>2
      <4>3. CASE ~align
        BY <3>1, <4>1, <4>3
      <4> QED BY <4>2, <4>3
    <3>2. CASE ~align /\ r0 = 1 /\ r1 = 0 /\ align'
      BY <3>2
    <3>3. CASE align /\ r0 = 0 /\ r1 = 1 /\ ~align'
      BY <3>3
    <3> QED BY <2>2, <3>1, <3>2, <3>3
  <2>6. CASE fetch.state = "S_PENDING" /\ resp(ans)
    <3>1. ~fetch'.unaligned
      BY <1>2, <2>6, FetchStep
    <3>2. w1 = 1 /\ (w0 = 1 <=> ~fetch.unaligned \/ ~cfg.c)
      BY <2>6 DEF we
    <3>3. Started'
      BY <3>1 DEF Started
    <3>4. CASE cfg.c /\ fetch.unaligned
      <4>1. align /\ ipb[0] = <<>> /\ ipb[1] = <<>>
        BY <1>6, <3>4 DEF Started
      <4>2. r0 = 0 /\ r1 = 0 /\ Len(ipb[0]) = 0 /\ Len(ipb[1]) = 0
        BY <4>1, LeftType
      <4> HIDE DEF r0, r1, w0, w1
      <4>3. Len(ipb'[1]) - Len(ipb'[0]) = 1
        BY <2>1, <2>3, <3>2, <3>4, <4>2
      <4> QED BY <1>3, <2>2, <3>1, <3>3, <3>4, <4>1, <4>2, <4>3 DEF Skew
    <3>5. CASE cfg.c /\ ~fetch.unaligned
      <4>1. Len(ipb[1]) - Len(ipb[0]) = IF align THEN 1 ELSE 0
        BY <1>6, <3>5 DEF Skew
      <4> HIDE DEF r0, r1, w0, w1
      <4>2. Len(ipb'[1]) - Len(ipb'[0]) = Len(ipb[1]) - Len(ipb[0]) - r1 + r0
        BY <1>4, <2>1, <2>3, <3>2, <3>5
      <4>3. Len(ipb'[1]) - Len(ipb'[0]) = IF align' THEN 1 ELSE 0
        BY <2>5, <3>5, <4>1, <4>2
      <4> QED BY <1>3, <3>1, <3>3, <3>5, <4>3 DEF Skew
    <3>6. CASE ~cfg.c
      <4>1. Len(ipb[1]) = Len(ipb[0])
        BY <1>6, <3>6 DEF Skew
      <4> HIDE DEF r0, r1, w0, w1
      <4>2. Len(ipb'[1]) = Len(ipb'[0])
        BY <2>1, <2>2, <2>3, <3>2, <3>6, <4>1
      <4> QED BY <1>3, <3>3, <3>6, <4>2 DEF Skew
    <3> QED BY <1>3, <3>4, <3>5, <3>6
  <2>7. CASE ~(fetch.state = "S_PENDING" /\ resp(ans))
    <3>1. fetch'.unaligned = fetch.unaligned
      BY <1>2, <1>3, <2>4, <2>7, FetchStep DEF Fetch
    <3>2. w0 = 0 /\ w1 = 0
      BY <2>7 DEF we
    <3>3. CASE cfg.c /\ fetch.unaligned
      <4>1. align /\ ipb[0] = <<>> /\ ipb[1] = <<>>
        BY <1>6, <3>3 DEF Started
      <4>2. ~re(0) /\ ~re(1) /\ Len(ipb[0]) = 0 /\ Len(ipb[1]) = 0
        BY <4>1, LeftType
      <4>3. r0 = 0 /\ r1 = 0
        BY <4>2
      <4> HIDE DEF r0, r1, w0, w1
      <4>4. Len(ipb'[0]) = 0 /\ Len(ipb'[1]) = 0 /\ align' = align
        BY <2>1, <2>2, <3>2, <3>3, <4>2, <4>3
      <4>5. ipb'[0] = <<>> /\ ipb'[1] = <<>>
        <5>1. ipb' \in [{0, 1} -> Seq(Entries)]
          BY <1>1, BuffersStep
        <5> QED BY <4>4, <5>1, EmptySeq
      <4>6. Started'
        BY <4>1, <4>4, <4>5 DEF Started
      <4> QED BY <1>3, <3>1, <3>3, <4>4, <4>6 DEF Skew
    <3>4. CASE cfg.c /\ ~fetch.unaligned
      <4>1. Len(ipb[1]) - Len(ipb[0]) = IF align THEN 1 ELSE 0
        BY <1>6, <3>4 DEF Skew
      <4> HIDE DEF r0, r1, w0, w1
      <4>2. Len(ipb'[1]) - Len(ipb'[0]) = Len(ipb[1]) - Len(ipb[0]) - r1 + r0
        BY <1>4, <2>1, <2>3, <3>2
      <4>3. Len(ipb'[1]) - Len(ipb'[0]) = IF align' THEN 1 ELSE 0
        BY <2>5, <3>4, <4>1, <4>2
      <4>4. Started'
        BY <1>3, <3>1, <3>4 DEF Started
      <4> QED BY <1>3, <3>1, <3>4, <4>3, <4>4 DEF Skew
    <3>5. CASE ~cfg.c
      <4>1. Len(ipb[1]) = Len(ipb[0])
        BY <1>6, <3>5 DEF Skew
      <4> HIDE DEF r0, r1, w0, w1
      <4>2. Len(ipb'[1]) = Len(ipb'[0])
        BY <2>1, <2>2, <2>3, <3>2, <3>5, <4>1
      <4>3. Started'
        BY <1>3, <3>5 DEF Started
      <4> QED BY <1>3, <3>5, <4>2, <4>3 DEF Skew
    <3> QED BY <1>3, <3>3, <3>4, <3>5
  <2> QED BY <2>6, <2>7
<1> QED BY <1>5, <1>6

(* The prefetch buffers (neorv32_cpu_control.vhd) are never overrun, and    *)
(* the two halves of a word stay together: the buffers differ by the one    *)
(* half-word that an unaligned instruction begins with, and by no more.     *)
THEOREM InStepCorrect == Spec => []InStep
<1> DEFINE IInv == Bounded /\ Room /\ Started /\ Skew
<1>1. Init => IInv
  <2> SUFFICES ASSUME Init PROVE IInv
    OBVIOUS
  <2>1. fetch.restart /\ ipb = [i \in {0, 1} |-> <<>>]
    BY DEF Init
  <2> QED BY <2>1 DEF Bounded, Room, Started, Skew
<1>2. TypeOK /\ RestartHeld /\ IInv /\ [Next]_vars => IInv'
  <2>1. ASSUME TypeOK, RestartHeld, IInv, Next PROVE IInv'
    BY <2>1, StepIsCycle, RoomCycle, SkewCycle
  <2>2. ASSUME IInv, UNCHANGED vars PROVE IInv'
    BY <2>2 DEF Bounded, Room, Started, Skew, vars
  <2> QED BY <2>1, <2>2
<1>3. IInv => InStep
  BY DEF Bounded, Skew, InStep
<1> HIDE DEF IInv
<1> QED BY <1>1, <1>2, <1>3, RestartHeldInit, RestartHeldStep, TypeCorrect, PTL DEF Spec
-----------------------------------------------------------------------------
(* One fetch at a time *)

(* Programs in which the fetch engine never answers itself while the bus    *)
(* still works: a PMP or an alignment fault ends S_PENDING at once.         *)
Answered ==
  \A c \in Configs : c.slow => ~c.pmp /\ (c.c \/ \A t \in c.targets : ~Odd(t))

LEMMA ModSmall == ASSUME NEW n \in Nat \ {0}, NEW x \in 0 .. n - 1 PROVE x % n = x
OBVIOUS
LEMMA ModSelf == ASSUME NEW n \in Nat \ {0} PROVE n % n = 0
OBVIOUS

(* The address after an even one stays even where the addresses wrap. *)
LEMMA NextEven ==
  ASSUME NEW h \in Halves, ~Odd(h), NEW i, ~i.ci
  PROVE  ~Odd(NextPc(i, h))
<1> DEFINE m == 2 * NumWords
<1>1. m \in Nat \ {0} /\ h \in 0 .. m - 1 /\ h <= m - 2 /\ (h + 2) % 2 # 1
  BY DEF Halves, Odd
<1>2. NextPc(i, h) = (h + 2) % m
  BY DEF NextPc
<1>3. m % 2 # 1
  OBVIOUS
<1> HIDE DEF m
<1>4. CASE h + 2 = m
  <2>1. m % m = 0
    BY <1>1, ModSelf
  <2> QED BY <1>2, <1>4, <2>1 DEF Odd
<1>5. CASE h + 2 \in 0 .. m - 1
  <2>1. (h + 2) % m = h + 2
    BY <1>1, <1>5, ModSmall
  <2> QED BY <1>1, <1>2, <2>1 DEF Odd
<1> QED BY <1>1, <1>4, <1>5

(* Every address of a program without compressed instructions is even. *)
Uncompressed == cfg.slow /\ ~cfg.c
EvenRun ==
  Uncompressed => ~Odd(ex.pc) /\ ~Odd(ex.next) /\ ~ex.ir.ci /\ ~fetch.unaligned

LEMMA EvenExecute ==
  ASSUME TypeOK, Answered, Uncompressed, EvenRun, NEW taken, ExecuteEngine(taken)
  PROVE  ~Odd(ex'.pc) /\ ~Odd(ex'.next) /\ ~ex'.ir.ci
<1>1. ~Odd(ex.pc) /\ ~Odd(ex.next) /\ ~ex.ir.ci
  BY DEF EvenRun
<1>2. \A t \in cfg.targets : ~Odd(t)
  BY DEF Answered, Uncompressed, TypeOK
<1>3. ex \in [state : ExStates, pc : Halves, next : Halves, branched : BOOLEAN,
             ir : Instructions]
  BY DEF TypeOK
<1>4. CASE Dispatch
  <2>1. CASE valid = {}
    <3>1. PICK kind \in {"alu", "branch"} : ex' = [ex EXCEPT !.ir.kind = kind]
      BY <1>4, <2>1 DEF Dispatch
    <3>2. [ex.ir EXCEPT !.kind = kind].ci = ex.ir.ci
      BY <1>3 DEF Instructions
    <3> QED BY <1>1, <1>3, <3>1, <3>2
  <2>2. CASE valid # {}
    <3>1. PICK kind \in Kinds, trap \in BOOLEAN :
            ex' = [ex EXCEPT !.ir = data(kind), !.branched = FALSE,
                             !.pc = IF ex.branched THEN @ ELSE ex.next,
                             !.state = IF trap \/ exc'.be \/ exc'.ma
                                       THEN "TRAP_ENTER" ELSE "EXECUTE"]
      BY <1>4, <2>2 DEF Dispatch
    <3>2. ~data(kind).ci
      BY DEF data, Compressed, Uncompressed
    <3>3. /\ ex'.pc = IF ex.branched THEN ex.pc ELSE ex.next
          /\ ex'.next = ex.next /\ ex'.ir = data(kind)
      BY <1>3, <3>1
    <3> QED BY <1>1, <3>2, <3>3
  <2> QED BY <2>1, <2>2
<1>5. CASE Execute
  <2>1. ~Odd(NextPc(ex.ir, ex.pc))
    BY <1>1, <1>3, NextEven
  <2>2. ex'.pc = ex.pc /\ ex'.next = NextPc(ex.ir, ex.pc) /\ ex'.ir = ex.ir
    BY <1>3, <1>5 DEF Execute
  <2> QED BY <1>1, <2>1, <2>2
<1>6. CASE Branch(taken)
  <2>1. PICK target \in cfg.targets :
          ex' = [ex EXCEPT !.pc = target, !.state = IF taken THEN "BRANCHED" ELSE "DISPATCH"]
    BY <1>6 DEF Branch
  <2>2. ex'.pc = target /\ ex'.next = ex.next /\ ex'.ir = ex.ir
    BY <1>3, <2>1
  <2> QED BY <1>1, <1>2, <2>2
<1>7. CASE TrapStart
  <2>1. ex'.pc = ex.pc /\ ex'.next = Handler /\ ex'.ir = ex.ir
    BY <1>3, <1>7 DEF TrapStart
  <2>2. ~Odd(Handler)
    BY DEF Odd
  <2> QED BY <1>1, <2>1, <2>2
<1>8. CASE TrapExit
  <2>1. PICK mepc \in cfg.targets : ex' = [ex EXCEPT !.next = mepc, !.state = "TRAP_EXECUTE"]
    BY <1>8 DEF TrapExit
  <2>2. ex'.pc = ex.pc /\ ex'.next = mepc /\ ex'.ir = ex.ir
    BY <1>3, <2>1
  <2> QED BY <1>1, <1>2, <2>2
<1>9. CASE TrapExecute
  <2>1. ex'.pc = ex.next /\ ex'.next = ex.next /\ ex'.ir = ex.ir
    BY <1>3, <1>9 DEF TrapExecute
  <2> QED BY <1>1, <2>1
<1>10. CASE Work \/ System \/ Branched \/ TrapEnter
  <2>1. ex'.pc = ex.pc /\ ex'.next = ex.next /\ ex'.ir = ex.ir
    BY <1>3, <1>10 DEF Work, System, Branched, TrapEnter, Goto
  <2> QED BY <1>1, <2>1
<1> QED BY <1>4, <1>5, <1>6, <1>7, <1>8, <1>9, <1>10 DEF ExecuteEngine

LEMMA EvenCycle ==
  ASSUME TypeOK, Answered, EvenRun, NEW ans, FrontEnd(ans)
  PROVE  EvenRun'
<1>1. PICK taken \in BOOLEAN :
        ExecuteEngine(taken) /\ FetchEngine(ans, Reset(taken)) /\ UNCHANGED cfg
  BY DEF FrontEnd
<1> SUFFICES ASSUME Uncompressed
             PROVE  ~Odd(ex'.pc) /\ ~Odd(ex'.next) /\ ~ex'.ir.ci /\ ~fetch'.unaligned
  BY <1>1 DEF EvenRun, Uncompressed
<1> DEFINE reset == Reset(taken)
<1>2. reset \in BOOLEAN /\ FetchEngine(ans, reset) /\ fetch.state \in Fetch
  BY <1>1 DEF Reset, TypeOK
<1> HIDE DEF reset
<1>3. ~fetch.unaligned /\ ~Odd(ex.pc)
  BY DEF EvenRun
<1>4. ~fetch'.unaligned
  BY <1>2, <1>3, FetchStep DEF Fetch
<1> QED BY <1>1, <1>4, EvenExecute

(* A read is open while, and only while, the fetch engine waits for it. *)
Waiting ==
  /\ open # NoWord <=> fetch.state = "S_PENDING"
  /\ cfg.slow => ~fetch.pmp_err

LEMMA WaitingCycle ==
  ASSUME TypeOK, Answered, EvenRun, Waiting, NEW ans, Proper(ans), FrontEnd(ans),
         ans \in Answers \/ (ans = NoAnswer /\ cfg.slow /\ open # NoWord)
  PROVE  Waiting'
<1>1. PICK taken \in BOOLEAN :
        /\ FetchEngine(ans, Reset(taken)) /\ UNCHANGED cfg
        /\ open' = IF Strobe THEN fetch.pc ELSE IF ans.ack \/ ans.err THEN NoWord ELSE open
  BY DEF FrontEnd
<1> DEFINE reset == Reset(taken)
<1>2. reset \in BOOLEAN /\ FetchEngine(ans, reset) /\ fetch.state \in Fetch
  BY <1>1 DEF Reset, TypeOK
<1> HIDE DEF reset
<1>3. fetch.pc # NoWord
  BY DEF TypeOK, Words, Halves
<1>4. cfg.slow => ~cfg.pmp /\ ~a_err
  BY DEF Answered, EvenRun, Uncompressed, a_err, TypeOK
<1>5. cfg.slow => ~fetch'.pmp_err
  BY <1>2, <1>4 DEF FetchEngine, Waiting, TypeOK, Fetch
<1>6. CASE fetch.state = "S_PENDING"
  <2>1. open # NoWord /\ ~Strobe
    BY <1>6 DEF Waiting, Strobe
  <2>2. resp(ans) <=> ans.ack \/ ans.err
    <3>1. CASE cfg.slow
      BY <1>4, <3>1 DEF resp, Waiting, Proper, Replies
    <3>2. CASE ~cfg.slow
      <4>1. ans.ack \/ ans.err
        BY <2>1, <3>2 DEF Answers, NoAnswer
      <4> QED BY <4>1 DEF resp
    <3> QED BY <3>1, <3>2
  <2>3. CASE resp(ans)
    <3>1. fetch'.state # "S_PENDING"
      BY <1>2, <1>6, <2>3, FetchStep DEF AfterFetch
    <3> QED BY <1>1, <1>5, <2>1, <2>2, <2>3, <3>1 DEF Waiting
  <2>4. CASE ~resp(ans)
    <3>1. fetch'.state = "S_PENDING"
      BY <1>2, <1>6, <2>4, FetchStep
    <3> QED BY <1>1, <1>5, <2>1, <2>2, <2>4, <3>1 DEF Waiting
  <2> QED BY <2>3, <2>4
<1>7. CASE fetch.state = "S_REQUEST"
  <2>1. fetch'.state = "S_PENDING"
    BY <1>2, <1>7, FetchStep
  <2> QED BY <1>1, <1>3, <1>5, <1>7, <2>1 DEF Waiting, Strobe
<1>8. CASE fetch.state \in {"S_RESTART", "S_WAIT"}
  <2>1. fetch'.state # "S_PENDING"
    BY <1>2, <1>8, FetchStep
  <2>2. open = NoWord /\ ~Strobe
    BY <1>8 DEF Waiting, Strobe
  <2> QED BY <1>1, <1>5, <2>1, <2>2 DEF Waiting
<1> QED BY <1>2, <1>6, <1>7, <1>8 DEF Fetch

(* On a bus that may be slow, programs that are not stopped by PMP or       *)
(* alignment have one fetch on the fly, and nobody waits for an answer that *)
(* does not come.                                                           *)
THEOREM OneFetchCorrect ==
  ASSUME Answered
  PROVE  Spec => []OneFetch
<1>1. Init => EvenRun /\ Waiting
  <2> SUFFICES ASSUME Init PROVE EvenRun /\ Waiting
    OBVIOUS
  <2>1. /\ fetch.state = "S_RESTART" /\ ~fetch.unaligned /\ ~fetch.pmp_err
        /\ open = NoWord /\ ex.pc = 0 /\ ex.next = 0 /\ ~ex.ir.ci
    BY DEF Init
  <2>2. ~Odd(0)
    BY DEF Odd
  <2> QED BY <2>1, <2>2 DEF EvenRun, Waiting
<1>2. TypeOK /\ EvenRun /\ Waiting /\ [Next]_vars => (EvenRun /\ Waiting)'
  <2>1. ASSUME TypeOK, EvenRun, Waiting, Next PROVE (EvenRun /\ Waiting)'
    BY <2>1, StepIsCycle, EvenCycle, WaitingCycle
  <2>2. ASSUME EvenRun, Waiting, UNCHANGED vars PROVE (EvenRun /\ Waiting)'
    BY <2>2 DEF EvenRun, Uncompressed, Waiting, vars
  <2> QED BY <2>1, <2>2
<1>3. Waiting => OneFetch
  BY DEF Waiting, OneFetch, Strobe
<1> QED BY <1>1, <1>2, <1>3, TypeCorrect, PTL DEF Spec

-----------------------------------------------------------------------------
(* The inductive invariant.                                                 *)

(* The word that is read, and whether it may be executed.                   *)
Reading ==
  fetch.state = "S_PENDING" =>
    /\ open = fetch.pc
    /\ fetch.pmp_err = (cfg.pmp /\ fetch.pc \in PmpWords)

(* The half-word of entry k of buffer i, counted back from the fetch pc.    *)
Place(i, k) == 2 * ((fetch.pc - Len(ipb[i]) + (k - 1)) % NumWords) + i
Barred(h) == cfg.pmp /\ h \div 2 \in PmpWords
Right(e, h) ==
  IF e.be THEN MayFail(h)
  ELSE e.adr = h /\ e.long = (h \in cfg.long) /\ ~Barred(h)
Contents ==
  ~fetch.restart =>
    \A i \in {0, 1} : \A k \in 1 .. Len(ipb[i]) : Right(ipb[i][k], Place(i, k))

(* Without compressed instructions only the first word behind a restart can *)
(* be misaligned.                                                           *)
Misalignment ==
  ~cfg.c =>
    /\ ~align
    /\ ~fetch.restart =>
         /\ fetch.unaligned => ipb[0] = <<>> /\ ipb[1] = <<>>
         /\ \A i \in {0, 1} : \A k \in 1 .. Len(ipb[i]) : ipb[i][k].ma => k = 1
         /\ ipb[0] # <<>> => ipb[0][1].ma = ipb[1][1].ma

(* What comes out of the buffers next is the instruction at n.              *)
Misaligned == fetch.unaligned \/ (ipb[0] # <<>> /\ ipb[0][1].ma)
NextIs(n) ==
  /\ n \div 2 = (fetch.pc - Len(ipb[first])) % NumWords
  /\ Odd(n) <=> IF cfg.c THEN align ELSE Misaligned
Following ==
  /\ ~fetch.restart =>
       /\ ex.state = "DISPATCH" => NextIs(Here)
       /\ ex.state = "EXECUTE" => NextIs(NextPc(ex.ir, ex.pc))
       /\ ex.state \in {"WORK", "SYSTEM", "BRANCH"} => NextIs(ex.next)
  /\ ex.state = "BRANCHED" => fetch.restart
  /\ ex.state = "DISPATCH" /\ fetch.restart => ex.branched

(* The instruction register holds the instruction of the pc.                *)
IsLong(h) == ~cfg.c \/ h \in cfg.long
Executing == {"EXECUTE", "WORK", "SYSTEM", "BRANCH", "TRAP_EXIT"}
InRegister ==
  ex.state \in Executing =>
    /\ ex.ir.adr = ex.pc /\ ex.ir.ci = ~IsLong(ex.pc)
    /\ ex.ir.hi = IF IsLong(ex.pc) THEN (ex.pc + 1) % (2 * NumWords) ELSE NoWord
    /\ ~ex.branched
    /\ ~cfg.c => ~Odd(ex.pc)
    /\ ex.state \in {"WORK", "SYSTEM", "BRANCH"} => ex.next = NextPc(ex.ir, ex.pc)

InOrder == Reading /\ Contents /\ Misalignment /\ Following /\ InRegister /\ FaultReal

-----------------------------------------------------------------------------
(* Addresses that wrap.                                                     *)

LEMMA DivMod ==
  ASSUME NEW n \in Nat \ {0}, NEW x \in Int
  PROVE  x = n * (x \div n) + (x % n) /\ x \div n \in Int /\ x % n \in 0 .. n - 1
OBVIOUS

LEMMA Product ==
  ASSUME NEW n \in Nat \ {0}, NEW d \in Int, NEW e \in Int, n * d = e, e > -n, e < n
  PROVE  e = 0
<1>1. CASE d >= 1
  <2>1. n * d >= n
    BY <1>1
  <2> QED BY <2>1
<1>2. CASE d <= -1
  <2>1. n * d <= -n
    BY <1>2
  <2> QED BY <2>1
<1>3. CASE d = 0
  BY <1>3
<1> QED BY <1>1, <1>2, <1>3

LEMMA ModUnique ==
  ASSUME NEW n \in Nat \ {0}, NEW x \in Int, NEW q \in Int, NEW r \in 0 .. n - 1,
         x = n * q + r
  PROVE  x % n = r
<1> DEFINE p == x \div n
           s == x % n
<1>1. x = n * p + s /\ p \in Int /\ s \in 0 .. n - 1
  BY DivMod
<1> HIDE DEF p, s
<1>2. n * (p - q) = r - s
  BY <1>1
<1>3. r - s \in Int /\ r - s > -n /\ r - s < n /\ p - q \in Int
  BY <1>1
<1>4. r - s = 0
  <2> DEFINE d == p - q
             e == r - s
  <2>1. n * d = e /\ d \in Int /\ e \in Int /\ e > -n /\ e < n
    BY <1>2, <1>3
  <2> HIDE DEF d, e
  <2>2. e = 0
    BY <2>1, Product
  <2> QED BY <2>2 DEF e
<1>5. s = r
  BY <1>1, <1>4
<1> QED BY <1>5 DEF s

LEMMA ModAdd ==
  ASSUME NEW n \in Nat \ {0}, NEW x \in Int, NEW y \in Int
  PROVE  ((x % n) + y) % n = (x + y) % n
<1> DEFINE p == x \div n
           s == x % n
           z == s + y
           q == z \div n
           r == z % n
<1>1. x = n * p + s /\ p \in Int /\ s \in Int
  BY DivMod
<1>2. z \in Int
  BY <1>1
<1> HIDE DEF z
<1>3. z = n * q + r /\ q \in Int /\ r \in 0 .. n - 1
  BY <1>2, DivMod
<1>4. z = s + y
  BY DEF z
<1> HIDE DEF p, s, q, r
<1>5. x + y = n * (p + q) + r
  BY <1>1, <1>3, <1>4
<1>6. (x + y) % n = r
  <2> DEFINE w == x + y
             d == p + q
  <2>1. w = n * d + r /\ w \in Int /\ d \in Int
    BY <1>1, <1>3, <1>5
  <2> HIDE DEF w, d
  <2>2. w % n = r
    BY <2>1, <1>3, ModUnique
  <2> QED BY <2>2 DEF w
<1> QED BY <1>6, <1>4 DEF r, z, s

(* A half-word is the lower or the upper one of its word.                   *)
LEMMA Halve ==
  ASSUME NEW w \in Nat
  PROVE  /\ (2 * w) \div 2 = w /\ (2 * w + 1) \div 2 = w
         /\ ~Odd(2 * w) /\ Odd(2 * w + 1)
BY DEF Odd

LEMMA HalfParts ==
  ASSUME NEW h \in Halves
  PROVE  /\ h \div 2 \in Words
         /\ Odd(h) => h = 2 * (h \div 2) + 1
         /\ ~Odd(h) => h = 2 * (h \div 2)
<1> DEFINE w == h \div 2
           r == h % 2
<1>1. h = 2 * w + r /\ r \in 0 .. 1
  BY DivMod DEF Halves
<1>2. w \in Words
  BY DivWords
<1>3. Odd(h) <=> r = 1
  BY DEF Odd
<1> HIDE DEF w, r
<1>4. (Odd(h) => h = 2 * w + 1) /\ (~Odd(h) => h = 2 * w)
  BY <1>1, <1>2, <1>3 DEF Words
<1> QED BY <1>2, <1>4 DEF w

LEMMA WordParts ==
  ASSUME NEW w \in Words
  PROVE  /\ 2 * w \in Halves /\ 2 * w + 1 \in Halves
         /\ (2 * w) \div 2 = w /\ (2 * w + 1) \div 2 = w
         /\ ~Odd(2 * w) /\ Odd(2 * w + 1)
<1>1. w \in Nat /\ w <= NumWords - 1
  BY DEF Words
<1>2. 2 * w \in Halves /\ 2 * w + 1 \in Halves
  BY <1>1 DEF Halves
<1> QED BY <1>1, <1>2, Halve

(* The half-words behind those of a word.                                   *)
LEMMA Behind ==
  ASSUME NEW w \in Words
  PROVE  /\ (2 * w + 1) % (2 * NumWords) = 2 * w + 1
         /\ (2 * w + 2) % (2 * NumWords) = 2 * ((w + 1) % NumWords)
         /\ (2 * w + 3) % (2 * NumWords) = 2 * ((w + 1) % NumWords) + 1
<1> DEFINE m == 2 * NumWords
<1>1. m \in Nat \ {0} /\ NumWords \in Nat \ {0} /\ w \in 0 .. NumWords - 1
  BY DEF Words
<1>2. 2 * w + 1 \in 0 .. m - 1
  BY WordParts DEF Halves
<1>3. CASE w + 1 = NumWords
  <2>1. 2 * w + 2 = m /\ 2 * w + 3 = m * 1 + 1 /\ 1 \in 0 .. m - 1 /\ 2 * w + 3 \in Int
    BY <1>1, <1>3
  <2> HIDE DEF m
  <2>2. m % m = 0 /\ NumWords % NumWords = 0
    BY <1>1, ModSelf
  <2>3. (2 * w + 3) % m = 1
    BY <1>1, <2>1, ModUnique
  <2>4. (2 * w + 1) % m = 2 * w + 1
    BY <1>1, <1>2, ModSmall
  <2> QED BY <1>3, <2>1, <2>2, <2>3, <2>4 DEF m
<1>4. CASE w + 1 \in 0 .. NumWords - 1
  <2>1. 2 * w + 2 \in 0 .. m - 1 /\ 2 * w + 3 \in 0 .. m - 1
    BY <1>1, <1>4
  <2> HIDE DEF m
  <2>2. /\ (2 * w + 1) % m = 2 * w + 1 /\ (2 * w + 2) % m = 2 * w + 2
        /\ (2 * w + 3) % m = 2 * w + 3
    BY <1>1, <1>2, <2>1, ModSmall
  <2>3. (w + 1) % NumWords = w + 1
    BY <1>1, <1>4, ModSmall
  <2> QED BY <1>1, <2>2, <2>3 DEF m
<1> QED BY <1>1, <1>3, <1>4

-----------------------------------------------------------------------------
(* The fetch pc and the places of the half-words.                           *)

Base == TypeOK /\ RestartHeld /\ Started /\ Skew /\ Waiting /\ EvenRun
Push(ans) == fetch.state = "S_PENDING" /\ resp(ans)

LEMMA FetchPc ==
  ASSUME TypeOK, NEW ans, NEW reset \in BOOLEAN, FetchEngine(ans, reset)
  PROVE  /\ fetch.state = "S_RESTART" => fetch'.pc = ex.pc \div 2
         /\ fetch.state # "S_RESTART" =>
              fetch'.pc = IF Push(ans) THEN (fetch.pc + 1) % NumWords ELSE fetch.pc
         /\ fetch.state = "S_REQUEST" =>
              fetch'.pmp_err = (cfg.pmp /\ fetch.pc \in PmpWords)
         /\ fetch.state = "S_PENDING" /\ ~resp(ans) => fetch'.pmp_err = fetch.pmp_err
<1>1. fetch.state \in Fetch
  BY DEF TypeOK
<1>2. CASE fetch.state = "S_RESTART"
  BY <1>2 DEF FetchEngine, TypeOK
<1>3. CASE fetch.state = "S_REQUEST"
  BY <1>3 DEF FetchEngine, TypeOK, Push
<1>4. CASE fetch.state = "S_PENDING" /\ resp(ans)
  BY <1>4 DEF FetchEngine, TypeOK, Push
<1>5. CASE fetch.state = "S_PENDING" /\ ~resp(ans)
  BY <1>5 DEF FetchEngine, TypeOK, Push
<1>6. CASE fetch.state = "S_WAIT"
  BY <1>6 DEF FetchEngine, TypeOK, Push
<1> QED BY <1>1, <1>2, <1>3, <1>4, <1>5, <1>6 DEF Fetch

(* The word that is read is the one of the fetch pc.                        *)
LEMMA ReadingCycle ==
  ASSUME Base, Reading, NEW ans, FrontEnd(ans),
         ans \in Answers \/ (ans = NoAnswer /\ cfg.slow /\ open # NoWord)
  PROVE  Reading'
<1>1. PICK taken \in BOOLEAN :
        /\ FetchEngine(ans, Reset(taken)) /\ UNCHANGED cfg
        /\ open' = IF Strobe THEN fetch.pc ELSE IF ans.ack \/ ans.err THEN NoWord ELSE open
  BY DEF FrontEnd
<1> DEFINE reset == Reset(taken)
<1>2. reset \in BOOLEAN /\ FetchEngine(ans, reset) /\ fetch.state \in Fetch /\ TypeOK
  BY <1>1 DEF Reset, TypeOK, Base
<1> HIDE DEF reset
<1>3. CASE fetch.state = "S_REQUEST"
  <2>1. fetch'.pc = fetch.pc /\ fetch'.pmp_err = (cfg.pmp /\ fetch.pc \in PmpWords)
    BY <1>2, <1>3, FetchPc DEF Push
  <2> QED BY <1>1, <1>3, <2>1 DEF Reading, Strobe
<1>4. CASE fetch.state = "S_PENDING" /\ ~resp(ans)
  <2>1. fetch'.pc = fetch.pc /\ fetch'.pmp_err = fetch.pmp_err /\ ~ans.ack /\ ~ans.err
    BY <1>2, <1>4, FetchPc DEF Push, resp
  <2> QED BY <1>1, <1>4, <2>1 DEF Reading, Strobe
<1>5. CASE fetch.state \in {"S_RESTART", "S_WAIT"} \/ (fetch.state = "S_PENDING" /\ resp(ans))
  <2>1. fetch'.state # "S_PENDING"
    BY <1>2, <1>5, FetchStep DEF AfterFetch
  <2> QED BY <2>1 DEF Reading
<1> QED BY <1>2, <1>3, <1>4, <1>5 DEF Fetch

(* The first word of a buffer moves on with what is read.                   *)
Origin(i) == (fetch.pc - Len(ipb[i])) % NumWords
LEMMA OriginNext ==
  ASSUME Base, ~fetch.restart, NEW ans, Proper(ans), FrontEnd(ans), NEW i \in {0, 1},
         Push(ans) => we(i, ans)
  PROVE  LET r == IF re(i) THEN 1 ELSE 0
         IN  Origin(i)' = (fetch.pc - Len(ipb[i]) + r) % NumWords
<1>1. PICK taken \in BOOLEAN : FetchEngine(ans, Reset(taken)) /\ Buffers(ans)
  BY DEF FrontEnd
<1> DEFINE reset == Reset(taken)
<1>2. /\ reset \in BOOLEAN /\ FetchEngine(ans, reset) /\ TypeOK
      /\ fetch.state # "S_RESTART" /\ fetch.pc \in Int /\ NumWords \in Nat \ {0}
  <2>1. reset \in BOOLEAN /\ FetchEngine(ans, reset)
    BY <1>1 DEF Reset
  <2>2. TypeOK /\ fetch.state # "S_RESTART"
    BY DEF Base, RestartHeld
  <2>3. fetch.pc \in Words
    BY <2>2 DEF TypeOK
  <2> QED BY <2>1, <2>2, <2>3 DEF Words
<1> HIDE DEF reset
<1> DEFINE r == IF re(i) THEN 1 ELSE 0
           w == IF we(i, ans) THEN 1 ELSE 0
           l == Len(ipb[i])
<1>3. Len(ipb'[i]) = l - r + w /\ l \in Nat /\ r \in {0, 1} /\ w \in {0, 1}
  BY <1>1, <1>2, BuffersStep, LeftType
<1>4. fetch'.pc = IF Push(ans) THEN (fetch.pc + 1) % NumWords ELSE fetch.pc
  BY <1>2, FetchPc
<1>5. CASE Push(ans)
  <2>1. w = 1
    BY <1>5
  <2> HIDE DEF r, w, l
  <2>2. Origin(i)' = (((fetch.pc + 1) % NumWords) + (r - l - 1)) % NumWords
    <3> DEFINE p == (fetch.pc + 1) % NumWords
    <3>1. p \in Int
      <4>1. fetch.pc + 1 \in Int
        BY <1>2
      <4> QED BY <1>2, <4>1, ModWord
    <3>2. Origin(i)' = (p - (l - r + 1)) % NumWords
      BY <1>3, <1>4, <1>5, <2>1 DEF Origin
    <3> HIDE DEF p
    <3>3. p - (l - r + 1) = p + (r - l - 1)
      BY <1>3, <3>1
    <3> QED BY <3>2, <3>3 DEF p
  <2>3. fetch.pc + 1 \in Int /\ r - l - 1 \in Int
    BY <1>2, <1>3
  <2>4. Origin(i)' = ((fetch.pc + 1) + (r - l - 1)) % NumWords
    BY <1>2, <2>2, <2>3, ModAdd
  <2>5. (fetch.pc + 1) + (r - l - 1) = fetch.pc - l + r
    <3> DEFINE p == fetch.pc
    <3>1. p \in Int /\ r \in Int /\ l \in Int
      BY <1>2, <1>3
    <3> HIDE DEF p
    <3>2. (p + 1) + (r - l - 1) = p - l + r
      BY <3>1
    <3> QED BY <3>2 DEF p
  <2> QED BY <2>4, <2>5 DEF r, l
<1>6. CASE ~Push(ans)
  <2>1. w = 0
    BY <1>6 DEF we, Push
  <2> HIDE DEF r, w, l
  <2>2. Origin(i)' = (fetch.pc - (l - r)) % NumWords
    BY <1>3, <1>4, <1>6, <2>1 DEF Origin
  <2>3. fetch.pc - (l - r) = fetch.pc - l + r
    BY <1>2, <1>3
  <2> QED BY <2>2, <2>3 DEF r, l
<1> QED BY <1>5, <1>6

(* Where the entries of a buffer come from.                                 *)
Popped(i) == IF re(i) THEN 1 ELSE 0
LEMMA EntryNext ==
  ASSUME TypeOK, ~fetch.restart, NEW ans, Proper(ans), Buffers(ans), NEW i \in {0, 1}
  PROVE  \E long \in BOOLEAN :
           /\ Len(ipb'[i]) = Len(ipb[i]) - Popped(i) + (IF we(i, ans) THEN 1 ELSE 0)
           /\ \A k \in 1 .. Len(ipb[i]) - Popped(i) : ipb'[i][k] = ipb[i][k + Popped(i)]
           /\ we(i, ans) => ipb'[i][Len(ipb[i]) - Popped(i) + 1] = wdata(i, ans, long)
<1>1. PICK long \in BOOLEAN \X BOOLEAN :
        ipb' = [j \in {0, 1} |-> IF fetch.restart THEN <<>>
                                 ELSE Left(j) \o Written(j, ans, long[j + 1])]
  <2>1. <<FALSE, FALSE>> \in BOOLEAN \X BOOLEAN
    OBVIOUS
  <2>2. PICK long \in IF ans.ack THEN {<<FALSE, FALSE>>} ELSE BOOLEAN \X BOOLEAN :
          ipb' = [j \in {0, 1} |-> IF fetch.restart THEN <<>>
                                   ELSE Left(j) \o Written(j, ans, long[j + 1])]
    BY DEF Buffers, NextBuffers, Left, Written
  <2>3. long \in BOOLEAN \X BOOLEAN
    BY <2>1
  <2> QED BY <2>2, <2>3
<1> DEFINE b == ipb[i]
           p == Popped(i)
           l == Left(i)
           d == wdata(i, ans, long[i + 1])
           w == Written(i, ans, long[i + 1])
<1>2. ipb'[i] = l \o w /\ long[i + 1] \in BOOLEAN
  BY <1>1
<1>3. b \in Seq(Entries) /\ d \in Entries
  BY <1>2, EntryType DEF TypeOK
<1>4. w = (IF we(i, ans) THEN <<d>> ELSE <<>>)
  BY DEF Written
<1>5. l = (IF re(i) THEN Tail(b) ELSE b) /\ (re(i) => b # <<>>) /\ p = (IF re(i) THEN 1 ELSE 0)
  BY LeftType DEF Left, Popped
<1>6. /\ Len(ipb'[i]) = Len(ipb[i]) - Popped(i) + (IF we(i, ans) THEN 1 ELSE 0)
      /\ Len(b) \in Nat
  BY BuffersStep, LeftType DEF Popped
<1> HIDE DEF b, p, l, d, w
<1>7. l \in Seq(Entries) /\ Len(l) = Len(b) - p /\ p \in {0, 1}
      /\ \A k \in 1 .. Len(b) - p : l[k] = b[k + p]
  <2>1. CASE re(i)
    BY <2>1, <1>3, <1>5, HeadTailProperties
  <2>2. CASE ~re(i)
    BY <2>2, <1>3, <1>5
  <2> QED BY <2>1, <2>2
<1>8. w \in Seq(Entries)
  BY <1>3, <1>4
<1>9. \A k \in 1 .. Len(b) - p : ipb'[i][k] = b[k + p]
  BY <1>2, <1>7, <1>8, ConcatProperties
<1>10. we(i, ans) => ipb'[i][Len(b) - p + 1] = d
  <2> SUFFICES ASSUME we(i, ans) PROVE ipb'[i][Len(b) - p + 1] = d
    OBVIOUS
  <2>1. w = <<d>> /\ Len(w) = 1 /\ w[1] = d
    BY <1>4
  <2>2. Len(l) \in Nat /\ Len(l) + 1 \in 1 .. Len(l) + Len(w) /\ ~(Len(l) + 1 <= Len(l))
    BY <1>7, <2>1
  <2>3. (l \o w)[Len(l) + 1] = w[Len(l) + 1 - Len(l)]
    BY <1>7, <1>8, <2>2, ConcatProperties
  <2>4. Len(l) + 1 - Len(l) = 1
    BY <2>2
  <2> QED BY <1>2, <1>7, <2>1, <2>3, <2>4
<1> QED BY <1>2, <1>6, <1>9, <1>10 DEF b, p, d

(* An upper half-word is always stored, a lower one unless it is empty.     *)
LEMMA PushStores ==
  ASSUME Base, ~fetch.restart, NEW ans, NEW i \in {0, 1}, Push(ans),
         ipb[i] # <<>> \/ i = 1 \/ ~cfg.c
  PROVE  we(i, ans)
BY DEF Base, Started, Push, we

(* The places of the entries that stay, and that of a new one.              *)
LEMMA PlaceNext ==
  ASSUME Base, ~fetch.restart, NEW ans, Proper(ans), FrontEnd(ans), NEW i \in {0, 1},
         Push(ans) => we(i, ans)
  PROVE  /\ \A k \in Int : Place(i, k)' = Place(i, k + Popped(i))
         /\ \A k \in Int : k = Len(ipb[i]) - Popped(i) + 1 => Place(i, k)' = 2 * fetch.pc + i
<1> DEFINE p == fetch.pc
           l == Len(ipb[i])
           r == Popped(i)
           o == Origin(i)'
<1>1. o = (p - l + r) % NumWords
  BY OriginNext DEF Popped
<1>2. p \in Words /\ l \in Nat /\ r \in {0, 1}
  BY LeftType DEF Base, TypeOK, Popped
<1>3. p \in 0 .. NumWords - 1 /\ p \in Int /\ NumWords \in Nat \ {0}
  BY <1>2 DEF Words
<1>4. ASSUME NEW k \in Int
      PROVE  Place(i, k)' = 2 * ((p - l + r + (k - 1)) % NumWords) + i
  <2> DEFINE q == fetch'.pc - Len(ipb'[i])
  <2>1. q \in Int
    <3>1. TypeOK' 
      BY CycleType DEF Base
    <3>2. fetch'.pc \in Words /\ ipb'[i] \in Seq(Entries)
      BY <3>1 DEF TypeOK
    <3>3. Len(ipb'[i]) \in Nat
      BY <3>2
    <3> QED BY <3>2, <3>3 DEF Words
  <2>2. o = q % NumWords
    BY DEF Origin
  <2>6. Place(i, k)' = 2 * ((q + (k - 1)) % NumWords) + i
    BY DEF Place
  <2> HIDE DEF q, o, p, l, r
  <2>3. (o + (k - 1)) % NumWords = (q + (k - 1)) % NumWords
    <3> DEFINE y == k - 1
    <3>1. y \in Int
      OBVIOUS
    <3> HIDE DEF y
    <3>2. ((q % NumWords) + y) % NumWords = (q + y) % NumWords
      BY <1>3, <2>1, <3>1, ModAdd
    <3> QED BY <2>2, <3>2 DEF y
  <2>4. p - l + r \in Int
    BY <1>2, <1>3
  <2>5. (o + (k - 1)) % NumWords = ((p - l + r) + (k - 1)) % NumWords
    BY <1>1, <1>3, <2>4, ModAdd
  <2> QED BY <2>3, <2>5, <2>6
<1>5. ASSUME NEW k \in Int PROVE Place(i, k)' = Place(i, k + r)
  <2>1. Place(i, k + r) = 2 * ((p - l + ((k + r) - 1)) % NumWords) + i
    BY DEF Place
  <2> HIDE DEF p, l, r
  <2>2. p - l + ((k + r) - 1) = p - l + r + (k - 1)
    BY <1>2, <1>3
  <2> QED BY <1>4, <2>1, <2>2
<1>6. ASSUME NEW k \in Int, k = Len(ipb[i]) - Popped(i) + 1
      PROVE  Place(i, k)' = 2 * fetch.pc + i
  <2>1. Place(i, k)' = 2 * ((p - l + r + (k - 1)) % NumWords) + i
    BY <1>4
  <2>2. p - l + r + (k - 1) = p
    <3>1. k = l - r + 1
      BY <1>6
    <3> HIDE DEF p, l, r
    <3> QED BY <1>2, <1>3, <3>1
  <2>3. p % NumWords = p
    BY <1>3, ModSmall
  <2> QED BY <2>1, <2>2, <2>3
<1> QED BY <1>5, <1>6

(* A new entry is the half-word of the word that was read.                  *)
Brought(ans) == ans \in Answers \/ (ans = NoAnswer /\ cfg.slow /\ open # NoWord)
LEMMA RightNew ==
  ASSUME Base, Reading, Answered, NEW ans, Proper(ans), Brought(ans), Push(ans),
         NEW i \in {0, 1}, NEW long \in BOOLEAN
  PROVE  Right(wdata(i, ans, long), 2 * fetch.pc + i)
<1> DEFINE h == 2 * fetch.pc + i
           e == wdata(i, ans, long)
<1>1. fetch.state = "S_PENDING" /\ open = fetch.pc /\ fetch.pc \in Words /\ open # NoWord
      /\ fetch.pmp_err = (cfg.pmp /\ fetch.pc \in PmpWords)
  BY DEF Push, Reading, Base, TypeOK, Waiting
<1>2. h \div 2 = fetch.pc
  <2>1. CASE i = 0
    <3>1. h = 2 * fetch.pc
      BY <2>1, <1>1 DEF Words
    <3> QED BY <3>1, <1>1, WordParts
  <2>2. CASE i = 1
    <3>1. h = 2 * fetch.pc + 1
      BY <2>2
    <3> QED BY <3>1, <1>1, WordParts
  <2> QED BY <2>1, <2>2
<1>3. ans.ack \/ ans.err
  <2>1. CASE cfg.slow
    <3>1. ~fetch.pmp_err
      BY <2>1 DEF Base, Waiting
    <3>2. ~a_err
      BY <2>1 DEF Answered, Base, EvenRun, Uncompressed, a_err, TypeOK
    <3> QED BY <3>1, <3>2 DEF Push, resp
  <2>2. CASE ~cfg.slow
    BY <1>1, <2>2 DEF Brought, Answers, NoAnswer
  <2> QED BY <2>1, <2>2
<1>4. /\ ans.err => fetch.pc \in FaultWords
      /\ ans.ack => ans.word = fetch.pc
  BY <1>1 DEF Brought, Answers, NoAnswer
<1>5. /\ e.be = (ans.err \/ fetch.pmp_err)
      /\ ans.ack => e.adr = h /\ e.long = (h \in cfg.long)
  BY <1>4 DEF wdata
<1> HIDE DEF h, e
<1>6. ASSUME e.be PROVE MayFail(h)
  <2>1. ans.err \/ (cfg.pmp /\ fetch.pc \in PmpWords)
    BY <1>1, <1>5, <1>6
  <2> QED BY <1>2, <1>4, <2>1 DEF MayFail
<1>7. ASSUME ~e.be PROVE e.adr = h /\ e.long = (h \in cfg.long) /\ ~Barred(h)
  <2>1. ~ans.err /\ ~(cfg.pmp /\ fetch.pc \in PmpWords)
    BY <1>1, <1>5, <1>7
  <2> QED BY <1>2, <1>3, <1>5, <2>1 DEF Barred
<1> QED BY <1>6, <1>7 DEF Right, h, e

LEMMA ContentsCycle ==
  ASSUME Base, Reading, Contents, Answered, NEW ans, Proper(ans), FrontEnd(ans), Brought(ans)
  PROVE  Contents'
<1> SUFFICES ASSUME ~fetch'.restart, NEW i \in {0, 1}, NEW k \in 1 .. Len(ipb'[i])
             PROVE  Right(ipb[i][k], Place(i, k))'
  BY DEF Contents
<1>1. PICK taken \in BOOLEAN : FetchEngine(ans, Reset(taken)) /\ Buffers(ans) /\ UNCHANGED cfg
  BY DEF FrontEnd
<1>2. TypeOK /\ RestartHeld
  BY DEF Base
<1>3. CASE fetch.restart
  BY <1>1, <1>2, <1>3, BuffersStep
<1>4. CASE ~fetch.restart
  <2> DEFINE l == Len(ipb[i])
             r == Popped(i)
             w == IF we(i, ans) THEN 1 ELSE 0
  <2>1. PICK long \in BOOLEAN :
          /\ Len(ipb'[i]) = l - r + w
          /\ \A j \in 1 .. l - r : ipb'[i][j] = ipb[i][j + r]
          /\ we(i, ans) => ipb'[i][l - r + 1] = wdata(i, ans, long)
    BY <1>1, <1>2, <1>4, EntryNext
  <2>2. l \in Nat /\ r \in {0, 1} /\ r <= l
    BY <1>2, LeftType, EmptySeq DEF Popped, TypeOK
  <2>3. Push(ans) => we(i, ans)
    <3>1. CASE ipb[i] = <<>>
      <4>1. l = 0 /\ r = 0
        BY <3>1, <2>2
      <4> HIDE DEF l, r
      <4>2. w = 1
        <5> QED BY <2>1, <4>1
      <4> QED BY <4>2
    <3> QED BY <1>4, <3>1, PushStores
  <2>4. /\ \A j \in Int : Place(i, j)' = Place(i, j + r)
        /\ \A j \in Int : j = l - r + 1 => Place(i, j)' = 2 * fetch.pc + i
    BY <1>4, <2>3, PlaceNext
  <2>5. CASE k \in 1 .. l - r
    <3>1. ipb'[i][k] = ipb[i][k + r] /\ Place(i, k)' = Place(i, k + r)
      BY <2>1, <2>4, <2>5
    <3>2. k + r \in 1 .. l
      <4> HIDE DEF l, r
      <4> QED BY <2>2, <2>5
    <3>3. Right(ipb[i][k + r], Place(i, k + r))
      BY <1>4, <3>2 DEF Contents
    <3> HIDE DEF Place, l, r
    <3> QED BY <1>1, <3>1, <3>3 DEF Right, MayFail, Barred
  <2>6. CASE k = l - r + 1 /\ we(i, ans)
    <3>1. ipb'[i][k] = wdata(i, ans, long) /\ Place(i, k)' = 2 * fetch.pc + i
      BY <2>1, <2>4, <2>6
    <3>2. Push(ans)
      BY <2>6 DEF we, Push
    <3>3. Right(wdata(i, ans, long), 2 * fetch.pc + i)
      BY <3>2, RightNew
    <3> HIDE DEF Place, l, r
    <3> QED BY <1>1, <3>1, <3>3 DEF Right, MayFail, Barred
  <2>7. k \in 1 .. l - r \/ (k = l - r + 1 /\ we(i, ans))
    <3> HIDE DEF l, r
    <3>1. CASE we(i, ans)
      BY <2>1, <2>2, <3>1
    <3>2. CASE ~we(i, ans)
      BY <2>1, <2>2, <3>2
    <3> QED BY <3>1, <3>2
  <2> QED BY <2>5, <2>6, <2>7
<1> QED BY <1>3, <1>4

(* The alignment faults of a program without compressed instructions.       *)
LEMMA MisalignmentCycle ==
  ASSUME Base, Misalignment, NEW ans, Proper(ans), FrontEnd(ans)
  PROVE  Misalignment'
<1>1. PICK taken \in BOOLEAN :
        FetchEngine(ans, Reset(taken)) /\ Buffers(ans) /\ IssueEngine /\ UNCHANGED cfg
  BY DEF FrontEnd
<1> SUFFICES ASSUME ~cfg.c PROVE Misalignment'
  BY <1>1 DEF Misalignment
<1> DEFINE reset == Reset(taken)
<1>2. reset \in BOOLEAN /\ FetchEngine(ans, reset)
  BY <1>1 DEF Reset
<1> HIDE DEF reset
<1>3. TypeOK /\ RestartHeld /\ fetch.state \in Fetch /\ ipb' \in [{0, 1} -> Seq(Entries)]
  BY <1>1, BuffersStep DEF Base, TypeOK
<1>4. ~align'
  BY <1>1 DEF IssueEngine
<1>5. CASE fetch.restart
  <2>1. ipb'[0] = <<>> /\ ipb'[1] = <<>>
    BY <1>1, <1>3, <1>5, BuffersStep
  <2> QED BY <1>4, <2>1 DEF Misalignment
<1>6. CASE ~fetch.restart
  <2>1. /\ fetch.unaligned => ipb[0] = <<>> /\ ipb[1] = <<>>
        /\ \A i \in {0, 1} : \A k \in 1 .. Len(ipb[i]) : ipb[i][k].ma => k = 1
        /\ ipb[0] # <<>> => ipb[0][1].ma = ipb[1][1].ma
    BY <1>6 DEF Misalignment
  <2>2. /\ Popped(0) = Popped(1) /\ Popped(0) \in {0, 1}
        /\ we(0, ans) <=> Push(ans)
        /\ we(1, ans) <=> Push(ans)
    BY <1>1, <1>3, <1>6, ReadStep DEF Popped, we, Push
  <2>3. a_err = fetch.unaligned /\ Len(ipb[1]) = Len(ipb[0])
    BY <1>3, <1>6 DEF a_err, Base, Skew, TypeOK
  <2> DEFINE l == Len(ipb[0])
             r == Popped(0)
             w == IF Push(ans) THEN 1 ELSE 0
  <2>4. \A i \in {0, 1} :
          /\ Len(ipb'[i]) = l - r + w
          /\ \A k \in 1 .. l - r : ipb'[i][k] = ipb[i][k + r]
          /\ Push(ans) => ipb'[i][l - r + 1].ma = a_err
    <3> SUFFICES ASSUME NEW i \in {0, 1}
                 PROVE  /\ Len(ipb'[i]) = l - r + w
                        /\ \A k \in 1 .. l - r : ipb'[i][k] = ipb[i][k + r]
                        /\ Push(ans) => ipb'[i][l - r + 1].ma = a_err
      OBVIOUS
    <3>1. PICK long \in BOOLEAN :
            /\ Len(ipb'[i]) = Len(ipb[i]) - Popped(i) + (IF we(i, ans) THEN 1 ELSE 0)
            /\ \A k \in 1 .. Len(ipb[i]) - Popped(i) : ipb'[i][k] = ipb[i][k + Popped(i)]
            /\ we(i, ans) => ipb'[i][Len(ipb[i]) - Popped(i) + 1] = wdata(i, ans, long)
      BY <1>1, <1>3, <1>6, EntryNext
    <3>2. Len(ipb[i]) = l /\ Popped(i) = r /\ (we(i, ans) <=> Push(ans))
      BY <2>2, <2>3
    <3>3. wdata(i, ans, long).ma = a_err
      BY DEF wdata
    <3> HIDE DEF l, r
    <3> QED BY <3>1, <3>2, <3>3
  <2>5. l \in Nat /\ r \in {0, 1} /\ r <= l
    BY <1>3, LeftType, EmptySeq DEF Popped, TypeOK
  <2>6. fetch.unaligned => l = 0
    BY <2>1
  <2>7. /\ fetch'.unaligned => fetch.unaligned /\ ~Push(ans)
    BY <1>2, <1>3, <1>6, FetchStep DEF RestartHeld, Push, Fetch
  <2> HIDE DEF l, r
  <2>8. ASSUME fetch'.unaligned PROVE ipb'[0] = <<>> /\ ipb'[1] = <<>>
    <3>1. Len(ipb'[0]) = 0 /\ Len(ipb'[1]) = 0
      BY <2>4, <2>5, <2>6, <2>7, <2>8
    <3> QED BY <1>3, <3>1, EmptySeq
  <2>9. ASSUME NEW i \in {0, 1}, NEW k \in 1 .. Len(ipb'[i]), ipb'[i][k].ma PROVE k = 1
    <3>1. CASE k \in 1 .. l - r
      <4>1. ipb[i][k + r].ma /\ k + r \in 1 .. l
        BY <2>4, <2>5, <2>9, <3>1
      <4>2. k + r = 1
        BY <2>1, <2>3, <4>1 DEF l
      <4> QED BY <2>5, <3>1, <4>2
    <3>2. CASE k = l - r + 1 /\ Push(ans)
      <4>1. l = 0
        BY <2>3, <2>4, <2>6, <2>9, <3>2
      <4> QED BY <2>5, <3>2, <4>1
    <3>3. k \in 1 .. l - r \/ (k = l - r + 1 /\ Push(ans))
      BY <2>4, <2>5
    <3> QED BY <3>1, <3>2, <3>3
  <2>10. ASSUME ipb'[0] # <<>> PROVE ipb'[0][1].ma = ipb'[1][1].ma
    <3>1. CASE l - r >= 1
      <4>1. ipb'[0][1] = ipb[0][1 + r] /\ ipb'[1][1] = ipb[1][1 + r]
        BY <2>4, <2>5, <3>1
      <4>2. CASE r = 0
        <5>1. ipb[0] # <<>>
          BY <2>5, <3>1, <4>2 DEF l
        <5> QED BY <2>1, <4>1, <4>2, <5>1
      <4>3. CASE r = 1
        <5>1. 2 \in 1 .. Len(ipb[0]) /\ 2 \in 1 .. Len(ipb[1])
          BY <2>3, <2>5, <3>1, <4>3 DEF l
        <5>2. ~ipb[0][2].ma /\ ~ipb[1][2].ma
          BY <2>1, <5>1
        <5>3. ipb[0][2].ma \in BOOLEAN /\ ipb[1][2].ma \in BOOLEAN
          <6>1. ipb[0][2] \in Entries /\ ipb[1][2] \in Entries
            BY <1>3, <5>1, ElementOfSeq DEF TypeOK
          <6> QED BY <6>1 DEF Entries
        <5> QED BY <4>1, <4>3, <5>2, <5>3
      <4> QED BY <2>5, <4>2, <4>3
    <3>2. CASE l - r = 0
      <4>1. Push(ans)
        <5>1. Len(ipb'[0]) # 0
          BY <1>3, <2>10, EmptySeq
        <5> QED BY <2>4, <2>5, <3>2, <5>1
      <4>2. ipb'[0][1].ma = a_err /\ ipb'[1][1].ma = a_err
        BY <2>4, <2>5, <3>2, <4>1
      <4> QED BY <4>2
    <3> QED BY <2>5, <3>1, <3>2
  <2> QED BY <1>4, <2>8, <2>9, <2>10 DEF Misalignment
<1> QED BY <1>5, <1>6

-----------------------------------------------------------------------------
(* What comes next out of the buffers.                                      *)

LEMMA OriginType ==
  ASSUME TypeOK, NEW i \in {0, 1}
  PROVE  Origin(i) \in Words /\ Place(i, 1) = 2 * Origin(i) + i
<1> DEFINE p == fetch.pc
           l == Len(ipb[i])
           q == p - l
<1>1. p \in Words /\ l \in Nat
  BY LeftType DEF TypeOK
<1>2. q \in Int /\ q + (1 - 1) = q
  <2> HIDE DEF p, l
  <2> QED BY <1>1 DEF Words
<1>3. Origin(i) = q % NumWords /\ Place(i, 1) = 2 * ((q + (1 - 1)) % NumWords) + i
  BY DEF Origin, Place
<1> HIDE DEF q
<1>4. q % NumWords \in 0 .. NumWords - 1
  BY <1>2, ModWord
<1> QED BY <1>2, <1>3, <1>4 DEF Words

LEMMA FirstType ==
  ASSUME TypeOK
  PROVE  first \in {0, 1} /\ (first = 1 <=> align)
BY DEF TypeOK, first

(* Nothing is issued: it stays what it is.                                  *)
LEMMA NextIsStays ==
  ASSUME Base, Misalignment, ~fetch.restart, NEW ans, Proper(ans), FrontEnd(ans),
         ~re(0), ~re(1), NEW n, NextIs(n)
  PROVE  NextIs(n)'
<1>1. PICK taken \in BOOLEAN :
        FetchEngine(ans, Reset(taken)) /\ Buffers(ans) /\ IssueEngine /\ UNCHANGED cfg
  BY DEF FrontEnd
<1> DEFINE reset == Reset(taken)
<1>2. reset \in BOOLEAN /\ FetchEngine(ans, reset)
  BY <1>1 DEF Reset
<1> HIDE DEF reset
<1>3. TypeOK /\ TypeOK' /\ fetch.state \in Fetch /\ fetch.state # "S_RESTART"
  BY CycleType DEF Base, RestartHeld, TypeOK
<1>4. align' = align
  <2>1. CASE cfg.c
    BY <1>1, <1>3, <2>1, ReadStep
  <2>2. CASE ~cfg.c
    BY <1>1, <1>3, <2>2 DEF IssueEngine, Misalignment, TypeOK
  <2> QED BY <2>1, <2>2
<1>5. PICK i \in {0, 1} : i = first
  BY <1>3, FirstType
<1>6. first' = i
  BY <1>4, <1>5 DEF first
<1>7. Push(ans) => we(i, ans)
  <2>1. CASE i = 1 \/ ~cfg.c
    BY <2>1 DEF Push, we
  <2>2. CASE i = 0 /\ cfg.c
    <3>1. ~fetch.unaligned
      BY <1>3, <1>5, <2>2, FirstType DEF Base, Started
    <3> QED BY <3>1 DEF Push, we
  <2> QED BY <2>1, <2>2
<1>8. Origin(i)' = Origin(i)
  <2>1. ~re(i)
    OBVIOUS
  <2>2. Origin(i)' = (fetch.pc - Len(ipb[i]) + 0) % NumWords
    BY <1>7, <2>1, OriginNext
  <2>3. fetch.pc \in Int /\ Len(ipb[i]) \in Int
    BY <1>3, LeftType DEF TypeOK, Words
  <2>4. fetch.pc - Len(ipb[i]) + 0 = fetch.pc - Len(ipb[i])
    BY <2>3
  <2> QED BY <2>2, <2>4 DEF Origin
<1>9. ASSUME ~cfg.c PROVE Misaligned' <=> Misaligned
  <2>1. fetch.unaligned => ipb[0] = <<>>
    BY <1>9 DEF Misalignment
  <2>2. CASE ipb[0] # <<>>
    <3>1. ~fetch.unaligned /\ ~fetch'.unaligned
      BY <1>2, <1>3, <2>1, <2>2, FetchStep DEF Fetch
    <3>2. ipb'[0] # <<>> /\ ipb'[0][1] = ipb[0][1]
      <4>1. Popped(0) = 0
        BY DEF Popped
      <4>2. Len(ipb[0]) \in Nat /\ Len(ipb[0]) # 0 /\ ipb'[0] \in Seq(Entries)
        BY <1>3, <2>2, LeftType, EmptySeq DEF TypeOK
      <4>3. /\ Len(ipb'[0]) = Len(ipb[0]) - 0 + (IF we(0, ans) THEN 1 ELSE 0)
            /\ \A k \in 1 .. Len(ipb[0]) - 0 : ipb'[0][k] = ipb[0][k + 0]
        BY <1>1, <1>3, <4>1, EntryNext
      <4>4. Len(ipb'[0]) # 0
        <5> DEFINE w == IF we(0, ans) THEN 1 ELSE 0
        <5>1. w \in {0, 1} /\ Len(ipb'[0]) = Len(ipb[0]) - 0 + w
          BY <4>3
        <5> HIDE DEF w
        <5> QED BY <4>2, <5>1
      <4>5. ipb'[0] # <<>>
        BY <4>2, <4>4, EmptySeq
      <4> QED BY <4>2, <4>3, <4>5
    <3> QED BY <2>2, <3>1, <3>2 DEF Misaligned
  <2>3. CASE ipb[0] = <<>>
    <3>1. Popped(0) = 0 /\ Len(ipb[0]) = 0
      BY <2>3 DEF Popped
    <3>2. PICK long \in BOOLEAN :
            /\ Len(ipb'[0]) = 0 - 0 + (IF we(0, ans) THEN 1 ELSE 0)
            /\ we(0, ans) => ipb'[0][0 - 0 + 1] = wdata(0, ans, long)
      BY <1>1, <1>3, <3>1, EntryNext
    <3>3. ipb'[0] \in Seq(Entries)
      BY <1>3 DEF TypeOK
    <3>4. CASE Push(ans)
      <4>1. we(0, ans)
        BY <1>9, <3>4 DEF Push, we
      <4>2. ipb'[0] # <<>>
        BY <3>2, <4>1
      <4>3. ipb'[0][1].ma = a_err
        BY <3>2, <4>1 DEF wdata
      <4>4. ~fetch'.unaligned
        BY <1>2, <1>3, <3>4, FetchStep DEF Push
      <4>5. a_err = fetch.unaligned
        BY <1>3, <1>9 DEF a_err, TypeOK
      <4> QED BY <2>3, <4>2, <4>3, <4>4, <4>5 DEF Misaligned
    <3>5. CASE ~Push(ans)
      <4>1. ~we(0, ans)
        BY <3>5 DEF Push, we
      <4>2. ipb'[0] = <<>>
        BY <3>2, <3>3, <4>1, EmptySeq
      <4>3. fetch'.unaligned = fetch.unaligned
        BY <1>2, <1>3, <3>5, FetchStep DEF Push, Fetch
      <4> QED BY <2>3, <4>2, <4>3 DEF Misaligned
    <3> QED BY <3>4, <3>5
  <2> QED BY <2>2, <2>3
<1>10. n \div 2 = Origin(i) /\ (Odd(n) <=> IF cfg.c THEN align ELSE Misaligned)
  BY <1>5 DEF NextIs, Origin
<1>11. Odd(n) <=> IF cfg.c THEN align' ELSE Misaligned'
  BY <1>4, <1>9, <1>10
<1>12. n \div 2 = (fetch'.pc - Len(ipb'[first'])) % NumWords
  BY <1>6, <1>8, <1>10 DEF Origin
<1> HIDE DEF Misaligned
<1> QED BY <1>1, <1>11, <1>12 DEF NextIs

(* The places of the half-words that are on the read ports.                 *)
LEMMA Ports ==
  ASSUME Base, Misalignment, ~fetch.restart, valid # {}, NEW n \in Halves, NextIs(n),
         ~cfg.c => ~Odd(n)
  PROVE  /\ ~fetch.unaligned
         /\ Odd(n) <=> align
         /\ Place(first, 1) = n
         /\ avail(first)
         /\ ~Compressed => avail(1 - first) /\ Place(1 - first, 1) = (n + 1) % (2 * NumWords)
         /\ Compressed => valid = {first}
         /\ ~Compressed => valid = {0, 1}
         /\ n \div 2 = Origin(first)
         /\ align => Origin(0) = (Origin(1) + 1) % NumWords
         /\ ~align => Origin(0) = Origin(1)
<1>1. TypeOK /\ cfg.c \in BOOLEAN /\ align \in BOOLEAN
  BY DEF Base, TypeOK
<1>2. first \in {0, 1} /\ (first = 1 <=> align) /\ avail(first)
  BY <1>1, FirstType DEF valid
<1>3. (Compressed => valid = {first}) /\ (~Compressed => valid = {0, 1} /\ avail(1 - first))
  BY DEF valid
<1>4. ~fetch.unaligned
  <2>1. ipb[0] # <<>> \/ ipb[1] # <<>>
    BY <1>2 DEF avail
  <2> QED BY <1>1, <2>1 DEF Base, Started, Misalignment
<1>5. ~cfg.c => ~align
  BY DEF Misalignment
<1>6. Odd(n) <=> align
  BY <1>5 DEF NextIs
<1>7. /\ Origin(0) \in Words /\ Origin(1) \in Words
      /\ Place(0, 1) = 2 * Origin(0) /\ Place(1, 1) = 2 * Origin(1) + 1
  BY <1>1, OriginType DEF Words
<1>8. n \div 2 = Origin(first)
  BY DEF NextIs, Origin
<1>9. /\ Odd(n) => n = 2 * (n \div 2) + 1
      /\ ~Odd(n) => n = 2 * (n \div 2)
  BY HalfParts
<1> DEFINE p == fetch.pc
           l0 == Len(ipb[0])
           l1 == Len(ipb[1])
<1>10. /\ p \in Int /\ l0 \in Nat /\ l1 \in Nat
       /\ Origin(0) = (p - l0) % NumWords /\ Origin(1) = (p - l1) % NumWords
  BY <1>1, LeftType DEF Origin, TypeOK, Words
<1>11. l1 - l0 = IF align THEN 1 ELSE 0
  <2>1. CASE cfg.c
    BY <1>4, <2>1 DEF Base, Skew
  <2>2. CASE ~cfg.c
    <3>1. l1 = l0 /\ ~align
      BY <1>5, <2>2 DEF Base, Skew
    <3> HIDE DEF l0, l1
    <3> QED BY <1>10, <3>1
  <2> QED BY <2>1, <2>2
<1> HIDE DEF p, l0, l1
<1>12. align => Origin(0) = (Origin(1) + 1) % NumWords
  <2> SUFFICES ASSUME align PROVE Origin(0) = (Origin(1) + 1) % NumWords
    OBVIOUS
  <2> DEFINE q == p - l1
  <2>1. q \in Int /\ q + 1 = p - l0
    BY <1>10, <1>11
  <2>2. Origin(1) = q % NumWords
    BY <1>10
  <2> HIDE DEF q
  <2> DEFINE y == 1
  <2>3. y \in Int /\ NumWords \in Nat \ {0}
    OBVIOUS
  <2> HIDE DEF y
  <2>4. ((q % NumWords) + y) % NumWords = (q + y) % NumWords
    BY <2>1, <2>3, ModAdd
  <2> QED BY <1>10, <2>1, <2>2, <2>4 DEF y
<1>13. ~align => Origin(0) = Origin(1)
  BY <1>10, <1>11
<1>14. CASE align
  <2>1. first = 1 /\ n = 2 * Origin(1) + 1 /\ 1 - first = 0
    BY <1>2, <1>6, <1>8, <1>9, <1>14
  <2>2. n + 1 = 2 * Origin(1) + 2
    BY <1>7, <2>1 DEF Words
  <2>3. (n + 1) % (2 * NumWords) = 2 * Origin(0)
    BY <1>7, <1>12, <1>14, <2>2, Behind
  <2> HIDE DEF Place, Origin
  <2> QED BY <1>2, <1>3, <1>4, <1>6, <1>7, <1>8, <1>12, <1>13, <2>1, <2>3
<1>15. CASE ~align
  <2>1. first = 0 /\ n = 2 * Origin(0) /\ 1 - first = 1
    BY <1>2, <1>6, <1>8, <1>9, <1>15
  <2>2. (n + 1) % (2 * NumWords) = 2 * Origin(1) + 1
    BY <1>7, <1>13, <1>15, <2>1, Behind
  <2> QED BY <1>2, <1>3, <1>4, <1>6, <1>7, <1>8, <1>12, <1>13, <2>1, <2>2
<1> QED BY <1>14, <1>15

LEMMA Front ==
  ASSUME TypeOK, NEW i \in {0, 1}, avail(i)
  PROVE  rdata(i) = ipb[i][1] /\ rdata(i) \in Entries /\ 1 \in 1 .. Len(ipb[i])
<1>1. ipb[i] \in Seq(Entries) /\ ipb[i] # <<>>
  BY DEF TypeOK, avail
<1>2. Len(ipb[i]) \in Nat /\ Len(ipb[i]) # 0
  BY <1>1, EmptySeq
<1>3. 1 \in 1 .. Len(ipb[i]) /\ Head(ipb[i]) = ipb[i][1]
  BY <1>1, <1>2
<1>4. ipb[i][1] \in Entries
  BY <1>1, <1>3, ElementOfSeq
<1> QED BY <1>3, <1>4 DEF rdata

(* An aligned instruction is not followed by a misaligned one.              *)
LEMMA StaysAligned ==
  ASSUME Base, Misalignment, ~fetch.restart, ~cfg.c, re(0), NEW ans, Proper(ans), FrontEnd(ans)
  PROVE  ~Misaligned'
<1>1. PICK taken \in BOOLEAN : FetchEngine(ans, Reset(taken)) /\ Buffers(ans)
  BY DEF FrontEnd
<1> DEFINE reset == Reset(taken)
<1>2. reset \in BOOLEAN /\ FetchEngine(ans, reset)
  BY <1>1 DEF Reset
<1> HIDE DEF reset
<1>3. TypeOK /\ TypeOK' /\ fetch.state \in Fetch /\ fetch.state # "S_RESTART"
  BY CycleType DEF Base, RestartHeld, TypeOK
<1>4. ipb[0] # <<>> /\ Popped(0) = 1
  BY <1>3, LeftType DEF Popped
<1>5. ~fetch.unaligned /\ \A k \in 1 .. Len(ipb[0]) : ipb[0][k].ma => k = 1
  BY <1>4 DEF Misalignment
<1>6. ~fetch'.unaligned
  BY <1>2, <1>3, <1>5, FetchStep DEF Fetch
<1>7. ~a_err
  BY <1>5 DEF a_err
<1> DEFINE l == Len(ipb[0])
           w == IF we(0, ans) THEN 1 ELSE 0
<1>8. l \in Nat /\ l # 0 /\ ipb'[0] \in Seq(Entries)
  BY <1>3, <1>4, LeftType, EmptySeq DEF TypeOK
<1>9. PICK long \in BOOLEAN :
        /\ Len(ipb'[0]) = l - 1 + w
        /\ \A k \in 1 .. l - 1 : ipb'[0][k] = ipb[0][k + 1]
        /\ we(0, ans) => ipb'[0][l - 1 + 1] = wdata(0, ans, long)
  BY <1>1, <1>3, <1>4, EntryNext
<1>10. ASSUME ipb'[0] # <<>> PROVE ~ipb'[0][1].ma
  <2>1. CASE l >= 2
    <3>1. 1 \in 1 .. l - 1 /\ 1 + 1 \in 1 .. l
      <4> HIDE DEF l
      <4> QED BY <1>8, <2>1
    <3>2. ipb'[0][1] = ipb[0][1 + 1]
      BY <1>9, <3>1
    <3>3. ~ipb[0][1 + 1].ma
      BY <1>5, <3>1
    <3> QED BY <3>2, <3>3
  <2>2. CASE l = 1
    <3>1. w # 0
      <4>1. Len(ipb'[0]) # 0
        BY <1>8, <1>10, EmptySeq
      <4> HIDE DEF l, w
      <4> QED BY <1>9, <2>2, <4>1
    <3>2. ipb'[0][1] = wdata(0, ans, long)
      BY <1>9, <2>2, <3>1
    <3> QED BY <1>7, <3>2 DEF wdata
  <2> HIDE DEF l
  <2> QED BY <1>8, <2>1, <2>2
<1> QED BY <1>6, <1>10 DEF Misaligned

(* An instruction is issued: the one behind it is next.                     *)
LEMMA NextIsMoves ==
  ASSUME Base, Misalignment, ~fetch.restart, NEW ans, Proper(ans), FrontEnd(ans),
         ex.state = "DISPATCH", valid # {}, NEW n \in Halves, NextIs(n), ~cfg.c => ~Odd(n),
         NEW m, m = (n + (IF Compressed THEN 1 ELSE 2)) % (2 * NumWords)
  PROVE  NextIs(m)'
<1>1. IssueEngine /\ cfg' = cfg
  BY DEF FrontEnd
<1>2. TypeOK /\ cfg.c \in BOOLEAN /\ align \in BOOLEAN /\ fetch.restart \in BOOLEAN
  BY DEF Base, TypeOK
<1>3. /\ ~fetch.unaligned
      /\ Odd(n) <=> align
      /\ Compressed => valid = {first}
      /\ ~Compressed => valid = {0, 1}
      /\ n \div 2 = Origin(first)
      /\ align => Origin(0) = (Origin(1) + 1) % NumWords
      /\ ~align => Origin(0) = Origin(1)
  BY Ports
<1>4. first \in {0, 1} /\ (first = 1 <=> align) /\ Origin(0) \in Words /\ Origin(1) \in Words
  BY <1>2, FirstType, OriginType
<1>5. ASSUME NEW i \in {0, 1}
      PROVE  /\ re(i) => Origin(i)' = (Origin(i) + 1) % NumWords
             /\ ~re(i) => Origin(i)' = Origin(i)
  <2> DEFINE p == fetch.pc
             l == Len(ipb[i])
             q == p - l
             r == IF re(i) THEN 1 ELSE 0
  <2>1. Push(ans) => we(i, ans)
    BY <1>3 DEF Push, we
  <2>2. Origin(i)' = (p - l + r) % NumWords
    BY <2>1, OriginNext
  <2>3. Origin(i) = q % NumWords /\ p \in Int /\ l \in Int
    BY <1>2, LeftType DEF Origin, TypeOK, Words
  <2>4. r \in Int /\ q \in Int /\ NumWords \in Nat \ {0}
    BY <2>3
  <2>5. Origin(i)' = (q + r) % NumWords
    BY <2>2
  <2> HIDE DEF q, p, l
  <2>6. CASE re(i)
    <3>1. r = 1
      BY <2>6
    <3> HIDE DEF r
    <3>2. ((q % NumWords) + r) % NumWords = (q + r) % NumWords
      BY <2>4, ModAdd
    <3> QED BY <2>3, <2>5, <2>6, <3>1, <3>2
  <2>7. CASE ~re(i)
    <3>1. q + r = q
      BY <2>4, <2>7
    <3> QED BY <2>3, <2>5, <2>7, <3>1
  <2> QED BY <2>6, <2>7
<1>6. /\ Odd(n) => n = 2 * (n \div 2) + 1
      /\ ~Odd(n) => n = 2 * (n \div 2)
  BY HalfParts
<1>7. PICK i \in {0, 1} : i = first'
  BY DEF first
<1>8. align' = IF Compressed THEN ~align ELSE align
  <2>1. CASE cfg.c
    <3>1. valid = {first} <=> Compressed
      <4>1. ASSUME ~Compressed PROVE valid # {first}
        <5>1. 0 \in valid /\ 1 \in valid
          BY <1>3, <4>1
        <5> QED BY <5>1
      <4> QED BY <1>3, <4>1
    <3> QED BY <1>1, <2>1, <3>1 DEF IssueEngine
  <2>2. CASE ~cfg.c
    <3>1. ~Compressed /\ ~align
      BY <2>2 DEF Compressed, Misalignment
    <3> QED BY <1>1, <1>2, <2>2, <3>1 DEF IssueEngine
  <2> QED BY <2>1, <2>2
<1>9. i = IF align' THEN 1 ELSE 0
  BY <1>7 DEF first
<1> DEFINE w == n \div 2
<1>10. w \in Words /\ (w + 1) % NumWords \in Words
  <2>1. w \in Words
    BY HalfParts
  <2>2. w + 1 \in Int /\ NumWords \in Nat \ {0}
    BY <2>1 DEF Words
  <2> QED BY <2>1, <2>2, ModWord DEF Words
<1>11. /\ (2 * w + 1) % (2 * NumWords) = 2 * w + 1
       /\ (2 * w + 2) % (2 * NumWords) = 2 * ((w + 1) % NumWords)
       /\ (2 * w + 3) % (2 * NumWords) = 2 * ((w + 1) % NumWords) + 1
  BY <1>10, Behind
<1> HIDE DEF w, Origin
<1>12. ASSUME Compressed /\ align
       PROVE  m \div 2 = Origin(i)' /\ (Odd(m) <=> align')
  <2>1. i = 0 /\ ~align' /\ ~re(0) /\ w = Origin(1)
    <3>1. first = 1 /\ i = 0 /\ ~align'
      BY <1>4, <1>8, <1>9, <1>12
    <3>2. valid = {1}
      BY <1>3, <1>12, <3>1
    <3>3. ~re(0)
      BY <3>2 DEF re
    <3> QED BY <1>3, <3>1, <3>3 DEF w
  <2>2. m = (2 * w + 2) % (2 * NumWords)
    <3>1. n = 2 * w + 1 /\ m = (n + 1) % (2 * NumWords)
      BY <1>3, <1>6, <1>12 DEF w
    <3>2. n + 1 = 2 * w + 2
      BY <1>10, <3>1 DEF Words
    <3> QED BY <3>1, <3>2
  <2>3. Origin(0)' = (w + 1) % NumWords
    BY <1>3, <1>5, <1>12, <2>1
  <2> QED BY <1>10, <1>11, <2>1, <2>2, <2>3, WordParts
<1>13. ASSUME Compressed /\ ~align
       PROVE  m \div 2 = Origin(i)' /\ (Odd(m) <=> align')
  <2>1. i = 1 /\ align' /\ ~re(1) /\ w = Origin(0)
    BY <1>3, <1>4, <1>8, <1>9, <1>13 DEF re, w
  <2>2. m = (2 * w + 1) % (2 * NumWords)
    BY <1>3, <1>6, <1>13 DEF w
  <2>3. Origin(1)' = w
    BY <1>3, <1>5, <1>13, <2>1
  <2> QED BY <1>10, <1>11, <2>1, <2>2, <2>3, WordParts
<1>14. ASSUME ~Compressed
       PROVE  m \div 2 = Origin(i)' /\ (Odd(m) <=> align')
  <2>1. align' = align /\ i = first /\ re(i) /\ w = Origin(i)
    BY <1>2, <1>3, <1>4, <1>8, <1>9, <1>14 DEF re, w
  <2>2. Origin(i)' = (w + 1) % NumWords /\ m = (n + 2) % (2 * NumWords)
    BY <1>5, <1>14, <2>1
  <2>3. CASE align
    <3>1. n = 2 * w + 1
      BY <1>3, <1>6, <2>3 DEF w
    <3>2. n + 2 = 2 * w + 3
      BY <1>10, <3>1 DEF Words
    <3> QED BY <1>10, <1>11, <2>1, <2>2, <2>3, <3>2, WordParts
  <2>4. CASE ~align
    <3>1. n = 2 * w
      BY <1>3, <1>6, <2>4 DEF w
    <3> QED BY <1>10, <1>11, <2>1, <2>2, <2>4, <3>1, WordParts
  <2> QED BY <2>3, <2>4
<1>15. m \div 2 = Origin(i)' /\ (Odd(m) <=> align')
  BY <1>12, <1>13, <1>14
<1>16. cfg.c \/ ~align'
  BY <1>1 DEF IssueEngine
<1>17. ~cfg.c => ~Misaligned'
  <2>1. ASSUME ~cfg.c PROVE re(0)
    <3>1. ~Compressed
      BY <2>1 DEF Compressed
    <3> QED BY <1>3, <3>1 DEF re
  <2> QED BY <2>1, StaysAligned
<1>18. m \div 2 = (fetch'.pc - Len(ipb'[first'])) % NumWords
  BY <1>7, <1>15 DEF Origin
<1>19. Odd(m) <=> IF cfg'.c THEN align' ELSE Misaligned'
  BY <1>1, <1>15, <1>16, <1>17
<1> HIDE DEF Misaligned
<1> QED BY <1>18, <1>19 DEF NextIs

(* What is issued is the instruction at n, or the fault that it has.        *)
LEMMA Issued ==
  ASSUME Base, Contents, Misalignment, ~fetch.restart, valid # {},
         NEW n \in Halves, NextIs(n), NEW kind \in Kinds
  PROVE  LET up == (n + 1) % (2 * NumWords)
         IN  /\ data_ma /\ ~cfg.c => Odd(n)
             /\ data_be => MayFail(n) \/ (IsLong(n) /\ MayFail(up))
             /\ ~data_be /\ ~(data_ma /\ ~cfg.c) =>
                  /\ data(kind).adr = n /\ data(kind).ci = ~IsLong(n)
                  /\ data(kind).hi = IF IsLong(n) THEN up ELSE NoWord
                  /\ Compressed = ~IsLong(n)
                  /\ ~Barred(n) /\ (IsLong(n) => ~Barred(up))
                  /\ ~cfg.c => ~Odd(n)
<1> DEFINE up == (n + 1) % (2 * NumWords)
<1>1. TypeOK /\ cfg.c \in BOOLEAN /\ align \in BOOLEAN
  BY DEF Base, TypeOK
<1>2. first \in {0, 1} /\ 1 - first \in {0, 1} /\ (first = 1 <=> align) /\ avail(first)
  BY <1>1, FirstType DEF valid
<1>3. ASSUME ~cfg.c
      PROVE  /\ valid = {0, 1} /\ first = 0
             /\ data_ma <=> Odd(n)
  <2>1. ~align /\ ~Compressed
    BY <1>3 DEF Misalignment, Compressed
  <2>2. first = 0 /\ valid = {0, 1} /\ avail(0) /\ avail(1)
    BY <1>2, <2>1 DEF valid
  <2>3. /\ rdata(0) = ipb[0][1] /\ rdata(1) = ipb[1][1]
        /\ rdata(0) \in Entries /\ rdata(1) \in Entries
    BY <1>1, <2>2, Front
  <2>4. ~fetch.unaligned /\ ipb[0] # <<>> /\ ipb[0][1].ma = ipb[1][1].ma
    BY <1>3, <2>2 DEF Misalignment, avail
  <2>5. rdata(0).ma \in BOOLEAN /\ rdata(1).ma \in BOOLEAN
    BY <2>3 DEF Entries
  <2>6. data_ma <=> ipb[0][1].ma
    BY <2>2, <2>3, <2>4 DEF data_ma
  <2>7. Odd(n) <=> ipb[0][1].ma
    BY <1>3, <2>4 DEF NextIs, Misaligned
  <2> QED BY <2>2, <2>6, <2>7
<1>4. ASSUME NEW i \in {0, 1}, avail(i)
      PROVE  Right(rdata(i), Place(i, 1))
  <2>1. rdata(i) = ipb[i][1] /\ 1 \in 1 .. Len(ipb[i])
    BY <1>1, <1>4, Front
  <2> QED BY <2>1 DEF Contents
<1>5. CASE ~cfg.c => ~Odd(n)
  <2>1. /\ Place(first, 1) = n
        /\ ~Compressed => avail(1 - first) /\ Place(1 - first, 1) = up
        /\ Compressed => valid = {first}
        /\ ~Compressed => valid = {0, 1}
    BY <1>5, Ports
  <2> DEFINE lo == rdata(first)
             hi == rdata(1 - first)
  <2>2. Right(lo, n) /\ (~Compressed => Right(hi, up))
    <3> HIDE DEF up, Place
    <3> QED BY <1>2, <1>4, <2>1
  <2>3. data_be <=> lo.be \/ (~Compressed /\ hi.be)
    BY <1>2, <2>1 DEF data_be
  <2>4. /\ data(kind).adr = lo.adr /\ data(kind).ci = Compressed
        /\ data(kind).hi = IF Compressed THEN NoWord ELSE hi.adr
        /\ Compressed = (cfg.c /\ ~lo.long)
    BY DEF data, Compressed
  <2> HIDE DEF lo, hi, up
  <2>5. ~lo.be => (Compressed <=> ~IsLong(n))
    BY <1>1, <2>2, <2>4 DEF Right, IsLong
  <2>6. Compressed \in BOOLEAN /\ IsLong(n) \in BOOLEAN
    BY <2>4 DEF IsLong
  <2>7. ASSUME data_be PROVE MayFail(n) \/ (IsLong(n) /\ MayFail(up))
    <3>1. CASE lo.be
      BY <2>2, <3>1 DEF Right
    <3>2. CASE ~lo.be
      BY <2>2, <2>3, <2>5, <2>7, <3>2 DEF Right
    <3> QED BY <3>1, <3>2
  <2>8. ASSUME ~data_be
        PROVE  /\ data(kind).adr = n /\ data(kind).ci = ~IsLong(n)
               /\ data(kind).hi = IF IsLong(n) THEN up ELSE NoWord
               /\ Compressed = ~IsLong(n)
               /\ ~Barred(n) /\ (IsLong(n) => ~Barred(up))
    <3>1. ~lo.be /\ (~Compressed => ~hi.be) /\ Compressed = ~IsLong(n)
      BY <2>3, <2>5, <2>6, <2>8
    <3>2. lo.adr = n /\ ~Barred(n) /\ (IsLong(n) => hi.adr = up /\ ~Barred(up))
      BY <2>2, <3>1 DEF Right
    <3> QED BY <2>4, <3>1, <3>2
  <2> QED BY <1>3, <1>5, <2>7, <2>8 DEF up
<1>6. CASE ~cfg.c /\ Odd(n)
  <2>1. valid = {0, 1} /\ first = 0 /\ data_ma
    BY <1>3, <1>6
  <2>2. avail(0) /\ avail(1)
    BY <1>2, <2>1 DEF valid
  <2>3. Len(ipb[1]) = Len(ipb[0])
    BY <1>6 DEF Base, Skew
  <2>4. Origin(0) = n \div 2 /\ Origin(1) = n \div 2
    BY <2>1, <2>3 DEF NextIs, Origin
  <2>5. n \div 2 \in Words /\ Place(0, 1) = 2 * (n \div 2) /\ Place(1, 1) = 2 * (n \div 2) + 1
    <3>1. Place(0, 1) = 2 * Origin(0) + 0 /\ Place(1, 1) = 2 * Origin(1) + 1
      BY <1>1, OriginType
    <3>2. n \div 2 \in Words
      BY HalfParts
    <3> QED BY <2>4, <3>1, <3>2 DEF Words
  <2>6. Place(0, 1) \div 2 = n \div 2 /\ Place(1, 1) \div 2 = n \div 2
    BY <2>5, WordParts
  <2>7. ASSUME data_be PROVE MayFail(n)
    <3>1. PICK i \in {0, 1} : rdata(i).be
      BY <2>1, <2>7 DEF data_be
    <3>2. MayFail(Place(i, 1))
      BY <1>4, <2>2, <3>1 DEF Right
    <3> HIDE DEF Place
    <3>3. Place(i, 1) \div 2 = n \div 2
      BY <2>6
    <3> QED BY <3>2, <3>3 DEF MayFail
  <2> QED BY <1>6, <2>1, <2>7
<1> QED BY <1>5, <1>6

-----------------------------------------------------------------------------
(* The execute engine                                                       *)

LEMMA HereType ==
  ASSUME TypeOK
  PROVE  Here \in Halves
BY DEF TypeOK, Here

LEMMA DispatchStep ==
  ASSUME TypeOK, ex.state = "DISPATCH", NEW taken, ExecuteEngine(taken)
  PROVE  /\ valid = {} =>
              /\ ex'.state = "DISPATCH" /\ ex'.pc = ex.pc /\ ex'.next = ex.next
              /\ ex'.branched = ex.branched /\ exc' = exc
         /\ valid # {} => \E kind \in Kinds :
              /\ exc'.be = data_be /\ exc'.ma = (data_ma /\ ~cfg.c)
              /\ ex'.ir = data(kind) /\ ~ex'.branched /\ ex'.pc = Here
              /\ ex'.state \in {"TRAP_ENTER", "EXECUTE"}
              /\ ex'.state = "EXECUTE" => ~data_be /\ ~(data_ma /\ ~cfg.c)
<1>1. Dispatch
  BY DEF ExecuteEngine, Execute, Work, System, Branch, Branched, TrapEnter, TrapStart,
     TrapExit, TrapExecute
<1>2. CASE valid = {}
  BY <1>1, <1>2 DEF Dispatch, TypeOK
<1>3. CASE valid # {}
  <2>1. PICK kind \in Kinds, trap \in BOOLEAN :
          /\ exc' = [be |-> data_be, ma |-> data_ma /\ ~cfg.c]
          /\ ex' = [ex EXCEPT !.ir = data(kind), !.branched = FALSE,
                              !.pc = IF ex.branched THEN @ ELSE ex.next,
                              !.state = IF trap \/ exc'.be \/ exc'.ma
                                        THEN "TRAP_ENTER" ELSE "EXECUTE"]
    BY <1>1, <1>3 DEF Dispatch
  <2>2. exc'.be = data_be /\ exc'.ma = (data_ma /\ ~cfg.c)
    BY <2>1
  <2>3. Here = IF ex.branched THEN ex.pc ELSE ex.next
    BY DEF Here, TypeOK
  <2>4. /\ ex'.ir = data(kind) /\ ~ex'.branched
        /\ ex'.pc = IF ex.branched THEN ex.pc ELSE ex.next
        /\ ex'.state = IF trap \/ exc'.be \/ exc'.ma THEN "TRAP_ENTER" ELSE "EXECUTE"
    BY <2>1 DEF TypeOK
  <2>5. ex'.state = "EXECUTE" => ~data_be /\ ~(data_ma /\ ~cfg.c)
    BY <2>2, <2>4
  <2> QED BY <1>3, <2>2, <2>3, <2>4, <2>5
<1> QED BY <1>2, <1>3

LEMMA OtherStep ==
  ASSUME TypeOK, NEW taken, ExecuteEngine(taken), ex.state # "DISPATCH"
  PROVE  /\ ex'.branched = (ex.branched \/ ex.state = "BRANCHED") /\ ex'.ir = ex.ir
         /\ ex.state \notin {"BRANCH", "TRAP_EXECUTE"} => ex'.pc = ex.pc
         /\ ex.state \notin {"EXECUTE", "TRAP_START", "TRAP_EXIT"} => ex'.next = ex.next
         /\ ex.state = "EXECUTE" =>
              /\ ex'.state \in {"DISPATCH", "WORK", "BRANCH", "SYSTEM", "TRAP_EXECUTE"}
              /\ ex'.next = NextPc(ex.ir, ex.pc)
         /\ ex.state = "WORK" => ex'.state \in {"WORK", "DISPATCH"}
         /\ ex.state = "SYSTEM" => ex'.state \in {"DISPATCH", "TRAP_EXIT"}
         /\ ex.state = "BRANCH" =>
              /\ ex'.pc \in cfg.targets
              /\ ex'.state = IF taken THEN "BRANCHED" ELSE "DISPATCH"
         /\ ex.state = "BRANCHED" => ex'.state = "DISPATCH"
         /\ ex.state = "TRAP_ENTER" => ex'.state \in {"TRAP_ENTER", "TRAP_START"} /\ exc' = exc
         /\ ex.state = "TRAP_START" => ex'.state = "TRAP_EXECUTE" /\ ex'.next = Handler
         /\ ex.state = "TRAP_EXIT" => ex'.state = "TRAP_EXECUTE" /\ ex'.next \in cfg.targets
         /\ ex.state = "TRAP_EXECUTE" => ex'.state = "BRANCHED" /\ ex'.pc = ex.next
<1>1. ex \in [state : ExStates, pc : Halves, next : Halves, branched : BOOLEAN,
             ir : Instructions]
  BY DEF TypeOK
<1>2. CASE Execute
  <2>1. ex.ir.kind \in Kinds
    BY <1>1 DEF Instructions
  <2>2. PICK s \in {"DISPATCH", "WORK", "BRANCH", "SYSTEM", "TRAP_EXECUTE"} :
          ex' = [ex EXCEPT !.state = s, !.next = NextPc(ex.ir, ex.pc)]
    BY <1>2, <2>1 DEF Execute, Kinds
  <2> QED BY <1>1, <1>2, <2>2 DEF Execute
<1>3. CASE Work \/ System \/ TrapEnter
  BY <1>1, <1>3 DEF Work, System, TrapEnter, Goto
<1>4. CASE Branch(taken)
  BY <1>1, <1>4 DEF Branch
<1>5. CASE Branched
  BY <1>1, <1>5 DEF Branched
<1>6. CASE TrapStart
  BY <1>1, <1>6 DEF TrapStart
<1>7. CASE TrapExit
  BY <1>1, <1>7 DEF TrapExit
<1>8. CASE TrapExecute
  BY <1>1, <1>8 DEF TrapExecute
<1> QED BY <1>2, <1>3, <1>4, <1>5, <1>6, <1>7, <1>8 DEF ExecuteEngine, Dispatch

(* The restart that a jump or a trap asks for.                              *)
LEMMA RestartStep ==
  ASSUME Base, NEW ans, NEW taken \in BOOLEAN, FetchEngine(ans, Reset(taken)),
         ExecuteEngine(taken)
  PROVE  /\ ex'.state = "BRANCHED" => fetch'.restart
         /\ ex.state \notin {"DISPATCH", "BRANCHED"} /\ ex'.state # "BRANCHED" =>
              ~fetch.restart /\ ~fetch'.restart
         /\ fetch.restart /\ ~fetch'.restart => fetch.state = "S_RESTART"
         /\ ~fetch.restart => fetch.state # "S_RESTART"
         /\ ex.state = "DISPATCH" /\ fetch'.restart => fetch.restart
<1> DEFINE reset == Reset(taken)
<1>1. reset \in BOOLEAN /\ FetchEngine(ans, reset)
  BY DEF Reset
<1>2. reset <=> ex.state = "TRAP_EXECUTE" \/ (ex.state = "BRANCH" /\ taken)
  BY DEF Reset
<1> HIDE DEF reset
<1>3. TypeOK /\ RestartHeld /\ fetch.restart \in BOOLEAN /\ ex.state \in ExStates
  BY DEF Base, TypeOK
<1>4. /\ fetch.state = "S_RESTART" => fetch.restart /\ ~fetch'.restart
      /\ fetch.state # "S_RESTART" => fetch'.restart = (fetch.restart \/ reset)
  BY <1>1, <1>3, FetchStep DEF RestartHeld
<1>5. ASSUME ex'.state = "BRANCHED" PROVE reset
  <2>1. ex.state # "DISPATCH"
    BY <1>3, <1>5, DispatchStep
  <2>2. ex.state \in {"BRANCH", "TRAP_EXECUTE"} /\ (ex.state = "BRANCH" => taken)
    BY <1>3, <1>5, <2>1, OtherStep DEF ExStates
  <2> QED BY <1>2, <2>2
<1>6. ASSUME reset PROVE ex'.state = "BRANCHED"
  <2>1. ex.state # "DISPATCH"
    BY <1>2, <1>6
  <2> QED BY <1>2, <1>3, <1>6, <2>1, OtherStep
<1>7. reset => fetch.state # "S_RESTART" /\ ~fetch.restart
  BY <1>2, <1>3 DEF RestartHeld
<1>8. fetch.restart => ex.state \in {"BRANCHED", "DISPATCH"}
  BY <1>3 DEF RestartHeld
<1> QED BY <1>1, <1>2, <1>3, <1>4, <1>5, <1>6, <1>7, <1>8

LEMMA FollowingCycle ==
  ASSUME Base, Contents, Misalignment, Following, InRegister, NEW ans, Proper(ans), FrontEnd(ans)
  PROVE  Following'
<1>1. PICK taken \in BOOLEAN :
        /\ ExecuteEngine(taken) /\ FetchEngine(ans, Reset(taken))
        /\ Buffers(ans) /\ IssueEngine /\ cfg' = cfg
  BY DEF FrontEnd
<1>2. TypeOK /\ TypeOK' /\ RestartHeld /\ ex.state \in ExStates
  BY CycleType DEF Base, TypeOK
<1>3. /\ ex'.state = "BRANCHED" => fetch'.restart
      /\ ex.state \notin {"DISPATCH", "BRANCHED"} /\ ex'.state # "BRANCHED" =>
           ~fetch.restart /\ ~fetch'.restart
      /\ fetch.restart /\ ~fetch'.restart => fetch.state = "S_RESTART"
      /\ ~fetch.restart => fetch.state # "S_RESTART"
      /\ ex.state = "DISPATCH" /\ fetch'.restart => fetch.restart
  BY <1>1, RestartStep
<1>4. ASSUME ex'.state = "DISPATCH", fetch'.restart PROVE ex'.branched
  <2>1. CASE ex.state = "DISPATCH"
    BY <1>1, <1>2, <1>3, <1>4, <2>1, DispatchStep DEF Following
  <2>2. CASE ex.state = "BRANCHED"
    BY <1>1, <1>2, <2>2, OtherStep
  <2> QED BY <1>3, <1>4, <2>1, <2>2
<1>5. CASE fetch'.restart
  BY <1>4, <1>5 DEF Following
<1>6. CASE fetch.restart /\ ~fetch'.restart
  <2>1. fetch.state = "S_RESTART"
    BY <1>3, <1>6
  <2>2. ex'.state = "DISPATCH" /\ ex'.branched /\ ex'.pc = ex.pc
    <3>1. CASE ex.state = "BRANCHED"
      BY <1>1, <1>2, <3>1, OtherStep
    <3>2. CASE ex.state = "DISPATCH"
      <4>1. valid = {} /\ ex.branched
        BY <1>2, <1>6, <3>2, EmptyWaits DEF RestartHeld, Following
      <4> QED BY <1>1, <1>2, <3>2, <4>1, DispatchStep
    <3> QED BY <1>2, <1>6, <3>1, <3>2 DEF RestartHeld
  <2>3. Here' = ex.pc
    BY <2>2 DEF Here
  <2>4. fetch'.pc = ex.pc \div 2 /\ fetch'.unaligned = Odd(ex.pc)
    <3> DEFINE reset == Reset(taken)
    <3>1. reset \in BOOLEAN /\ FetchEngine(ans, reset)
      BY <1>1 DEF Reset
    <3> HIDE DEF reset
    <3> QED BY <1>2, <2>1, <3>1, FetchPc, FetchStep
  <2>5. ipb'[0] = <<>> /\ ipb'[1] = <<>>
    BY <1>1, <1>2, <1>6, BuffersStep
  <2>6. ex.pc \in Halves /\ ex.pc \div 2 \in Words /\ Odd(ex.pc) \in BOOLEAN
    BY <1>2, HalfParts DEF TypeOK, Odd
  <2>7. /\ ex.pc \div 2 = (fetch'.pc - Len(ipb'[first'])) % NumWords
        /\ Odd(ex.pc) <=> IF cfg'.c THEN align' ELSE Misaligned'
    <3>1. first' \in {0, 1}
      BY DEF first
    <3>2. Len(ipb'[first']) = 0
      BY <2>5, <3>1
    <3>3. (ex.pc \div 2 - 0) % NumWords = ex.pc \div 2
      BY <2>6, ModSmall DEF Words
    <3>4. Odd(ex.pc) <=> IF cfg'.c THEN align' ELSE Misaligned'
      <4>1. CASE cfg.c
        BY <1>1, <1>6, <4>1 DEF IssueEngine
      <4>2. CASE ~cfg.c
        BY <1>1, <2>4, <2>5, <2>6, <4>2 DEF Misaligned
      <4> QED BY <1>1, <4>1, <4>2
    <3> QED BY <2>4, <3>2, <3>3, <3>4
  <2>8. NextIs(Here)'
    <3> HIDE DEF Misaligned
    <3> QED BY <2>3, <2>7 DEF NextIs
  <2> QED BY <1>6, <2>2, <2>8 DEF Following
<1>7. CASE ~fetch.restart /\ ~fetch'.restart
  <2>1. ASSUME NEW n, NextIs(n), ~re(0), ~re(1)
        PROVE  NextIs(n)'
    BY <1>7, <2>1, NextIsStays
  <2>2. ASSUME NEW n, NextIs(n)'
        PROVE  /\ Here' = n => NextIs(Here)'
               /\ ex'.next = n => NextIs(ex.next)'
               /\ NextPc(ex'.ir, ex'.pc) = n => NextIs(NextPc(ex.ir, ex.pc))'
    <3> HIDE DEF Misaligned, Here
    <3>1. /\ n \div 2 = (fetch'.pc - Len(ipb'[first'])) % NumWords
          /\ Odd(n) <=> IF cfg'.c THEN align' ELSE Misaligned'
      BY <2>2 DEF NextIs
    <3> QED BY <3>1 DEF NextIs
  <2>3. CASE ex.state = "DISPATCH" /\ valid = {}
    <3>1. PICK n : n = Here
      OBVIOUS
    <3>2. NextIs(n)
      BY <1>7, <2>3, <3>1 DEF Following
    <3>3. NextIs(n)'
      BY <2>1, <2>3, <3>2 DEF re
    <3>4. ex'.state = "DISPATCH" /\ Here' = n
      BY <1>1, <1>2, <2>3, <3>1, DispatchStep DEF Here
    <3> QED BY <1>7, <2>2, <3>3, <3>4 DEF Following
  <2>4. CASE ex.state = "DISPATCH" /\ valid # {}
    <3>1. PICK n \in Halves : n = Here
      BY <1>2, HereType
    <3>2. NextIs(n)
      BY <1>7, <2>4, <3>1 DEF Following
    <3>3. PICK kind \in Kinds :
            /\ ex'.ir = data(kind) /\ ex'.pc = n /\ ex'.state \in {"TRAP_ENTER", "EXECUTE"}
            /\ ex'.state = "EXECUTE" => ~data_be /\ ~(data_ma /\ ~cfg.c)
      BY <1>1, <1>2, <2>4, <3>1, DispatchStep
    <3>4. ASSUME ex'.state = "EXECUTE" PROVE NextIs(NextPc(ex.ir, ex.pc))'
      <4>1. /\ data(kind).ci = ~IsLong(n) /\ Compressed = ~IsLong(n)
            /\ ~cfg.c => ~Odd(n)
        BY <1>7, <2>4, <3>2, <3>3, <3>4, Issued
      <4>2. PICK m : m = (n + (IF Compressed THEN 1 ELSE 2)) % (2 * NumWords)
        OBVIOUS
      <4>3. NextIs(m)'
        BY <1>7, <2>4, <3>2, <4>1, <4>2, NextIsMoves
      <4>4. NextPc(ex'.ir, ex'.pc) = m
        BY <3>3, <4>1, <4>2 DEF NextPc
      <4> QED BY <2>2, <4>3, <4>4
    <3> QED BY <1>7, <3>3, <3>4 DEF Following
  <2>5. CASE ex.state # "DISPATCH"
    <3>1. ~re(0) /\ ~re(1) /\ ex.state # "BRANCHED" /\ ex'.state # "BRANCHED"
      BY <1>3, <1>7, <2>5 DEF re, Following
    <3>2. CASE ex.state \in {"EXECUTE", "WORK", "SYSTEM", "BRANCH"}
      <4>1. PICK n : n = IF ex.state = "EXECUTE" THEN NextPc(ex.ir, ex.pc) ELSE ex.next
        OBVIOUS
      <4>2. NextIs(n)
        BY <1>7, <3>2, <4>1 DEF Following
      <4>3. NextIs(n)'
        BY <2>1, <3>1, <4>2
      <4>4. ex'.next = n
        BY <1>1, <1>2, <2>5, <3>2, <4>1, OtherStep
      <4>5. ~ex'.branched
        BY <1>1, <1>2, <2>5, <3>2, OtherStep DEF InRegister, Executing
      <4>6. ex'.state = "DISPATCH" => Here' = n
        BY <4>4, <4>5 DEF Here
      <4>7. ex'.state # "EXECUTE"
        BY <1>1, <1>2, <2>5, <3>2, OtherStep
      <4> QED BY <1>7, <2>2, <3>1, <4>3, <4>4, <4>6, <4>7 DEF Following
    <3>3. CASE ex.state \in {"TRAP_ENTER", "TRAP_START", "TRAP_EXIT", "TRAP_EXECUTE"}
      <4>1. ex'.state \in {"TRAP_ENTER", "TRAP_START", "TRAP_EXECUTE", "BRANCHED"}
        BY <1>1, <1>2, <2>5, <3>3, OtherStep
      <4> QED BY <1>7, <3>1, <4>1 DEF Following
    <3> QED BY <1>2, <2>5, <3>1, <3>2, <3>3 DEF ExStates
  <2> QED BY <2>3, <2>4, <2>5
<1> QED BY <1>2, <1>5, <1>6, <1>7 DEF TypeOK

(* What an issued instruction becomes.                                      *)
LEMMA IssuedStep ==
  ASSUME Base, Contents, Misalignment, Following, NEW taken, ExecuteEngine(taken),
         ex.state = "DISPATCH", valid # {}, NEW n \in Halves, n = Here
  PROVE  LET up == (n + 1) % (2 * NumWords)
         IN  /\ ex'.pc = n /\ ~ex'.branched /\ ex'.state \in {"TRAP_ENTER", "EXECUTE"}
             /\ exc'.ma => ~cfg.c /\ Odd(n)
             /\ exc'.be => MayFail(n) \/ (IsLong(n) /\ MayFail(up))
             /\ ex'.state = "EXECUTE" =>
                  /\ ex'.ir.adr = n /\ ex'.ir.ci = ~IsLong(n)
                  /\ ex'.ir.hi = IF IsLong(n) THEN up ELSE NoWord
                  /\ ~Barred(n) /\ (IsLong(n) => ~Barred(up))
                  /\ ~cfg.c => ~Odd(n)
<1> DEFINE up == (n + 1) % (2 * NumWords)
<1>1. TypeOK /\ ~fetch.restart
  BY EmptyWaits DEF Base, RestartHeld
<1>2. NextIs(n)
  BY <1>1 DEF Following
<1>3. PICK kind \in Kinds :
        /\ exc'.be = data_be /\ exc'.ma = (data_ma /\ ~cfg.c)
        /\ ex'.ir = data(kind) /\ ~ex'.branched /\ ex'.pc = n
        /\ ex'.state \in {"TRAP_ENTER", "EXECUTE"}
        /\ ex'.state = "EXECUTE" => ~data_be /\ ~(data_ma /\ ~cfg.c)
  BY <1>1, DispatchStep
<1>4. /\ data_ma /\ ~cfg.c => Odd(n)
      /\ data_be => MayFail(n) \/ (IsLong(n) /\ MayFail(up))
      /\ ~data_be /\ ~(data_ma /\ ~cfg.c) =>
           /\ data(kind).adr = n /\ data(kind).ci = ~IsLong(n)
           /\ data(kind).hi = IF IsLong(n) THEN up ELSE NoWord
           /\ ~Barred(n) /\ (IsLong(n) => ~Barred(up))
           /\ ~cfg.c => ~Odd(n)
  BY <1>1, <1>2, Issued
<1> HIDE DEF up
<1>5. exc'.ma => ~cfg.c /\ Odd(n)
  BY <1>3, <1>4
<1>6. exc'.be => MayFail(n) \/ (IsLong(n) /\ MayFail(up))
  BY <1>3, <1>4
<1> QED BY <1>3, <1>4, <1>5, <1>6 DEF up

LEMMA InRegisterCycle ==
  ASSUME Base, Contents, Misalignment, Following, InRegister, NEW ans, Proper(ans), FrontEnd(ans)
  PROVE  InRegister'
<1>1. PICK taken \in BOOLEAN : ExecuteEngine(taken) /\ cfg' = cfg
  BY DEF FrontEnd
<1>2. TypeOK /\ ex.state \in ExStates
  BY DEF Base, TypeOK
<1> SUFFICES ASSUME ex'.state \in Executing PROVE InRegister'
  BY DEF InRegister
<1>3. CASE ex.state = "DISPATCH" /\ valid = {}
  BY <1>1, <1>2, <1>3, DispatchStep DEF Executing
<1>4. CASE ex.state = "DISPATCH" /\ valid # {}
  <2>1. PICK n \in Halves : n = Here
    BY <1>2, HereType
  <2>2. /\ ex'.pc = n /\ ~ex'.branched /\ ex'.state = "EXECUTE"
        /\ ex'.ir.adr = n /\ ex'.ir.ci = ~IsLong(n)
        /\ ex'.ir.hi = IF IsLong(n) THEN (n + 1) % (2 * NumWords) ELSE NoWord
        /\ ~cfg.c => ~Odd(n)
    BY <1>1, <1>4, <2>1, IssuedStep DEF Executing
  <2> QED BY <1>1, <2>2 DEF InRegister, IsLong
<1>5. CASE ex.state # "DISPATCH"
  <2>1. ex.state \in {"EXECUTE", "WORK", "SYSTEM"} /\ ex'.state # "EXECUTE"
    BY <1>1, <1>2, <1>5, OtherStep DEF Executing, ExStates
  <2>2. ex'.ir = ex.ir /\ ex'.pc = ex.pc /\ ex'.branched = ex.branched
    BY <1>1, <1>2, <1>5, <2>1, OtherStep DEF TypeOK
  <2>3. /\ ex.ir.adr = ex.pc /\ ex.ir.ci = ~IsLong(ex.pc) /\ ~ex.branched
        /\ ex.ir.hi = IF IsLong(ex.pc) THEN (ex.pc + 1) % (2 * NumWords) ELSE NoWord
        /\ ~cfg.c => ~Odd(ex.pc)
    BY <2>1 DEF InRegister, Executing
  <2>4. ex'.next = NextPc(ex.ir, ex.pc)
    BY <1>1, <1>2, <1>5, <2>1, OtherStep DEF InRegister, Executing
  <2> QED BY <1>1, <2>2, <2>3, <2>4 DEF InRegister, IsLong, NextPc
<1> QED BY <1>3, <1>4, <1>5

LEMMA FaultRealCycle ==
  ASSUME Base, Contents, Misalignment, Following, FaultReal, NEW ans, Proper(ans), FrontEnd(ans)
  PROVE  FaultReal'
<1>1. PICK taken \in BOOLEAN : ExecuteEngine(taken) /\ cfg' = cfg
  BY DEF FrontEnd
<1>2. TypeOK /\ ex.state \in ExStates
  BY DEF Base, TypeOK
<1> SUFFICES ASSUME ex'.state = "TRAP_ENTER" PROVE FaultReal'
  BY DEF FaultReal
<1>3. CASE ex.state = "DISPATCH"
  <2>1. valid # {}
    BY <1>1, <1>2, <1>3, DispatchStep
  <2>2. PICK n \in Halves : n = Here
    BY <1>2, HereType
  <2>3. /\ ex'.pc = n
        /\ exc'.ma => ~cfg.c /\ Odd(n)
        /\ exc'.be => MayFail(n) \/ (IsLong(n) /\ MayFail((n + 1) % (2 * NumWords)))
    BY <1>1, <1>3, <2>1, <2>2, IssuedStep
  <2> QED BY <1>1, <2>3 DEF FaultReal, MayFail, IsLong
<1>4. CASE ex.state # "DISPATCH"
  <2>1. ex.state = "TRAP_ENTER" /\ exc' = exc /\ ex'.pc = ex.pc
    BY <1>1, <1>2, <1>4, OtherStep DEF ExStates
  <2> QED BY <1>1, <2>1 DEF FaultReal, MayFail
<1> QED BY <1>3, <1>4

-----------------------------------------------------------------------------
LEMMA BaseInit == Init => Base
<1> SUFFICES ASSUME Init PROVE Base
  OBVIOUS
<1>1. TypeOK /\ RestartHeld
  BY InitType, RestartHeldInit
<1>2. /\ fetch.state = "S_RESTART" /\ ~fetch.unaligned /\ ~fetch.pmp_err /\ fetch.restart
      /\ open = NoWord /\ ex.pc = 0 /\ ex.next = 0 /\ ~ex.ir.ci
  BY DEF Init
<1>3. ~Odd(0)
  BY DEF Odd
<1> QED BY <1>1, <1>2, <1>3 DEF Base, Started, Skew, Waiting, EvenRun

LEMMA BaseStep ==
  ASSUME Answered, Base, [Next]_vars
  PROVE  Base'
<1>1. TypeOK' /\ RestartHeld'
  BY StepType, RestartHeldStep DEF Base
<1>2. CASE Next
  BY <1>1, <1>2, StepIsCycle, SkewCycle, EvenCycle, WaitingCycle DEF Base
<1>3. CASE UNCHANGED vars
  BY <1>1, <1>3 DEF Base, Started, Skew, Waiting, EvenRun, Uncompressed, vars
<1> QED BY <1>2, <1>3

LEMMA OrderInit == Init => InOrder
<1> SUFFICES ASSUME Init PROVE InOrder
  OBVIOUS
<1>1. /\ fetch.state = "S_RESTART" /\ fetch.restart /\ ~align /\ ex.state = "BRANCHED"
  BY DEF Init
<1> QED BY <1>1 DEF InOrder, Reading, Contents, Misalignment, Following, InRegister,
     Executing, FaultReal

LEMMA OrderStays ==
  ASSUME InOrder, UNCHANGED vars
  PROVE  InOrder'
<1>1. Reading'
  BY DEF InOrder, Reading, vars
<1>2. Contents'
  BY DEF InOrder, Contents, Right, Place, Barred, MayFail, vars
<1>3. Misalignment'
  BY DEF InOrder, Misalignment, vars
<1>4. Following'
  BY DEF InOrder, Following, NextIs, Misaligned, first, Here, NextPc, vars
<1>5. InRegister'
  BY DEF InOrder, InRegister, IsLong, NextPc, vars
<1>6. FaultReal'
  BY DEF InOrder, FaultReal, MayFail, vars
<1> QED BY <1>1, <1>2, <1>3, <1>4, <1>5, <1>6 DEF InOrder

LEMMA OrderStep ==
  ASSUME Answered, Base, InOrder, [Next]_vars
  PROVE  InOrder'
<1>1. CASE Next
  <2>1. PICK ans : Proper(ans) /\ FrontEnd(ans) /\ Brought(ans)
    BY <1>1, StepIsCycle DEF Base, Brought
  <2>2. Reading /\ Contents /\ Misalignment /\ Following /\ InRegister /\ FaultReal
    BY DEF InOrder
  <2>3. Reading'
    BY <2>1, <2>2, ReadingCycle DEF Brought
  <2> QED BY <2>1, <2>2, <2>3, ContentsCycle, MisalignmentCycle, FollowingCycle,
          InRegisterCycle, FaultRealCycle DEF InOrder
<1>2. CASE UNCHANGED vars
  BY <1>2, OrderStays
<1> QED BY <1>1, <1>2

(* A fetch fault is charged to the instruction at the pc, which has it: a   *)
(* bus error or a missing right in one of its own half-words, never one of  *)
(* those fetched ahead, and misalignment where its address is odd.          *)
THEOREM FaultRealCorrect ==
  ASSUME Answered
  PROVE  Spec => []FaultReal
<1>1. Init => Base /\ InOrder
  BY BaseInit, OrderInit
<1>2. (Base /\ InOrder) /\ [Next]_vars => (Base /\ InOrder)'
  BY BaseStep, OrderStep
<1>3. InOrder => FaultReal
  BY DEF InOrder
<1> QED BY <1>1, <1>2, <1>3, PTL DEF Spec

-----------------------------------------------------------------------------
(* The program order                                                        *)

LEMMA OrderBegins == Init => Order!Init
<1> SUFFICES ASSUME Init PROVE Here = 0 /\ Running = NoWord
  BY DEF Order!Init
<1>1. ex.state = "BRANCHED" /\ ex.pc = 0
  BY DEF Init
<1> QED BY <1>1 DEF Here, Running

(* An instruction that is executed is not "no word".                        *)
LEMMA IsRunning ==
  ASSUME TypeOK, InRegister, ex.state \in Executing
  PROVE  Running = [adr |-> ex.ir.adr, hi |-> ex.ir.hi] /\ Running # NoWord
<1>1. ex.pc \in Halves /\ ex.ir.adr = ex.pc /\ ex.ir.hi \in Halves \union {NoWord}
  BY DEF TypeOK, Instructions, InRegister
<1>2. Running = [adr |-> ex.ir.adr, hi |-> ex.ir.hi]
  BY DEF Running, Executing
<1>3. Running \in [adr : Halves, hi : Halves \union {NoWord}]
  BY <1>1, <1>2
<1> QED BY <1>2, <1>3, NothingAssumption

LEMMA OrderFollows ==
  ASSUME Base, InOrder, NEW ans, FrontEnd(ans)
  PROVE  [Order!Next]_Order!progVars
<1>1. PICK taken \in BOOLEAN : ExecuteEngine(taken) /\ cfg' = cfg
  BY DEF FrontEnd
<1>2. TypeOK /\ ex.state \in ExStates /\ Contents /\ Misalignment /\ Following /\ InRegister
  BY DEF Base, InOrder, TypeOK
<1> DEFINE program ==
             [c |-> cfg.c, long |-> cfg.long, targets |-> cfg.targets,
              barred |-> IF cfg.pmp THEN {h \in Halves : h \div 2 \in PmpWords} ELSE {}]
<1>3. program' = program
  BY <1>1
<1>4. \A h \in Halves : h \in program.barred <=> Barred(h)
  BY DEF Barred
<1>5. program.c = cfg.c /\ program.long = cfg.long /\ program.targets = cfg.targets
  OBVIOUS
<1> HIDE DEF program
<1>6. ASSUME Here' = Here, Running' = Running PROVE [Order!Next]_Order!progVars
  BY <1>3, <1>6 DEF Order!progVars, program
<1>7. CASE ex.state = "DISPATCH" /\ valid = {}
  <2>1. Here' = Here /\ Running' = Running
    BY <1>1, <1>2, <1>7, DispatchStep DEF Here, Running
  <2> QED BY <1>6, <2>1
<1>8. CASE ex.state = "DISPATCH" /\ valid # {}
  <2>1. PICK n \in Halves : n = Here
    BY <1>2, HereType
  <2> DEFINE up == (n + 1) % (2 * NumWords)
  <2>2. /\ ex'.pc = n /\ ex'.state \in {"TRAP_ENTER", "EXECUTE"}
        /\ ex'.state = "EXECUTE" =>
             /\ ex'.ir.adr = n
             /\ ex'.ir.hi = IF IsLong(n) THEN up ELSE NoWord
             /\ ~Barred(n) /\ (IsLong(n) => ~Barred(up))
             /\ ~cfg.c => ~Odd(n)
    BY <1>1, <1>2, <1>8, <2>1, IssuedStep
  <2>3. Running = NoWord /\ Here' = n
    BY <1>8, <2>2 DEF Running, Here
  <2>4. CASE ex'.state = "TRAP_ENTER"
    BY <1>6, <2>1, <2>3, <2>4 DEF Running
  <2>5. CASE ex'.state = "EXECUTE"
    <3>1. Running' = [adr |-> n, hi |-> IF IsLong(n) THEN up ELSE NoWord]
      BY <2>2, <2>5 DEF Running
    <3>2. up \in Halves
      <4>1. n + 1 \in Int
        BY DEF Halves
      <4> QED BY <4>1, ModHalves
    <3>3. n \notin program.barred /\ (IsLong(n) => up \notin program.barred)
      BY <1>4, <2>2, <2>5, <3>2
    <3>4. ~cfg.c => n % 2 = 0
      <4>1. n % 2 \in 0 .. 1
        BY DivMod DEF Halves
      <4> QED BY <2>2, <2>5, <4>1 DEF Odd
    <3> HIDE DEF up
    <3>5. Order!Begin
      BY <1>3, <1>5, <2>1, <2>3, <3>1, <3>3, <3>4
         DEF Order!Begin, Order!IsLong, Order!At, Order!Whole, program, up, IsLong
    <3> QED BY <3>5 DEF Order!Next
  <2> QED BY <2>2, <2>4, <2>5
<1>9. ASSUME ex.state \in Executing, Here' = NextPc(ex.ir, ex.pc), Running' = NoWord
      PROVE  [Order!Next]_Order!progVars
  <2>1. Running # NoWord /\ Here = ex.pc
    BY <1>2, <1>9, IsRunning DEF Here, Executing
  <2>2. ex.ir.ci = ~IsLong(ex.pc)
    BY <1>2, <1>9 DEF InRegister
  <2>3. Here' = (Here + (IF IsLong(ex.pc) THEN 2 ELSE 1)) % (2 * NumWords)
    BY <1>9, <2>1, <2>2 DEF NextPc
  <2>4. Order!Finish
    BY <1>3, <1>5, <1>9, <2>1, <2>3 DEF Order!Finish, Order!IsLong, Order!At, IsLong, program
  <2> QED BY <2>4 DEF Order!Next
<1>10. ASSUME ex.state \in Executing, Here' \in cfg.targets, Running' = NoWord
       PROVE  [Order!Next]_Order!progVars
  <2>1. Running # NoWord
    BY <1>2, <1>10, IsRunning
  <2>2. Order!Jump
    BY <1>3, <1>5, <1>10, <2>1 DEF Order!Jump, program
  <2> QED BY <2>2 DEF Order!Next
<1>11. CASE ex.state \in {"EXECUTE", "WORK", "SYSTEM"}
  <2>1. /\ ex'.ir = ex.ir /\ ex'.pc = ex.pc /\ ~ex'.branched
        /\ ex'.next = NextPc(ex.ir, ex.pc)
        /\ ex'.state \in {"DISPATCH", "WORK", "BRANCH", "SYSTEM", "TRAP_EXECUTE", "TRAP_EXIT"}
    BY <1>1, <1>2, <1>11, OtherStep DEF InRegister, Executing
  <2>2. CASE ex'.state \in {"DISPATCH", "TRAP_EXECUTE"}
    <3>1. Here' = NextPc(ex.ir, ex.pc) /\ Running' = NoWord
      BY <2>1, <2>2 DEF Here, Running
    <3> QED BY <1>9, <1>11, <3>1 DEF Executing
  <2>3. CASE ex'.state \in {"WORK", "BRANCH", "SYSTEM", "TRAP_EXIT"}
    <3>1. Here' = Here /\ Running' = Running
      BY <1>11, <2>1, <2>3 DEF Here, Running
    <3> QED BY <1>6, <3>1
  <2> QED BY <2>1, <2>2, <2>3
<1>12. CASE ex.state = "BRANCH"
  <2>1. /\ ex'.pc \in cfg.targets /\ ~ex'.branched /\ ex'.next = NextPc(ex.ir, ex.pc)
        /\ ex'.state \in {"BRANCHED", "DISPATCH"}
    BY <1>1, <1>2, <1>12, OtherStep DEF InRegister, Executing
  <2>2. CASE ex'.state = "BRANCHED"
    <3>1. Here' \in cfg.targets /\ Running' = NoWord
      BY <2>1, <2>2 DEF Here, Running
    <3> QED BY <1>10, <1>12, <3>1 DEF Executing
  <2>3. CASE ex'.state = "DISPATCH"
    <3>1. Here' = NextPc(ex.ir, ex.pc) /\ Running' = NoWord
      BY <2>1, <2>3 DEF Here, Running
    <3> QED BY <1>9, <1>12, <3>1 DEF Executing
  <2> QED BY <2>1, <2>2, <2>3
<1>13. CASE ex.state = "BRANCHED"
  <2>1. ex'.state = "DISPATCH" /\ ex'.branched /\ ex'.pc = ex.pc
    BY <1>1, <1>2, <1>13, OtherStep
  <2>2. Here' = Here /\ Running' = Running
    BY <1>13, <2>1 DEF Here, Running
  <2> QED BY <1>6, <2>2
<1>14. CASE ex.state = "TRAP_ENTER"
  <2>1. ex'.state \in {"TRAP_ENTER", "TRAP_START"} /\ ex'.pc = ex.pc
    BY <1>1, <1>2, <1>14, OtherStep
  <2>2. Here' = Here /\ Running' = Running
    BY <1>14, <2>1 DEF Here, Running
  <2> QED BY <1>6, <2>2
<1>15. CASE ex.state = "TRAP_START"
  <2>1. ex'.state = "TRAP_EXECUTE" /\ ex'.next = Handler
    BY <1>1, <1>2, <1>15, OtherStep
  <2>2. Running = NoWord /\ Running' = NoWord /\ Here' = Handler
    BY <1>15, <2>1 DEF Here, Running
  <2>3. Order!Trap
    BY <1>3, <2>2 DEF Order!Trap, program
  <2> QED BY <2>3 DEF Order!Next
<1>16. CASE ex.state = "TRAP_EXIT"
  <2>1. ex'.state = "TRAP_EXECUTE" /\ ex'.next \in cfg.targets
    BY <1>1, <1>2, <1>16, OtherStep
  <2>2. Here' \in cfg.targets /\ Running' = NoWord
    BY <2>1 DEF Here, Running
  <2> QED BY <1>10, <1>16, <2>2 DEF Executing
<1>17. CASE ex.state = "TRAP_EXECUTE"
  <2>1. ex'.state = "BRANCHED" /\ ex'.pc = ex.next
    BY <1>1, <1>2, <1>17, OtherStep
  <2>2. Here' = Here /\ Running' = Running
    BY <1>17, <2>1 DEF Here, Running
  <2> QED BY <1>6, <2>2
<1> QED BY <1>2, <1>7, <1>8, <1>11, <1>12, <1>13, <1>14, <1>15, <1>16, <1>17 DEF ExStates

LEMMA OrderNext ==
  ASSUME Base, InOrder, [Next]_vars
  PROVE  [Order!Next]_Order!progVars
<1>1. CASE Next
  BY <1>1, StepIsCycle, OrderFollows DEF Base
<1>2. CASE UNCHANGED vars
  BY <1>2 DEF vars, Here, Running, Order!progVars
<1> QED BY <1>1, <1>2

(* The front end keeps the program order (ProgramOrder): what is executed   *)
(* is the instruction at the pc, whole and of the right length, one after   *)
(* the other, whatever was fetched ahead and dropped by jumps and traps.    *)
THEOREM OrderCorrect ==
  ASSUME Answered
  PROVE  Spec => ImplementsOrder
<1>1. Init => Base /\ InOrder
  BY BaseInit, OrderInit
<1>2. (Base /\ InOrder) /\ [Next]_vars => (Base /\ InOrder)'
  BY BaseStep, OrderStep
<1>3. (Base /\ InOrder) /\ [Next]_vars => [Order!Next]_Order!progVars
  BY OrderNext
<1> QED BY <1>1, <1>2, <1>3, OrderBegins, PTL DEF Spec, ImplementsOrder, Order!Spec
=============================================================================
