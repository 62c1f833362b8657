-------------------------- MODULE FetchPath_proofs --------------------------
(***************************************************************************)
(* The front end on the real bus, for every address map, window, latency    *)
(* and program in which no PMP or alignment fault answers in place of the   *)
(* bus (Answered): port B of the bus gives the front end what it was        *)
(* promised, whatever the data port does in between.                        *)
(*                                                                          *)
(* The argument joins the inductive invariants of the two halves.  What the *)
(* front end shows at its port is a requester the bus can serve (Requests), *)
(* and what the bus answers is one of the answers of the front end's own    *)
(* specification (Served).                                                  *)
(***************************************************************************)
EXTENDS FetchPath, InstrFrontEnd_proofs

USE DepthAssumption, WordsAssumption, HandlerAssumption, ConfigAssumption

(* The bus with its lemmas. *)
BusP == INSTANCE BusFabric_proofs WITH
  Adr <- Words, NoReq <- NoWord, got <- NoWord, port <- [A |-> data_port, B |-> FetchPort]

(* A word is not a string; TLC has no answer to that.                       *)
Distinct == "error" \notin Words \union {NoWord}

LEMMA BusAssumptions ==
  ASSUME Distinct
  PROVE  /\ BusP!RegionAssumption /\ BusP!NothingAssumption
         /\ BusP!WindowAssumption /\ BusP!LatencyAssumption
<1>1. NoWord \notin Words
  BY DEF Words, Halves
<1> QED  BY <1>1, RegionAssumption, WindowAssumption, LatencyAssumption, NoRequestAssumption
         DEF Distinct, BusP!RegionAssumption, BusP!NothingAssumption, BusP!WindowAssumption,
             BusP!LatencyAssumption, BusP!Regions, Bus!Regions

-----------------------------------------------------------------------------
(* The wires of the two instances are the same.                             *)

LEMMA SameSwitch ==
  /\ Bus!Ports = BusP!Ports /\ Bus!Inputs = BusP!Inputs /\ Bus!NoAccess = BusP!NoAccess
  /\ Bus!bus_sel = BusP!bus_sel
  /\ Bus!p_we = BusP!p_we /\ Bus!p_re = BusP!p_re
  /\ Bus!p_on = BusP!p_on /\ Bus!p_addr = BusP!p_addr
<1>1. /\ Bus!Ports = BusP!Ports /\ Bus!Inputs = BusP!Inputs /\ Bus!NoAccess = BusP!NoAccess
  BY DEF Bus!Ports, BusP!Ports, Bus!Inputs, BusP!Inputs, Bus!NoAccess, BusP!NoAccess
<1>2. \A p : Bus!Strobe(p) = BusP!Strobe(p)
  BY DEF Bus!Strobe, BusP!Strobe
<1>3. Bus!bus_sel = BusP!bus_sel
  BY <1>2 DEF Bus!bus_sel, BusP!bus_sel, Bus!ca_req_buffered, BusP!ca_req_buffered,
     Bus!cb_req_buffered, BusP!cb_req_buffered
<1>4. Bus!p_we = BusP!p_we /\ Bus!p_re = BusP!p_re
  BY <1>2, <1>3 DEF Bus!p_we, BusP!p_we, Bus!p_re, BusP!p_re
<1>5. Bus!p_on = BusP!p_on /\ Bus!p_addr = BusP!p_addr
  BY <1>3, <1>4 DEF Bus!p_on, BusP!p_on, Bus!p_addr, BusP!p_addr
<1> QED  BY <1>1, <1>3, <1>4, <1>5

LEMMA SameAnswers ==
  ASSUME NEW in
  PROVE  /\ Bus!devAnswers(in) = BusP!devAnswers(in) /\ Bus!devError = BusP!devError
         /\ Bus!p_ack(in) = BusP!p_ack(in) /\ Bus!p_err(in) = BusP!p_err(in)
         /\ Bus!p_rdata(in) = BusP!p_rdata(in)
         /\ \A p : Bus!Answered(p, in) = BusP!Answered(p, in)
<1>1. /\ Bus!devAnswers(in) = BusP!devAnswers(in) /\ Bus!devError = BusP!devError
      /\ Bus!xAck(in) = BusP!xAck(in)
  BY DEF Bus!devAnswers, BusP!devAnswers, Bus!devError, BusP!devError, Bus!xAck, BusP!xAck
<1>2. /\ Bus!p_ack(in) = BusP!p_ack(in) /\ Bus!p_err(in) = BusP!p_err(in)
      /\ Bus!p_rdata(in) = BusP!p_rdata(in)
  BY <1>1 DEF Bus!p_ack, BusP!p_ack, Bus!p_err, BusP!p_err, Bus!p_rdata, BusP!p_rdata
<1> QED  BY <1>1, <1>2, SameSwitch DEF Bus!Answered, BusP!Answered

LEMMA SameFabric ==
  ASSUME NEW in, Bus!Fabric(in)
  PROVE  BusP!Fabric(in)
<1>1. /\ Bus!Asked(in) /\ Bus!Arbiter(in) /\ Bus!Buffers(in) /\ Bus!Keeper(in) /\ Bus!ErrorFlag
      /\ Bus!Devices(in) /\ Bus!External(in) /\ Bus!Record(in) /\ async' = async
  BY DEF Bus!Fabric
<1>2. \A p : Bus!Strobe(p) = BusP!Strobe(p)
  BY DEF Bus!Strobe, BusP!Strobe
<1>3. BusP!Asked(in)
  BY <1>1 DEF Bus!Asked, BusP!Asked
<1>4. BusP!Arbiter(in)
  <2>1. Bus!Grant = BusP!Grant /\ Bus!AfterB = BusP!AfterB
    BY <1>2 DEF Bus!Grant, BusP!Grant, Bus!AfterB, BusP!AfterB, Bus!ca_req_buffered,
       BusP!ca_req_buffered, Bus!cb_req_buffered, BusP!cb_req_buffered
  <2> QED  BY <1>1, <2>1, SameAnswers DEF Bus!Arbiter, BusP!Arbiter
<1>5. BusP!Buffers(in)
  BY <1>1, <1>2, SameAnswers DEF Bus!Buffers, BusP!Buffers
<1>6. BusP!Keeper(in)
  <2>1. Bus!TimedOut = BusP!TimedOut /\ Bus!Countdown = BusP!Countdown
    BY DEF Bus!TimedOut, BusP!TimedOut, Bus!Countdown, BusP!Countdown
  <2> QED  BY <1>1, <2>1, SameSwitch, SameAnswers DEF Bus!Keeper, BusP!Keeper
<1>7. BusP!ErrorFlag
  BY <1>1, SameSwitch DEF Bus!ErrorFlag, BusP!ErrorFlag, Bus!acc_en, BusP!acc_en
<1>8. BusP!Devices(in)
  BY <1>1, SameSwitch, SameAnswers
     DEF Bus!Devices, BusP!Devices, Bus!Internal, BusP!Internal
<1>9. BusP!External(in)
  BY <1>1, SameSwitch DEF Bus!External, BusP!External
<1>10. BusP!Record(in)
  BY <1>1, SameSwitch, SameAnswers DEF Bus!Record, BusP!Record
<1> QED  BY <1>1, <1>3, <1>4, <1>5, <1>6, <1>7, <1>8, <1>9, <1>10 DEF BusP!Fabric

LEMMA SameInit == Bus!FabricInit => BusP!FabricInit
BY SameSwitch DEF Bus!FabricInit, BusP!FabricInit

LEMMA SamePort ==
  ASSUME NEW in, NEW p
  PROVE  Bus!NextPort(p, in) = BusP!NextPort(p, in)
<1>1. Bus!Seen(p, in) = BusP!Seen(p, in)
  BY SameAnswers DEF Bus!Seen, BusP!Seen
<1>2. Bus!Requests = BusP!Requests /\ \A r : Bus!Raise(p, r) = BusP!Raise(p, r)
  BY SameSwitch DEF Bus!Requests, BusP!Requests, Bus!Reads, BusP!Reads, Bus!Raise, BusP!Raise
<1> QED  BY <1>1, <1>2, SameSwitch DEF Bus!NextPort, BusP!NextPort

-----------------------------------------------------------------------------
(* The fetch engine as a requester at port B.                               *)

LEMMA Wires ==
  ASSUME TypeOK
  PROVE  /\ FetchPort \in BusP!PortType
         /\ FetchPort.st = "req" <=> fetch.state = "S_REQUEST"
         /\ FetchPort.st = "wait" <=> fetch.state = "S_PENDING"
         /\ FetchPort.st \in {"idle", "req", "wait"}
         /\ FetchPort.adr = fetch.pc /\ FetchPort.we = FALSE
         /\ fetch.pc \in Words /\ fetch.pc # NoWord
<1>1. fetch.pc \in Words /\ fetch.pc # NoWord
  BY DEF TypeOK, Words, Halves
<1> QED  BY <1>1 DEF FetchPort, Strobe, BusP!PortType

(* While the engine waits, only the bus can end it.                         *)
LEMMA OnlyTheBus ==
  ASSUME Answered, Base, cfg.slow, NEW ans, fetch.state = "S_PENDING"
  PROVE  resp(ans) <=> ans.ack \/ ans.err
<1>1. cfg \in Configs /\ cfg.c \in BOOLEAN /\ fetch.unaligned \in BOOLEAN
  BY DEF Base, TypeOK
<1>2. ~fetch.pmp_err /\ ~a_err
  BY <1>1 DEF Base, Waiting, EvenRun, Uncompressed, a_err
<1> QED  BY <1>2 DEF resp

(* What the fetch engine takes from the wires is nothing, or the answer to   *)
(* the read that is open: the word it asked for, or an error where there    *)
(* may be one.                                                              *)
LEMMA Served ==
  ASSUME Distinct, Base, Reading, BusP!Inv, NEW in \in BusP!Inputs
  PROVE  /\ BusP!Answered("B", in) =>
              /\ fetch.state = "S_PENDING" /\ Answer(in) \in Answers
              /\ Answer(in).ack \/ Answer(in).err
         /\ ~BusP!Answered("B", in) => Answer(in) = NoAnswer
<1>1. Answer(in) = [ack |-> BusP!bus_sel = "B" /\ BusP!p_ack(in),
                    err |-> BusP!bus_sel = "B" /\ keeper.bus_err,
                    word |-> IF BusP!bus_sel = "B" /\ BusP!p_ack(in) THEN BusP!p_rdata(in)
                             ELSE NoWord]
  BY SameSwitch, SameAnswers DEF Answer
<1>2. BusP!Answered("B", in) <=> BusP!bus_sel = "B" /\ (BusP!p_ack(in) \/ keeper.bus_err)
  BY DEF BusP!Answered
<1>3. CASE ~BusP!Answered("B", in)
  BY <1>1, <1>2, <1>3 DEF NoAnswer
<1>4. CASE BusP!Answered("B", in)
  <2>1. TypeOK /\ "B" \in BusP!Ports
    BY DEF Base, BusP!Ports
  <2>2. /\ BusP!Seen("B", in)
        /\ keeper.bus_err =>
             ~BusP!p_ack(in) /\ RegionOf[FetchPort.adr] \in {"hole", "ext"}
        /\ ~keeper.bus_err => BusP!p_ack(in) /\ BusP!p_rdata(in) = FetchPort.adr
    BY <1>4, <2>1, BusAssumptions, BusP!OwnAnswer, Wires
  <2>3. fetch.state = "S_PENDING" /\ open = fetch.pc /\ open # NoWord
    BY <2>1, <2>2, Wires DEF BusP!Seen, Reading
  <2>4. CASE keeper.bus_err
    <3>1. open \in FaultWords
      BY <2>1, <2>2, <2>3, <2>4, Wires, FaultAssumption
    <3>2. PICK failed : failed = [NoAnswer EXCEPT !.err = TRUE]
      OBVIOUS
    <3>3. failed = [ack |-> FALSE, err |-> TRUE, word |-> NoWord]
      BY <3>2 DEF NoAnswer
    <3>4. Answer(in) = [ack |-> FALSE, err |-> TRUE, word |-> NoWord]
      BY <1>1, <1>2, <1>4, <2>2, <2>4
    <3> QED  BY <1>4, <2>3, <3>1, <3>2, <3>3, <3>4 DEF Answers
  <2>5. CASE ~keeper.bus_err
    <3>1. BusP!p_rdata(in) = open
      BY <2>1, <2>2, <2>3, <2>5, Wires
    <3>2. Answer(in) = [ack |-> TRUE, err |-> FALSE, word |-> open]
      BY <1>1, <1>2, <1>4, <2>2, <2>5, <3>1
    <3> QED  BY <1>4, <2>3, <3>2 DEF Answers
  <2> QED  BY <2>4, <2>5
<1> QED  BY <1>3, <1>4

(* A cycle on the bus is a cycle of the front end's own specification.      *)
LEMMA Brings ==
  ASSUME Distinct, Base, cfg.slow, Reading, BusP!Inv, NEW in \in BusP!Inputs,
         FrontEnd(Answer(in))
  PROVE  Next
<1>1. Answer(in) \in Answers \/ (Answer(in) = NoAnswer /\ open # NoWord)
  BY Served DEF Answers
<1> QED  BY <1>1 DEF Next, Clock, Wait

(* The fetch engine rests, waits or asks as the bus takes for granted.      *)
LEMMA Requests ==
  ASSUME Distinct, Answered, Base, cfg.slow, Reading, BusP!Inv, NEW in \in BusP!Inputs,
         FrontEnd(Answer(in))
  PROVE  FetchPort' \in BusP!PortType /\ BusP!GoesOn("B", in, FetchPort')
<1>1. PICK taken \in BOOLEAN : FetchEngine(Answer(in), Reset(taken))
  BY DEF FrontEnd
<1> DEFINE reset == Reset(taken)
<1>2. reset \in BOOLEAN /\ FetchEngine(Answer(in), reset) /\ fetch.state \in Fetch /\ TypeOK
  BY <1>1 DEF Reset, TypeOK, Base
<1> HIDE DEF reset
<1>3. TypeOK' /\ Base
  <2>1. [Next]_vars
    BY Brings
  <2> QED  BY <2>1, <1>2, StepType
<1>4. /\ FetchPort' \in BusP!PortType
      /\ FetchPort'.st = "req" <=> fetch'.state = "S_REQUEST"
      /\ FetchPort'.st = "wait" <=> fetch'.state = "S_PENDING"
      /\ FetchPort'.st \in {"idle", "req", "wait"}
      /\ FetchPort'.adr = fetch'.pc /\ FetchPort'.we = FALSE /\ fetch'.pc \in Words
  <2>1. fetch'.pc \in Words
    BY <1>3 DEF TypeOK
  <2> QED  BY <2>1 DEF FetchPort, Strobe, BusP!PortType
<1>5. [adr |-> FetchPort'.adr, we |-> FetchPort'.we] \in BusP!Requests["B"]
  BY <1>4 DEF BusP!Requests, BusP!Reads, BusP!Ports
<1>6. [A |-> data_port, B |-> FetchPort]["B"] = FetchPort
  OBVIOUS
<1>7. BusP!Seen("B", in) <=> fetch.state = "S_PENDING" /\ BusP!Answered("B", in)
  BY <1>2, <1>6, Wires DEF BusP!Seen
<1>8. CASE fetch.state \in {"S_RESTART", "S_WAIT"}
  <2>1. FetchPort.st = "idle"
    BY <1>2, <1>8, Wires
  <2>2. fetch'.state # "S_PENDING"
    BY <1>2, <1>8, FetchStep
  <2> QED  BY <1>4, <1>5, <1>6, <2>1, <2>2 DEF BusP!GoesOn
<1>9. CASE fetch.state = "S_REQUEST"
  <2>1. fetch'.state = "S_PENDING" /\ fetch'.pc = fetch.pc
    BY <1>2, <1>9, FetchStep, FetchPc DEF Push
  <2>2. FetchPort.st = "req" /\ ~BusP!Seen("B", in)
    BY <1>2, <1>7, <1>9, Wires
  <2> QED  BY <1>2, <1>4, <1>6, <2>1, <2>2, Wires DEF BusP!GoesOn
<1>10. CASE fetch.state = "S_PENDING" /\ BusP!Answered("B", in)
  <2>1. resp(Answer(in))
    BY <1>10, Served DEF resp
  <2>2. fetch'.state # "S_PENDING"
    BY <1>2, <1>10, <2>1, FetchStep DEF AfterFetch
  <2> QED  BY <1>4, <1>5, <1>6, <1>7, <1>10, <2>2 DEF BusP!GoesOn
<1>11. CASE fetch.state = "S_PENDING" /\ ~BusP!Answered("B", in)
  <2>1. ~resp(Answer(in))
    BY <1>11, Served, OnlyTheBus DEF NoAnswer
  <2>2. fetch'.state = "S_PENDING" /\ fetch'.pc = fetch.pc
    BY <1>2, <1>11, <2>1, FetchStep, FetchPc DEF Push
  <2>3. FetchPort.st = "wait"
    BY <1>2, <1>11, Wires
  <2> QED  BY <1>2, <1>4, <1>6, <1>7, <1>11, <2>2, <2>3, Wires DEF BusP!GoesOn
<1> QED  BY <1>2, <1>4, <1>8, <1>9, <1>10, <1>11 DEF Fetch

-----------------------------------------------------------------------------
(* The invariant of the composition.                                        *)

PathInv == Base /\ cfg.slow /\ InOrder /\ BusP!Inv

LEMMA PathBegins ==
  ASSUME Distinct, PathInit
  PROVE  PathInv
<1>1. Init /\ cfg.slow /\ BusP!FabricInit /\ data_port = BusP!NoAccess
  BY SameInit, SameSwitch DEF PathInit
<1>2. Base /\ InOrder
  BY <1>1, BaseInit, OrderInit
<1>3. TypeOK /\ fetch.state = "S_RESTART"
  BY <1>1, <1>2 DEF Init, Base
<1>4. /\ data_port \in BusP!PortType /\ data_port.st = "idle" /\ data_port.we = FALSE
      /\ FetchPort \in BusP!PortType /\ FetchPort.st = "idle" /\ FetchPort.we = FALSE
  BY <1>1, <1>3, Wires DEF BusP!NoAccess, BusP!PortType
<1>5. /\ [A |-> data_port, B |-> FetchPort] \in BusP!PortTypes
      /\ \A p \in BusP!Ports : /\ [A |-> data_port, B |-> FetchPort][p].st = "idle"
                               /\ [A |-> data_port, B |-> FetchPort][p].we = FALSE
  BY <1>4 DEF BusP!PortTypes, BusP!Ports
<1>6. BusP!Inv
  BY <1>1, <1>5, BusAssumptions, BusP!FabricStarts
<1> QED  BY <1>1, <1>2, <1>6 DEF PathInv

LEMMA PathGoesOn ==
  ASSUME Distinct, Answered, PathInv, [PathNext]_<<vars, fabric>>
  PROVE  [Next]_vars /\ PathInv'
<1>1. Base /\ cfg.slow /\ InOrder /\ Reading /\ BusP!Inv /\ TypeOK
  BY DEF PathInv, InOrder, Base
<1>2. CASE PathNext
  <2>1. PICK in \in BusP!Inputs :
          /\ BusP!Fabric(in) /\ FrontEnd(Answer(in)) /\ data_port' \in BusP!NextPort("A", in)
    BY <1>2, SameSwitch, SameFabric, SamePort DEF PathNext
  <2>2. Next
    BY <1>1, <2>1, Brings
  <2>3. Base' /\ InOrder' /\ cfg' = cfg
    BY <1>1, <2>1, <2>2, BaseStep, OrderStep DEF FrontEnd
  <2>4. FetchPort' \in BusP!PortType /\ BusP!GoesOn("B", in, FetchPort')
    BY <1>1, <2>1, Requests
  <2>5. data_port' \in BusP!PortType /\ BusP!GoesOn("A", in, data_port')
    <3>1. "A" \in BusP!Ports /\ BusP!FabricType
      BY <1>1 DEF BusP!Ports, BusP!Inv
    <3> QED  BY <2>1, <3>1, BusAssumptions, BusP!NextPortGoesOn
  <2>6. BusP!Requesters(in)
    <3>1. [A |-> data_port', B |-> FetchPort'] \in BusP!PortTypes
      BY <2>4, <2>5 DEF BusP!PortTypes, BusP!Ports
    <3> QED  BY <3>1, <2>4, <2>5 DEF BusP!Requesters, BusP!Ports
  <2>7. BusP!Inv'
    BY <1>1, <2>1, <2>6, BusAssumptions, BusP!FabricGoesOn
  <2> QED  BY <1>1, <2>2, <2>3, <2>7 DEF PathInv
<1>3. CASE UNCHANGED <<vars, fabric>>
  <2>1. UNCHANGED vars /\ async' = async /\ UNCHANGED BusP!fabricVars
    BY <1>3 DEF fabric, BusP!fabricVars
  <2>2. Base' /\ InOrder'
    BY <1>1, <2>1, BaseStep, OrderStep
  <2>3. [A |-> data_port', B |-> FetchPort'] = [A |-> data_port, B |-> FetchPort]
    BY <1>3 DEF fabric, vars, FetchPort, Strobe
  <2>4. BusP!Inv'
    BY <1>1, <2>1, <2>3, BusAssumptions, BusP!FabricStays
  <2>5. cfg' = cfg
    BY <2>1 DEF vars
  <2> QED  BY <1>1, <2>1, <2>2, <2>4, <2>5 DEF PathInv
<1> QED  BY <1>2, <1>3

-----------------------------------------------------------------------------
(* What follows.                                                            *)

(* On the real bus - with the keeper, the switch and the data accesses in   *)
(* between - the front end behaves as its own specification says: every     *)
(* fetch is answered with the word that was asked for, and only where a     *)
(* read may fail with an error.                                             *)
THEOREM PathImplements ==
  ASSUME Distinct, Answered
  PROVE  PathSpec => ImplementsFrontEnd
<1>1. PathInit => PathInv /\ Init
  BY PathBegins DEF PathInit
<1>2. PathInv /\ [PathNext]_<<vars, fabric>> => [Next]_vars /\ PathInv'
  BY PathGoesOn
<1> QED  BY <1>1, <1>2, PTL DEF PathSpec, ImplementsFrontEnd, Spec

(* Hence the whole path keeps the program order: what the execute engine    *)
(* runs is the memory's, however bus, devices and data accesses delay it.   *)
THEOREM PathInOrder ==
  ASSUME Distinct, Answered
  PROVE  PathSpec => ImplementsOrder /\ []FaultReal
<1>1. PathSpec => Spec
  BY PathImplements DEF ImplementsFrontEnd
<1> QED  BY <1>1, OrderCorrect, FaultRealCorrect, PTL

(* And the bus works as if it were alone with its ports: one access at a    *)
(* time, for the port that is selected, watched by the keeper.              *)
THEOREM PathOneTransfer ==
  ASSUME Distinct, Answered
  PROVE  PathSpec => [](Bus!Watched /\ Bus!OneTransfer)
<1>1. PathInit => PathInv
  BY PathBegins
<1>2. PathInv /\ [PathNext]_<<vars, fabric>> => PathInv'
  BY PathGoesOn
<1>3. PathInv => Bus!Watched /\ Bus!OneTransfer
  <2>1. ASSUME PathInv PROVE BusP!Watched /\ BusP!OneTransfer
    BY <2>1, BusAssumptions, BusP!InvImplies DEF PathInv
  <2> QED  BY <2>1, SameSwitch
           DEF Bus!Watched, BusP!Watched, Bus!OneTransfer, BusP!OneTransfer
<1> QED  BY <1>1, <1>2, <1>3, PTL DEF PathSpec
=============================================================================
