-------------------------- MODULE BusFabric_proofs --------------------------
(***************************************************************************)
(* Proofs about the bus, for every address map, window, latency and time-   *)
(* out that the assumptions of BusFabric allow.                             *)
(***************************************************************************)
EXTENDS BusFabric, TLAPS

-----------------------------------------------------------------------------
(* The inductive invariant.                                                 *)

(* The types of everything but the answers, which no unit reads.            *)
PortType == [st : {"idle", "req", "wait"}, adr : Adr \union {NoReq}, we : BOOLEAN]
PortTypes == [Ports -> PortType]
AnswerTypes == [Ports -> Adr \union {NoReq, "error"}]
FabricType ==
  /\ async \in BOOLEAN
  /\ port \in PortTypes
  /\ arb \in ArbStates
  /\ buf \in [ard : BOOLEAN, awr : BOOLEAN, brd : BOOLEAN]
  /\ keeper \in [pending : BOOLEAN, timeout : 0 .. Window - 1, ignore : BOOLEAN,
                 bus_err : BOOLEAN, type : {"device", "timeout"}]
  /\ flag \in [err : BOOLEAN, type : {"device", "timeout"}]
  /\ dev \in [adr : Adr, we : BOOLEAN, age : 1 .. SlowMax] \union {NoReq}
  /\ xbus \in [busy : BOOLEAN, adr : Adr \union {NoReq}, timeout : 0 .. ExtTimeout,
               ack : BOOLEAN, err : BOOLEAN, tmo : BOOLEAN]
  /\ put \in [Ports -> 0 .. 2]

Busy == arb \in {"A_BUSY", "B_BUSY"}
BusyFor(p) == IF p = "A" THEN "A_BUSY" ELSE "B_BUSY"
Mine == port[bus_sel]
Region == RegionOf[Mine.adr]

(* What a port asks for stays in its buffer until it is answered.           *)
Requested ==
  /\ \A p \in Ports : port[p].st # "idle" => port[p].adr \in Adr
  /\ port["B"].we = FALSE
  /\ buf.ard = (port["A"].st = "wait" /\ ~port["A"].we)
  /\ buf.awr = (port["A"].st = "wait" /\ port["A"].we)
  /\ buf.brd = (port["B"].st = "wait")

(* The bus is granted to a port that waits; it is there once.               *)
Granted ==
  /\ arb # "IDLE" => Mine.st = "wait"
  /\ put = [p \in Ports |-> IF arb = BusyFor(p) THEN 1 ELSE 0]

(* Between two accesses; what may still stand on the wires is the registered *)
(* copy of an answer that has been passed on directly.                      *)
AtRest ==
  /\ ~keeper.pending /\ ~keeper.bus_err
  /\ dev = NoReq
  /\ ~xbus.busy /\ ~xbus.err /\ (xbus.ack => async)

(* The phases of an access: who has it, and how much time is left.          *)
Silent == ~xbus.busy /\ ~xbus.ack /\ ~xbus.err /\ ~xbus.tmo
Watching == keeper.pending /\ ~keeper.bus_err
AtDevice ==
  /\ Watching /\ Silent /\ dev # NoReq
  /\ Region \in Internal /\ dev.adr = Mine.adr /\ dev.we = Mine.we
  /\ dev.age + keeper.timeout = Window
AtExternal ==
  /\ Watching /\ dev = NoReq /\ Region = "ext"
  /\ xbus.busy /\ ~xbus.ack /\ ~xbus.err /\ ~xbus.tmo /\ xbus.adr = Mine.adr
  /\ keeper.ignore \/ keeper.timeout = Window - 1
FromExternal ==
  /\ Watching /\ dev = NoReq /\ Region = "ext" /\ keeper.ignore
  /\ ~xbus.busy
  /\ \/ xbus.ack /\ ~xbus.err /\ ~xbus.tmo /\ ~async /\ xbus.adr = Mine.adr
     \/ ~xbus.ack /\ (xbus.err \/ xbus.tmo)
Nowhere == Watching /\ Silent /\ dev = NoReq /\ Region = "hole"
Failed ==
  /\ ~keeper.pending /\ keeper.bus_err
  /\ Silent /\ dev = NoReq
  /\ \/ Region = "hole" /\ keeper.type = "timeout"
     \/ Region = "ext"
     \/ Region = "rom" /\ Mine.we /\ keeper.type = "device"

Phase == AtDevice \/ AtExternal \/ FromExternal \/ Nowhere \/ Failed

Inv == /\ FabricType /\ Requested /\ Granted
       /\ ~Busy => AtRest
       /\ Busy => Phase

(* All the fabric needs to know of who is at its ports: a port rests, keeps  *)
(* a request until it is answered, or raises one for one cycle.             *)
GoesOn(p, in, next) ==
  \/ /\ port[p].st = "idle" \/ Seen(p, in)
     /\ next.st = "idle" /\ next.we = FALSE
  \/ /\ port[p].st # "idle" /\ ~Seen(p, in)
     /\ next.st = "wait" /\ next.adr = port[p].adr /\ next.we = port[p].we
  \/ /\ port[p].st = "idle" \/ (p = "B" /\ Seen(p, in))
     /\ next.st = "req"
     /\ [adr |-> next.adr, we |-> next.we] \in Requests[p]
Requesters(in) ==
  /\ port' \in PortTypes
  /\ \A p \in Ports : GoesOn(p, in, port'[p])

-----------------------------------------------------------------------------
(* The wires.                                                               *)

LEMMA Selected ==
  ASSUME FabricType
  PROVE  /\ bus_sel \in Ports
         /\ arb \in {"A_BUSY", "A_RETIRE"} => bus_sel = "A"
         /\ arb \in {"B_BUSY", "B_RETIRE"} => bus_sel = "B"
         /\ Busy <=> arb = BusyFor(bus_sel)
BY DEF FabricType, bus_sel, Ports, Busy, BusyFor, ArbStates

LEMMA TypesPorts ==
  ASSUME FabricType, NEW p \in Ports
  PROVE  /\ port[p] \in [st : {"idle", "req", "wait"}, adr : Adr \union {NoReq}, we : BOOLEAN]
         /\ port[p].st \in {"idle", "req", "wait"}
         /\ port[p].adr \in Adr \union {NoReq}
         /\ port[p].we \in BOOLEAN
BY DEF FabricType, PortTypes, PortType

(* What is on the bus is the request of the selected port, while no access  *)
(* is under way.                                                            *)
LEMMA OnBus ==
  ASSUME FabricType, Requested, Granted
  PROVE  /\ p_on <=> \/ arb \in {"A_RETIRE", "B_RETIRE"}
                     \/ arb = "IDLE" /\ Strobe(bus_sel)
         /\ p_on => /\ ~Busy /\ Mine.st # "idle" /\ p_we = Mine.we
                    /\ p_addr = Mine.adr /\ Mine.adr \in Adr
<1> USE DEF p_on, p_we, p_re, p_addr, Strobe, Mine, Busy
<1>1. /\ bus_sel \in Ports /\ Mine.we \in BOOLEAN
      /\ Mine.st \in {"idle", "req", "wait"}
  BY Selected, TypesPorts
<1>2. CASE arb \in {"A_BUSY", "B_BUSY"}
  BY <1>1, <1>2 DEF Granted
<1>3. CASE arb = "A_RETIRE"
  BY <1>1, <1>3, Selected DEF Granted, Requested
<1>4. CASE arb = "B_RETIRE"
  BY <1>1, <1>4, Selected DEF Granted, Requested
<1>5. CASE arb = "IDLE"
  BY <1>1, <1>5 DEF Requested
<1> QED  BY <1>2, <1>3, <1>4, <1>5 DEF FabricType, ArbStates

(* Nobody answers between two accesses.                                     *)
LEMMA NoAnswer ==
  ASSUME AtRest, NEW in
  PROVE  /\ ~devAnswers(in) /\ ~xAck(in) /\ ~p_ack(in) /\ ~p_err(in)
         /\ \A p \in Ports : ~Answered(p, in) /\ ~Seen(p, in)
BY DEF AtRest, devAnswers, xAck, p_ack, p_err, Answered, Seen

(* An answer goes to the port that waits for it.                            *)
LEMMA Gated ==
  ASSUME Inv, NEW in, NEW p \in Ports
  PROVE  /\ Seen(p, in) <=> Answered(p, in)
         /\ Answered(p, in) => Busy /\ bus_sel = p /\ (p_ack(in) \/ keeper.bus_err)
<1>1. CASE ~Busy
  BY <1>1, NoAnswer DEF Inv
<1>2. CASE Busy
  BY <1>2, Selected DEF Inv, Granted, Busy, Mine, Seen, Answered
<1> QED  BY <1>1, <1>2

(* What a port asks for.                                                    *)
LEMMA RequestsType ==
  ASSUME NEW p \in Ports, NEW r \in Requests[p]
  PROVE  r.adr \in Adr /\ r.we \in BOOLEAN /\ (p = "B" => r.we = FALSE)
         /\ r = [adr |-> r.adr, we |-> r.we]
<1>1. CASE p = "A"
  <2>1. r \in [adr : Adr, we : BOOLEAN]
    BY <1>1 DEF Requests, Ports
  <2> QED  BY <2>1, <1>1
<1>2. CASE p = "B"
  <2>1. r \in [adr : Adr, we : {FALSE}]
    BY <1>2 DEF Requests, Reads, Ports
  <2> QED  BY <2>1
<1> QED  BY <1>1, <1>2 DEF Ports

-----------------------------------------------------------------------------
(* One cycle.                                                               *)

(* A port that is not answered goes on waiting.                             *)
LEMMA Waits ==
  ASSUME FabricType, NEW in \in Inputs, Requesters(in), NEW p \in Ports,
         port[p].st # "idle", ~Seen(p, in)
  PROVE  port'[p].st = "wait" /\ port'[p].adr = port[p].adr /\ port'[p].we = port[p].we
BY DEF Requesters, GoesOn

(* The arbiter: an access begins, none begins, one ends, or it goes on.     *)
LEMMA ArbiterNext ==
  ASSUME Inv, NEW in \in Inputs, Fabric(in), Requesters(in)
  PROVE  /\ \/ /\ ~Busy /\ p_on /\ arb' = BusyFor(bus_sel)
            \/ /\ ~Busy /\ ~p_on /\ arb' \in {"IDLE", "A_RETIRE", "B_RETIRE"}
            \/ /\ Busy /\ ~p_on /\ Answered(bus_sel, in)
               /\ arb' \in {"IDLE", "A_RETIRE"}
            \/ /\ Busy /\ ~p_on /\ ~Answered(bus_sel, in) /\ arb' = arb
         /\ arb' = "A_RETIRE" => port'["A"].st = "wait"
         /\ arb' = "B_RETIRE" => port'["B"].st = "wait"
<1> USE DEF Busy, BusyFor
<1>1. FabricType /\ Requested /\ Granted /\ Arbiter(in)
  BY DEF Inv, Fabric
<1>2. "A" \in Ports /\ "B" \in Ports
  BY DEF Ports
<1>3. CASE arb \in {"A_RETIRE", "B_RETIRE"}
  BY <1>1, <1>3, OnBus, Selected DEF Arbiter
<1>4. CASE arb = "IDLE" /\ Strobe("A")
  <2>1. bus_sel = "A" /\ arb' = "A_BUSY"
    BY <1>1, <1>4 DEF bus_sel, Arbiter, Grant
  <2> QED  BY <2>1, <1>1, <1>4, OnBus
<1>5. CASE arb = "IDLE" /\ ~Strobe("A") /\ ca_req_buffered
  <2>1. bus_sel = "A" /\ arb' = "A_RETIRE"
    BY <1>1, <1>5 DEF bus_sel, Arbiter, Grant
  <2>2. port["A"].st = "wait" /\ ~Seen("A", in)
    BY <1>1, <1>2, <1>5, Gated DEF Requested, ca_req_buffered
  <2>3. port'["A"].st = "wait"
    BY <2>2, <1>1, <1>2, Waits
  <2> QED  BY <2>1, <2>3, <1>1, <1>5, OnBus
<1>6. CASE arb = "IDLE" /\ ~Strobe("A") /\ ~ca_req_buffered /\ Strobe("B")
  <2>1. bus_sel = "B" /\ arb' = "B_BUSY"
    BY <1>1, <1>6 DEF bus_sel, Arbiter, Grant
  <2> QED  BY <2>1, <1>1, <1>6, OnBus
<1>7. CASE arb = "IDLE" /\ ~Strobe("A") /\ ~ca_req_buffered /\ ~Strobe("B")
  <2>1. arb' = IF cb_req_buffered THEN "B_RETIRE" ELSE "IDLE"
    BY <1>1, <1>7 DEF Arbiter, Grant
  <2>2. ~Strobe(bus_sel)
    BY <1>7 DEF bus_sel
  <2>3. arb' = "B_RETIRE" => port["B"].st = "wait" /\ ~Seen("B", in)
    BY <2>1, <1>1, <1>2, <1>7, Gated DEF Requested, cb_req_buffered
  <2>4. arb' = "B_RETIRE" => port'["B"].st = "wait"
    BY <2>3, <1>1, <1>2, Waits
  <2> QED  BY <2>1, <2>2, <2>4, <1>1, <1>7, OnBus
<1>8. CASE Busy
  <2>1. ~p_on /\ bus_sel \in Ports
    BY <1>1, <1>8, OnBus, Selected
  <2>2. Answered(bus_sel, in) <=> p_ack(in) \/ keeper.bus_err
    BY DEF Answered
  <2>3. CASE ~Answered(bus_sel, in)
    BY <2>1, <2>2, <2>3, <1>1, <1>8 DEF Arbiter
  <2>4. CASE Answered(bus_sel, in) /\ arb = "A_BUSY"
    BY <2>1, <2>2, <2>4, <1>1, <1>8 DEF Arbiter
  <2>5. CASE Answered(bus_sel, in) /\ arb = "B_BUSY"
    <3>1. bus_sel = "B" /\ arb' = AfterB
      BY <2>2, <2>5, <1>1, Selected DEF Arbiter
    <3>2. ~Seen("A", in)
      BY <3>1 DEF Seen, Answered
    <3>3. arb' = "A_RETIRE" => port["A"].st # "idle"
      BY <3>1, <1>1 DEF AfterB, Strobe, ca_req_buffered, Requested
    <3>4. arb' = "A_RETIRE" => port'["A"].st = "wait"
      BY <3>2, <3>3, <1>1, <1>2, Waits
    <3> QED  BY <3>1, <3>4, <2>1, <2>5, <1>8 DEF AfterB
  <2> QED  BY <2>3, <2>4, <2>5, <1>8
<1> QED
  BY <1>1, <1>3, <1>4, <1>5, <1>6, <1>7, <1>8 DEF FabricType, ArbStates

(* Requests stay in the buffers.                                            *)
LEMMA RequestedNext ==
  ASSUME Inv, NEW in \in Inputs, Fabric(in), Requesters(in)
  PROVE  Requested'
<1>1. FabricType /\ Requested /\ Buffers(in)
  BY DEF Inv, Fabric
<1>2. "A" \in Ports /\ "B" \in Ports
  BY DEF Ports
<1>3. \A p \in Ports : port'[p].st # "idle" => port'[p].adr \in Adr
  <2>1. TAKE p \in Ports
  <2>2. CASE [adr |-> port'[p].adr, we |-> port'[p].we] \in Requests[p]
    BY <2>2, RequestsType
  <2> QED  BY <2>2, <1>1 DEF Requesters, GoesOn, Requested
<1>4. port'["B"].we = FALSE
  <2>1. CASE [adr |-> port'["B"].adr, we |-> port'["B"].we] \in Requests["B"]
    BY <2>1, <1>2, RequestsType
  <2> QED  BY <2>1, <1>1, <1>2 DEF Requesters, GoesOn, Requested
<1>5. \A p \in Ports : port'[p].st = "wait" <=> port[p].st # "idle" /\ ~Answered(p, in)
  <2>1. TAKE p \in Ports
  <2>2. Seen(p, in) <=> Answered(p, in)
    BY Gated
  <2> QED  BY <2>2, <1>1 DEF Requesters, GoesOn
<1>6. port'["A"].st = "wait" => port'["A"].we = port["A"].we
  BY <1>1, <1>2, <1>5 DEF Requesters, GoesOn
<1>7. \A p \in Ports : port[p].st \in {"idle", "req", "wait"} /\ port[p].we \in BOOLEAN
  BY <1>1, TypesPorts
<1>8. buf'.ard = (port'["A"].st = "wait" /\ ~port'["A"].we)
  BY <1>1, <1>2, <1>5, <1>6, <1>7 DEF Buffers, Strobe, Requested
<1>9. buf'.awr = (port'["A"].st = "wait" /\ port'["A"].we)
  BY <1>1, <1>2, <1>5, <1>6, <1>7 DEF Buffers, Strobe, Requested
<1>10. buf'.brd = (port'["B"].st = "wait")
  BY <1>1, <1>2, <1>5, <1>7 DEF Buffers, Strobe, Requested
<1> QED  BY <1>3, <1>4, <1>8, <1>9, <1>10 DEF Requested

(* The selection stays with an access, and so does the request.             *)
LEMMA SelectionNext ==
  ASSUME Inv, NEW in \in Inputs, Fabric(in), Requesters(in),
         (~Busy /\ p_on) \/ (Busy /\ ~Answered(bus_sel, in))
  PROVE  /\ Busy' /\ bus_sel' = bus_sel
         /\ Mine'.st = "wait" /\ Mine'.adr = Mine.adr /\ Mine'.we = Mine.we
         /\ Region' = Region
<1>1. FabricType /\ Requested /\ Granted
  BY DEF Inv
<1>2. arb' = BusyFor(bus_sel) /\ bus_sel \in Ports
  BY <1>1, ArbiterNext, Selected
<1>3. Busy' /\ bus_sel' = bus_sel
  BY <1>2 DEF BusyFor, Busy, bus_sel, Ports
<1>4. ~Seen(bus_sel, in)
  BY <1>2, Gated
<1>5. port[bus_sel].st # "idle"
  BY <1>1, <1>2, OnBus DEF Granted, Mine, Busy
<1>6. /\ port'[bus_sel].st = "wait" /\ port'[bus_sel].adr = port[bus_sel].adr
      /\ port'[bus_sel].we = port[bus_sel].we
  BY <1>1, <1>2, <1>4, <1>5, Waits
<1> QED  BY <1>3, <1>6 DEF Mine, Region

(* A grant lasts until the answer, and is given to a port that waits.       *)
LEMMA GrantedNext ==
  ASSUME Inv, NEW in \in Inputs, Fabric(in), Requesters(in)
  PROVE  Granted'
<1>1. FabricType /\ Requested /\ Granted /\ Record(in)
  BY DEF Inv, Fabric
<1>2. bus_sel \in Ports /\ \A p \in Ports : Seen(p, in) <=> Answered(p, in)
  BY <1>1, Selected, Gated
<1>3. CASE (~Busy /\ p_on) \/ (Busy /\ ~Answered(bus_sel, in))
  <2>1. arb' = BusyFor(bus_sel) /\ Mine'.st = "wait"
    BY <1>1, <1>3, ArbiterNext, Selected, SelectionNext
  <2>2. \A p \in Ports : ~Answered(p, in)
    BY <1>3, Gated
  <2>3. \A p \in Ports : put'[p] = IF arb' = BusyFor(p) THEN 1 ELSE 0
    <3>1. CASE ~Busy /\ p_on
      BY <3>1, <2>1, <2>2, <1>1, <1>2, OnBus DEF Record, Granted, BusyFor, Busy, Ports, Mine
    <3>2. CASE Busy /\ ~p_on
      BY <3>2, <2>1, <2>2, <1>1, <1>2, Selected DEF Record, Granted, BusyFor, Busy, Ports
    <3> QED  BY <3>1, <3>2, <1>1, <1>3, OnBus
  <2>4. put' = [p \in Ports |-> IF arb' = BusyFor(p) THEN 1 ELSE 0]
    BY <2>3, <1>1 DEF Record
  <2> QED  BY <2>1, <2>4 DEF Granted
<1>4. CASE ~p_on /\ (Busy => Answered(bus_sel, in))
  <2>1. /\ arb' \in {"IDLE", "A_RETIRE", "B_RETIRE"}
        /\ arb' = "A_RETIRE" => port'["A"].st = "wait"
        /\ arb' = "B_RETIRE" => port'["B"].st = "wait"
    BY <1>4, ArbiterNext
  <2>2. arb' # "IDLE" => Mine'.st = "wait"
    BY <2>1 DEF Mine, bus_sel
  <2>3. \A p \in Ports : put'[p] = 0
    <3>1. CASE Busy
      <4>1. Seen(bus_sel, in)
        BY <3>1, <1>2, <1>4
      <4> QED  BY <4>1, <3>1, <1>1, <1>2, <1>4, Selected DEF Record, Granted, BusyFor, Ports, Seen
    <3>2. CASE ~Busy
      BY <3>2, <1>1, <1>4 DEF Record, Granted, BusyFor, Ports, Busy
    <3> QED  BY <3>1, <3>2
  <2>4. put' = [p \in Ports |-> IF arb' = BusyFor(p) THEN 1 ELSE 0]
    BY <2>1, <2>3, <1>1 DEF Record, BusyFor
  <2> QED  BY <2>2, <2>4 DEF Granted
<1> QED
  BY <1>1, <1>3, <1>4, OnBus

-----------------------------------------------------------------------------
(* The phases of an access.                                                 *)

LEMMA TypesUnits ==
  ASSUME FabricType
  PROVE  /\ keeper \in [pending : BOOLEAN, timeout : 0 .. Window - 1, ignore : BOOLEAN,
                        bus_err : BOOLEAN, type : {"device", "timeout"}]
         /\ keeper.timeout \in 0 .. Window - 1 /\ Window \in Nat /\ Window >= 2
         /\ dev # NoReq => /\ dev \in [adr : Adr, we : BOOLEAN, age : 1 .. SlowMax]
                           /\ dev.adr \in Adr /\ dev.we \in BOOLEAN
                           /\ dev.age \in 1 .. SlowMax
         /\ SlowMax \in 1 .. Window - 1
         /\ xbus \in [busy : BOOLEAN, adr : Adr \union {NoReq}, timeout : 0 .. ExtTimeout,
                      ack : BOOLEAN, err : BOOLEAN, tmo : BOOLEAN]
         /\ async \in BOOLEAN
BY WindowAssumption, LatencyAssumption DEF FabricType

(* A record of a request is something.                                      *)
LEMMA Something ==
  ASSUME NEW a \in Adr, NEW w \in BOOLEAN
  PROVE  /\ [adr |-> a, we |-> w] # NoReq
         /\ \A g \in 1 .. SlowMax : [adr |-> a, we |-> w, age |-> g] # NoReq
BY NothingAssumption

(* What the keeper's register becomes, for each thing that may happen.      *)
LEMMA KeeperNext ==
  ASSUME FabricType, NEW in, Keeper(in)
  PROVE  /\ ~keeper.pending =>
              /\ keeper'.pending = p_on /\ keeper'.bus_err = FALSE
              /\ keeper'.ignore = FALSE /\ keeper'.timeout = Window - 1
              /\ keeper'.type = keeper.type
         /\ keeper.pending =>
              /\ keeper'.timeout = Countdown /\ keeper'.ignore = (keeper.ignore \/ xbus.busy)
              /\ CASE p_err(in) -> /\ keeper'.pending = FALSE /\ keeper'.bus_err = TRUE
                                   /\ keeper'.type = "device"
                   [] ~p_err(in) /\ TimedOut ->
                        /\ keeper'.pending = FALSE /\ keeper'.bus_err = TRUE
                        /\ keeper'.type = "timeout"
                   [] ~p_err(in) /\ ~TimedOut /\ p_ack(in) ->
                        /\ keeper'.pending = FALSE /\ keeper'.bus_err = FALSE
                        /\ keeper'.type = "device"
                   [] OTHER -> /\ keeper'.pending = TRUE /\ keeper'.bus_err = FALSE
                               /\ keeper'.type = keeper.type
<1>1. /\ keeper \in [pending : BOOLEAN, timeout : 0 .. Window - 1, ignore : BOOLEAN,
                     bus_err : BOOLEAN, type : {"device", "timeout"}]
      /\ xbus.busy \in BOOLEAN
  BY TypesUnits
<1>2. CASE ~keeper.pending
  BY <1>1, <1>2 DEF Keeper
<1>3. CASE keeper.pending /\ p_err(in)
  BY <1>1, <1>3 DEF Keeper
<1>4. CASE keeper.pending /\ ~p_err(in) /\ TimedOut
  BY <1>1, <1>4 DEF Keeper
<1>5. CASE keeper.pending /\ ~p_err(in) /\ ~TimedOut /\ p_ack(in)
  BY <1>1, <1>5 DEF Keeper
<1>6. CASE keeper.pending /\ ~p_err(in) /\ ~TimedOut /\ ~p_ack(in)
  BY <1>1, <1>6 DEF Keeper
<1> QED  BY <1>2, <1>3, <1>4, <1>5, <1>6

(* And the keeper's register keeps its type.                                *)
LEMMA KeeperType ==
  ASSUME FabricType, NEW in, Keeper(in)
  PROVE  keeper' \in [pending : BOOLEAN, timeout : 0 .. Window - 1, ignore : BOOLEAN,
                      bus_err : BOOLEAN, type : {"device", "timeout"}]
<1>1. /\ keeper \in [pending : BOOLEAN, timeout : 0 .. Window - 1, ignore : BOOLEAN,
                     bus_err : BOOLEAN, type : {"device", "timeout"}]
      /\ xbus.busy \in BOOLEAN /\ Window \in Nat /\ Window >= 2
      /\ Countdown \in 0 .. Window - 1 /\ Window - 1 \in 0 .. Window - 1
      /\ p_on \in BOOLEAN
  BY TypesUnits DEF Countdown, p_on
<1>2. CASE ~keeper.pending
  BY <1>1, <1>2 DEF Keeper
<1>3. CASE keeper.pending
  BY <1>1, <1>3 DEF Keeper
<1> QED  BY <1>2, <1>3

(* The external interface while nothing is asked of it.                     *)
LEMMA ExternalQuiet ==
  ASSUME NEW in, External(in), ~xbus.busy, ~p_on \/ RegionOf[p_addr] # "ext"
  PROVE  Silent'
BY DEF External, Silent

(* An access begins.                                                        *)
LEMMA Begins ==
  ASSUME Inv, NEW in \in Inputs, Fabric(in), Requesters(in), ~Busy, p_on
  PROVE  AtDevice' \/ AtExternal' \/ Nowhere'
<1>1. /\ FabricType /\ Requested /\ Granted /\ AtRest
      /\ Keeper(in) /\ Devices(in) /\ External(in)
  BY DEF Inv, Fabric
<1>2. /\ Mine'.adr = Mine.adr /\ Mine'.we = Mine.we /\ Region' = Region
      /\ p_addr = Mine.adr /\ p_we = Mine.we /\ Mine.adr \in Adr /\ Mine.we \in BOOLEAN
  BY <1>1, OnBus, SelectionNext, Selected, TypesPorts DEF Mine
<1>3. Watching' /\ keeper'.timeout = Window - 1
  BY <1>1, KeeperNext DEF AtRest, Watching
<1>4. Region \in Regions /\ Region = RegionOf[p_addr]
  BY <1>2, RegionAssumption DEF Region
<1>5. CASE Region \in Internal
  <2>1. Silent'
    BY <1>1, <1>4, <1>5, ExternalQuiet DEF AtRest, Internal
  <2>2. dev' = [adr |-> Mine.adr, we |-> Mine.we, age |-> 1]
    BY <1>1, <1>2, <1>4, <1>5 DEF Devices
  <2>3. dev' # NoReq
    BY <2>2, <1>2, Something, LatencyAssumption, WindowAssumption
  <2>4. dev'.age + keeper'.timeout = Window
    BY <2>2, <1>3, WindowAssumption
  <2> QED  BY <2>1, <2>2, <2>3, <2>4, <1>2, <1>3, <1>5 DEF AtDevice
<1>6. CASE Region = "ext"
  <2>1. dev' = NoReq
    BY <1>1, <1>4, <1>6 DEF Devices, AtRest, Internal
  <2>2. /\ xbus'.busy /\ ~xbus'.ack /\ ~xbus'.err /\ ~xbus'.tmo
        /\ xbus'.adr = Mine.adr
    BY <1>1, <1>2, <1>4, <1>6 DEF External, AtRest
  <2> QED  BY <2>1, <2>2, <1>2, <1>3, <1>6 DEF AtExternal
<1>7. CASE Region = "hole"
  <2>1. Silent'
    BY <1>1, <1>4, <1>7, ExternalQuiet DEF AtRest
  <2>2. dev' = NoReq
    BY <1>1, <1>4, <1>7 DEF Devices, AtRest, Internal
  <2> QED  BY <2>1, <2>2, <1>2, <1>3, <1>7 DEF Nowhere
<1> QED  BY <1>4, <1>5, <1>6, <1>7 DEF Regions, Internal

(* Each phase ends with the answer, or goes over into the next one.         *)
Proceeds(in) == IF Answered(bus_sel, in) THEN AtRest' ELSE Phase'

LEMMA FromDevice ==
  ASSUME Inv, NEW in \in Inputs, Fabric(in), Requesters(in), Busy, AtDevice
  PROVE  Proceeds(in)
<1>1. /\ FabricType /\ Requested /\ Granted /\ ~p_on
      /\ Keeper(in) /\ Devices(in) /\ External(in) /\ Asked(in)
  BY OnBus DEF Inv, Fabric
<1>2. /\ Silent' /\ keeper.pending /\ ~keeper.bus_err /\ dev # NoReq
      /\ ~xAck(in) /\ ~xbus.err /\ ~xbus.busy /\ ~xbus.tmo
  BY <1>1, ExternalQuiet DEF AtDevice, Silent, Watching, xAck
<1>3. /\ dev.age \in 1 .. SlowMax /\ keeper.timeout \in 1 .. Window - 1 /\ Window \in Nat
      /\ dev.adr \in Adr /\ dev.we \in BOOLEAN
      /\ dev = [adr |-> dev.adr, we |-> dev.we, age |-> dev.age]
      /\ SlowMax \in 1 .. Window - 1 /\ SlowMax \in Nat
  BY <1>1, <1>2, TypesUnits DEF AtDevice
<1>4. ~TimedOut
  BY <1>2, <1>3 DEF TimedOut
<1>5. CASE devAnswers(in) /\ devError
  <2>1. p_err(in) /\ ~p_ack(in) /\ ~Answered(bus_sel, in)
    BY <1>2, <1>5 DEF p_err, p_ack, Answered
  <2>2. ~keeper'.pending /\ keeper'.bus_err /\ keeper'.type = "device"
    BY <2>1, <1>1, <1>2, KeeperNext
  <2>3. dev' = NoReq
    BY <1>1, <1>5 DEF Devices
  <2>4. Region = "rom" /\ Mine.we
    BY <1>5 DEF devError, AtDevice, Region
  <2>5. Mine'.we = Mine.we /\ Region' = Region
    BY <2>1, SelectionNext
  <2> QED  BY <2>1, <2>2, <2>3, <2>4, <2>5, <1>2 DEF Proceeds, Phase, Failed
<1>6. CASE devAnswers(in) /\ ~devError
  <2>1. ~p_err(in) /\ p_ack(in) /\ Answered(bus_sel, in)
    BY <1>2, <1>6 DEF p_err, p_ack, Answered
  <2>2. ~keeper'.pending /\ ~keeper'.bus_err
    BY <2>1, <1>1, <1>2, <1>4, KeeperNext
  <2>3. dev' = NoReq
    BY <1>1, <1>6 DEF Devices
  <2> QED  BY <2>1, <2>2, <2>3, <1>2 DEF Proceeds, AtRest, Silent
<1>7. CASE ~devAnswers(in)
  <2>1. ~p_err(in) /\ ~p_ack(in) /\ ~Answered(bus_sel, in)
    BY <1>2, <1>7 DEF p_err, p_ack, Answered
  <2>2. keeper'.pending /\ ~keeper'.bus_err /\ keeper'.timeout = Countdown
    BY <2>1, <1>1, <1>2, <1>4, KeeperNext
  <2>3. dev.age + 1 \in 1 .. SlowMax
    BY <1>1, <1>2, <1>3, <1>7 DEF Asked, devAnswers, Inputs
  <2>4. dev' = [adr |-> dev.adr, we |-> dev.we, age |-> dev.age + 1]
    BY <1>1, <1>2, <1>3, <1>7 DEF Devices
  <2>5. dev' # NoReq
    BY <2>3, <2>4, <1>3, Something
  <2>6. dev'.age + keeper'.timeout = Window
    <3>1. keeper'.timeout = keeper.timeout - 1 /\ dev'.age = dev.age + 1
      BY <2>2, <2>4, <1>3 DEF Countdown
    <3>2. dev.age + keeper.timeout = Window
      BY DEF AtDevice
    <3> QED  BY <3>1, <3>2, <1>3
  <2>7. Mine'.adr = Mine.adr /\ Mine'.we = Mine.we /\ Region' = Region
    BY <2>1, SelectionNext
  <2>8. AtDevice'
    BY <2>2, <2>4, <2>5, <2>6, <2>7, <1>2 DEF AtDevice, Watching
  <2> QED  BY <2>1, <2>8 DEF Proceeds, Phase
<1> QED  BY <1>5, <1>6, <1>7

LEMMA FromNowhere ==
  ASSUME Inv, NEW in \in Inputs, Fabric(in), Requesters(in), Busy, Nowhere
  PROVE  Proceeds(in)
<1>1. /\ FabricType /\ Requested /\ Granted /\ ~p_on
      /\ Keeper(in) /\ Devices(in) /\ External(in)
  BY OnBus DEF Inv, Fabric
<1>2. /\ ~p_err(in) /\ ~p_ack(in) /\ ~keeper.bus_err /\ keeper.pending
      /\ Silent' /\ dev' = NoReq
  BY <1>1, ExternalQuiet
     DEF Nowhere, Silent, Watching, xAck, p_err, p_ack, devAnswers, Devices
<1>3. ~Answered(bus_sel, in)
  BY <1>2 DEF Answered
<1>4. Region' = "hole" /\ Region = "hole"
  BY <1>3, SelectionNext DEF Nowhere
<1>5. CASE TimedOut
  <2>1. ~keeper'.pending /\ keeper'.bus_err /\ keeper'.type = "timeout"
    BY <1>1, <1>2, <1>5, KeeperNext
  <2> QED  BY <2>1, <1>2, <1>3, <1>4 DEF Proceeds, Phase, Failed
<1>6. CASE ~TimedOut
  <2>1. keeper'.pending /\ ~keeper'.bus_err
    BY <1>1, <1>2, <1>6, KeeperNext
  <2> QED  BY <2>1, <1>2, <1>3, <1>4 DEF Proceeds, Phase, Nowhere, Watching
<1> QED  BY <1>5, <1>6

LEMMA FromFailed ==
  ASSUME Inv, NEW in \in Inputs, Fabric(in), Requesters(in), Busy, Failed
  PROVE  Proceeds(in)
<1>1. /\ FabricType /\ Requested /\ Granted /\ ~p_on
      /\ Keeper(in) /\ Devices(in) /\ External(in)
  BY OnBus DEF Inv, Fabric
<1>2. Answered(bus_sel, in)
  BY DEF Failed, Answered
<1>3. Silent' /\ dev' = NoReq /\ ~keeper'.pending /\ ~keeper'.bus_err
  BY <1>1, ExternalQuiet, KeeperNext DEF Failed, Silent, Devices
<1> QED  BY <1>2, <1>3 DEF Proceeds, AtRest, Silent

(* The external bus answers, fails or lets the time pass.                   *)
LEMMA FromBusy ==
  ASSUME Inv, NEW in \in Inputs, Fabric(in), Requesters(in), Busy, AtExternal
  PROVE  Proceeds(in)
<1>1. /\ FabricType /\ Requested /\ Granted /\ ~p_on
      /\ Keeper(in) /\ Devices(in) /\ External(in)
  BY OnBus DEF Inv, Fabric
<1>2. /\ ~devAnswers(in) /\ ~p_err(in) /\ ~keeper.bus_err /\ keeper.pending
      /\ dev' = NoReq
      /\ p_ack(in) <=> async /\ in.ext = "ack"
  BY <1>1 DEF AtExternal, Watching, xAck, p_err, p_ack, devAnswers, Devices
<1>3. ~TimedOut
  BY <1>1, TypesUnits DEF AtExternal, TimedOut
<1>4. keeper'.ignore = TRUE
  BY <1>1, <1>2, KeeperNext, TypesUnits DEF AtExternal
<1>5. CASE async /\ in.ext = "ack"
  <2>1. p_ack(in) /\ Answered(bus_sel, in)
    BY <1>2, <1>5 DEF Answered
  <2>2. ~keeper'.pending /\ ~keeper'.bus_err
    BY <2>1, <1>1, <1>2, <1>3, KeeperNext
  <2>3. ~xbus'.busy /\ ~xbus'.err /\ async'
    BY <1>1, <1>5 DEF External, AtExternal, Fabric
  <2> QED  BY <2>1, <2>2, <2>3, <1>2 DEF Proceeds, AtRest
<1>6. CASE ~(async /\ in.ext = "ack")
  <2>1. ~Answered(bus_sel, in)
    BY <1>2, <1>6 DEF Answered
  <2>2. /\ Mine'.adr = Mine.adr /\ Region' = Region
        /\ Watching'
    BY <2>1, <1>1, <1>2, <1>3, <1>6, KeeperNext, SelectionNext DEF Watching
  <2>3. async' = async /\ async \in BOOLEAN
    BY <1>1, TypesUnits DEF Fabric
  <2>4. \/ /\ xbus'.busy /\ ~xbus'.ack /\ ~xbus'.err /\ ~xbus'.tmo /\ xbus'.adr = xbus.adr
        \/ /\ ~xbus'.busy /\ xbus'.ack /\ ~xbus'.err /\ ~xbus'.tmo /\ xbus'.adr = xbus.adr
           /\ in.ext = "ack"
        \/ ~xbus'.busy /\ ~xbus'.ack /\ (xbus'.err \/ xbus'.tmo)
    <3>1. /\ xbus \in [busy : BOOLEAN, adr : Adr \union {NoReq}, timeout : 0 .. ExtTimeout,
                       ack : BOOLEAN, err : BOOLEAN, tmo : BOOLEAN]
          /\ xbus.busy /\ ~xbus.ack /\ ~xbus.err /\ ~xbus.tmo
      BY <1>1, TypesUnits DEF AtExternal
    <3>2. CASE in.ext = "err"
      BY <3>1, <3>2, <1>1 DEF External
    <3>3. CASE in.ext # "err" /\ ExtTimeout # 0 /\ xbus.timeout = 0
      BY <3>1, <3>3, <1>1 DEF External
    <3>4. CASE in.ext = "ack" /\ ~(ExtTimeout # 0 /\ xbus.timeout = 0)
      BY <3>1, <3>4, <1>1 DEF External
    <3>5. CASE in.ext \notin {"ack", "err"} /\ ~(ExtTimeout # 0 /\ xbus.timeout = 0)
      BY <3>1, <3>5, <1>1 DEF External
    <3> QED  BY <3>2, <3>3, <3>4, <3>5
  <2>5. AtExternal' \/ FromExternal'
    BY <2>2, <2>3, <2>4, <1>2, <1>4, <1>6 DEF AtExternal, FromExternal
  <2> QED  BY <2>1, <2>5 DEF Proceeds, Phase
<1> QED  BY <1>5, <1>6

(* Its registered answer reaches the ports, or the keeper.                  *)
LEMMA FromRegister ==
  ASSUME Inv, NEW in \in Inputs, Fabric(in), Requesters(in), Busy, FromExternal
  PROVE  Proceeds(in)
<1>1. /\ FabricType /\ Requested /\ Granted /\ ~p_on
      /\ Keeper(in) /\ Devices(in) /\ External(in)
  BY OnBus DEF Inv, Fabric
<1>2. /\ ~devAnswers(in) /\ ~keeper.bus_err /\ keeper.pending /\ dev' = NoReq
      /\ Silent'
      /\ p_ack(in) <=> ~async /\ xbus.ack
      /\ p_err(in) <=> xbus.err
      /\ TimedOut <=> xbus.tmo
  BY <1>1, ExternalQuiet
     DEF FromExternal, Watching, xAck, p_err, p_ack, devAnswers, Devices, TimedOut
<1>3. CASE xbus.ack
  <2>1. p_ack(in) /\ Answered(bus_sel, in)
    BY <1>2, <1>3 DEF Answered, FromExternal
  <2>2. ~keeper'.pending /\ ~keeper'.bus_err
    BY <2>1, <1>1, <1>2, <1>3, KeeperNext DEF FromExternal
  <2> QED  BY <2>1, <2>2, <1>2 DEF Proceeds, AtRest, Silent
<1>4. CASE ~xbus.ack
  <2>1. ~Answered(bus_sel, in) /\ (p_err(in) \/ TimedOut)
    BY <1>2, <1>4 DEF Answered, FromExternal
  <2>2. ~keeper'.pending /\ keeper'.bus_err
    BY <2>1, <1>1, <1>2, KeeperNext
  <2>3. Region' = "ext"
    BY <2>1, SelectionNext DEF FromExternal
  <2> QED  BY <2>1, <2>2, <2>3, <1>2 DEF Proceeds, Phase, Failed
<1> QED  BY <1>3, <1>4

(* Between two accesses nothing begins on its own.                          *)
LEMMA Rests ==
  ASSUME Inv, NEW in \in Inputs, Fabric(in), Requesters(in), ~Busy, ~p_on
  PROVE  AtRest'
<1>1. FabricType /\ AtRest /\ Keeper(in) /\ Devices(in) /\ External(in)
  BY DEF Inv, Fabric
<1>2. Silent' /\ dev' = NoReq
  BY <1>1, ExternalQuiet DEF AtRest, Devices
<1>3. ~keeper'.pending /\ ~keeper'.bus_err
  BY <1>1, KeeperNext DEF AtRest
<1> QED  BY <1>2, <1>3 DEF AtRest, Silent

-----------------------------------------------------------------------------
(* The invariant.                                                           *)

(* Types of the ports, the devices and the external interface are kept.     *)
LEMMA TypeNext ==
  ASSUME Inv, NEW in \in Inputs, Fabric(in), Requesters(in)
  PROVE  FabricType'
<1>1. /\ FabricType /\ Requested /\ Granted
      /\ Arbiter(in) /\ Buffers(in) /\ Keeper(in) /\ ErrorFlag
      /\ Devices(in) /\ External(in) /\ Asked(in) /\ async' = async
  BY DEF Inv, Fabric
<1>2. port' \in PortTypes
  BY DEF Requesters, GoesOn
<1>4. arb' \in ArbStates
  BY <1>1 DEF FabricType, Arbiter, ArbStates, Grant, AfterB
<1>5. buf' \in [ard : BOOLEAN, awr : BOOLEAN, brd : BOOLEAN]
  BY <1>1 DEF Buffers
<1>6. keeper' \in [pending : BOOLEAN, timeout : 0 .. Window - 1, ignore : BOOLEAN,
                   bus_err : BOOLEAN, type : {"device", "timeout"}]
  BY <1>1, KeeperType
<1>7. flag' \in [err : BOOLEAN, type : {"device", "timeout"}]
  <2>1. flag \in [err : BOOLEAN, type : {"device", "timeout"}]
        /\ keeper.type \in {"device", "timeout"}
    BY <1>1, TypesUnits DEF FabricType
  <2> QED  BY <2>1, <1>1 DEF ErrorFlag
<1>8. dev' \in [adr : Adr, we : BOOLEAN, age : 1 .. SlowMax] \union {NoReq}
  <2>1. CASE p_on /\ RegionOf[p_addr] \in Internal
    <3>1. p_addr \in Adr /\ p_we \in BOOLEAN /\ 1 \in 1 .. SlowMax
      BY <2>1, <1>1, OnBus, LatencyAssumption, WindowAssumption DEF p_we
    <3> QED  BY <2>1, <3>1, <1>1 DEF Devices
  <2>2. CASE ~(p_on /\ RegionOf[p_addr] \in Internal) /\ (dev = NoReq \/ devAnswers(in))
    BY <2>2, <1>1 DEF Devices
  <2>3. CASE ~(p_on /\ RegionOf[p_addr] \in Internal) /\ dev # NoReq /\ ~devAnswers(in)
    <3>1. /\ dev \in [adr : Adr, we : BOOLEAN, age : 1 .. SlowMax]
          /\ dev.age \in 1 .. SlowMax /\ SlowMax \in Nat
      BY <2>3, <1>1, TypesUnits, WindowAssumption
    <3>2. dev.age + 1 \in 1 .. SlowMax
      BY <2>3, <3>1, <1>1 DEF Asked, devAnswers, Inputs
    <3>3. dev' = [dev EXCEPT !.age = @ + 1]
      BY <2>3, <1>1 DEF Devices
    <3> QED  BY <3>1, <3>2, <3>3
  <2> QED  BY <2>1, <2>2, <2>3
<1>9. xbus' \in [busy : BOOLEAN, adr : Adr \union {NoReq}, timeout : 0 .. ExtTimeout,
                 ack : BOOLEAN, err : BOOLEAN, tmo : BOOLEAN]
  <2>1. /\ xbus \in [busy : BOOLEAN, adr : Adr \union {NoReq}, timeout : 0 .. ExtTimeout,
                     ack : BOOLEAN, err : BOOLEAN, tmo : BOOLEAN]
        /\ ExtTimeout \in Nat /\ ExtTimeout \in 0 .. ExtTimeout
        /\ p_on => p_addr \in Adr
    BY <1>1, OnBus, TypesUnits, LatencyAssumption
  <2>2. CASE ~xbus.busy
    BY <2>1, <2>2, <1>1 DEF External
  <2>3. CASE xbus.busy /\ in.ext = "err"
    BY <2>1, <2>3, <1>1 DEF External
  <2>4. CASE xbus.busy /\ in.ext # "err" /\ ExtTimeout # 0 /\ xbus.timeout = 0
    BY <2>1, <2>4, <1>1 DEF External
  <2>5. CASE xbus.busy /\ in.ext = "ack" /\ ~(ExtTimeout # 0 /\ xbus.timeout = 0)
    BY <2>1, <2>5, <1>1 DEF External
  <2>6. CASE /\ xbus.busy /\ in.ext \notin {"ack", "err"}
             /\ ~(ExtTimeout # 0 /\ xbus.timeout = 0)
    <3>1. (IF ExtTimeout # 0 THEN xbus.timeout - 1 ELSE ExtTimeout) \in 0 .. ExtTimeout
      BY <2>1, <2>6
    <3> QED  BY <3>1, <2>1, <2>6, <1>1 DEF External
  <2> QED  BY <2>2, <2>3, <2>4, <2>5, <2>6
<1>10. put' \in [Ports -> 0 .. 2]
  BY <1>1, GrantedNext DEF Granted
<1>11. async' \in BOOLEAN
  BY <1>1, TypesUnits
<1> QED
  BY <1>2, <1>4, <1>5, <1>6, <1>7, <1>8, <1>9, <1>10, <1>11 DEF FabricType

LEMMA FabricStarts ==
  ASSUME FabricInit, port \in PortTypes,
         \A p \in Ports : port[p].st = "idle" /\ port[p].we = FALSE
  PROVE  Inv
<1>1. "A" \in Ports /\ "B" \in Ports
  BY DEF Ports
<1>2. FabricType
  <2>1. FALSE \in BOOLEAN /\ Window - 1 \in 0 .. Window - 1 /\ ExtTimeout \in 0 .. ExtTimeout
    BY WindowAssumption, LatencyAssumption
  <2> QED  BY <2>1 DEF FabricInit, FabricType, ArbStates
<1>3. Requested
  BY <1>1 DEF FabricInit, Requested
<1>4. Granted /\ ~Busy
  BY DEF FabricInit, Granted, BusyFor, Ports, Busy
<1>5. AtRest
  BY DEF FabricInit, AtRest
<1> QED  BY <1>2, <1>3, <1>4, <1>5 DEF Inv

LEMMA FabricGoesOn ==
  ASSUME Inv, NEW in \in Inputs, Fabric(in), Requesters(in)
  PROVE  Inv'
<1>1. FabricType' /\ Requested' /\ Granted'
  BY TypeNext, RequestedNext, GrantedNext
<1>2. CASE ~Busy /\ ~p_on
  <2>1. AtRest' /\ ~Busy'
    BY <1>2, Rests, ArbiterNext DEF Busy
  <2> QED  BY <1>1, <2>1 DEF Inv
<1>3. CASE ~Busy /\ p_on
  <2>1. Phase' /\ Busy'
    BY <1>3, Begins, SelectionNext DEF Phase
  <2> QED  BY <1>1, <2>1 DEF Inv
<1>4. CASE Busy
  <2>1. Proceeds(in)
    BY <1>4, FromDevice, FromBusy, FromRegister, FromNowhere, FromFailed DEF Inv, Phase
  <2>2. CASE Answered(bus_sel, in)
    <3>1. AtRest' /\ ~Busy'
      BY <1>4, <2>1, <2>2, ArbiterNext DEF Proceeds, Busy
    <3> QED  BY <1>1, <3>1 DEF Inv
  <2>3. CASE ~Answered(bus_sel, in)
    <3>1. Phase' /\ Busy'
      BY <1>4, <2>1, <2>3, SelectionNext DEF Proceeds
    <3> QED  BY <1>1, <3>1 DEF Inv
  <2> QED  BY <2>2, <2>3
<1> QED  BY <1>2, <1>3, <1>4

LEMMA FabricStays ==
  ASSUME Inv, async' = async, port' = port, UNCHANGED fabricVars
  PROVE  Inv'
<1>1. /\ async' = async /\ port' = port /\ arb' = arb /\ buf' = buf
      /\ keeper' = keeper /\ flag' = flag /\ dev' = dev /\ xbus' = xbus /\ put' = put
  BY DEF fabricVars
<1>2. /\ bus_sel' = bus_sel /\ Mine' = Mine /\ Region' = Region /\ Busy' = Busy
      /\ \A p : BusyFor(p)' = BusyFor(p)
  BY <1>1 DEF Mine, Region, Busy, BusyFor, bus_sel, ca_req_buffered, cb_req_buffered, Strobe
<1>3. FabricType' /\ Requested'
  BY <1>1 DEF Inv, FabricType, Requested
<1>4. Granted'
  BY <1>1, <1>2 DEF Inv, Granted
<1>5. AtRest' = AtRest
  BY <1>1 DEF AtRest
<1>6. Phase' = Phase
  BY <1>1, <1>2 DEF Phase, AtDevice, AtExternal, FromExternal, Nowhere, Failed, Watching, Silent
<1> QED  BY <1>2, <1>3, <1>4, <1>5, <1>6 DEF Inv

-----------------------------------------------------------------------------
(* The ports of the CPU.                                                    *)

LEMMA NextPortGoesOn ==
  ASSUME FabricType, NEW in, NEW p \in Ports, NEW next \in NextPort(p, in)
  PROVE  next \in PortType /\ GoesOn(p, in, next)
<1>1. [port[p] EXCEPT !.st = "wait"] = [st |-> "wait", adr |-> port[p].adr, we |-> port[p].we]
  BY TypesPorts
<1>2. CASE next = NoAccess /\ (port[p].st = "idle" \/ Seen(p, in))
  BY <1>2 DEF NoAccess, PortType, GoesOn
<1>3. CASE /\ port[p].st # "idle" /\ ~Seen(p, in)
           /\ next = [st |-> "wait", adr |-> port[p].adr, we |-> port[p].we]
  BY <1>3, TypesPorts DEF PortType, GoesOn
<1>4. CASE /\ port[p].st = "idle" \/ (p = "B" /\ Seen(p, in))
           /\ \E r \in Requests[p] : next = Raise(p, r)
  <2>1. PICK r \in Requests[p] : next = [st |-> "req", adr |-> r.adr, we |-> r.we]
    BY <1>4 DEF Raise
  <2>2. next.st = "req" /\ next.adr = r.adr /\ next.we = r.we
    BY <2>1
  <2>3. r.adr \in Adr /\ r.we \in BOOLEAN /\ r = [adr |-> r.adr, we |-> r.we]
    BY RequestsType
  <2>4. [adr |-> next.adr, we |-> next.we] \in Requests[p]
    BY <2>2, <2>3
  <2>5. next \in PortType
    BY <2>1, <2>3 DEF PortType
  <2> QED  BY <2>2, <2>4, <2>5, <1>4 DEF GoesOn
<1> QED  BY <1>1, <1>2, <1>3, <1>4 DEF NextPort

LEMMA MastersRequest ==
  ASSUME FabricType, NEW in \in Inputs, Masters(in)
  PROVE  Requesters(in)
<1>1. ASSUME NEW p \in Ports
      PROVE  port'[p] \in PortType /\ GoesOn(p, in, port'[p])
  BY <1>1, NextPortGoesOn DEF Masters, Ports
<1>2. port' = [p \in Ports |-> port'[p]]
  BY DEF Masters
<1> QED  BY <1>1, <1>2 DEF Requesters, PortTypes

(* What is delivered to them.                                               *)
LEMMA AnswerNext ==
  ASSUME FabricType, NEW in \in Inputs, Masters(in), NEW p \in Ports
  PROVE  /\ ~Seen(p, in) => got'[p] = NoReq
         /\ Seen(p, in) => got'[p] = IF keeper.bus_err THEN "error" ELSE p_rdata(in)
         /\ got'[p] = "error" => Seen(p, in) /\ keeper.bus_err
         /\ got'[p] \in Adr \union {NoReq, "error"}
<1>1. p_rdata(in) \in Adr \union {NoReq}
  BY TypesUnits DEF p_rdata, devAnswers
<1>2. p_rdata(in) # "error" /\ NoReq # "error"
  BY <1>1, NothingAssumption
<1> QED  BY <1>1, <1>2 DEF Masters

LEMMA InitInv == Init => Inv /\ got \in AnswerTypes
<1>1. SUFFICES ASSUME Init PROVE Inv /\ got \in AnswerTypes
  OBVIOUS
<1>2. port \in PortTypes /\ \A p \in Ports : port[p].st = "idle" /\ port[p].we = FALSE
  BY <1>1 DEF Init, NoAccess, PortTypes, PortType
<1> QED  BY <1>1, <1>2, FabricStarts DEF Init, AnswerTypes

LEMMA InvNext == Inv /\ [Next]_vars => Inv'
<1>1. SUFFICES ASSUME Inv, [Next]_vars PROVE Inv'
  OBVIOUS
<1>2. CASE Next
  <2>1. PICK in \in Inputs : Fabric(in) /\ Masters(in)
    BY <1>2 DEF Next
  <2> QED  BY <1>1, <2>1, MastersRequest, FabricGoesOn DEF Inv
<1>3. CASE UNCHANGED vars
  BY <1>1, <1>3, FabricStays DEF vars
<1> QED  BY <1>1, <1>2, <1>3

LEMMA AnswerTypesNext ==
  Inv /\ got \in AnswerTypes /\ [Next]_vars => (got \in AnswerTypes)'
<1>1. SUFFICES ASSUME Inv, got \in AnswerTypes, [Next]_vars PROVE got' \in AnswerTypes
  OBVIOUS
<1>2. CASE Next
  <2>1. PICK in \in Inputs : Fabric(in) /\ Masters(in)
    BY <1>2 DEF Next
  <2>2. \A p \in Ports : got'[p] \in Adr \union {NoReq, "error"}
    BY <1>1, <2>1, AnswerNext DEF Inv
  <2> QED  BY <2>1, <2>2 DEF Masters, AnswerTypes
<1>3. CASE UNCHANGED vars
  BY <1>1, <1>3 DEF vars
<1> QED  BY <1>1, <1>2, <1>3

-----------------------------------------------------------------------------
(* What follows.                                                            *)

(* Every register keeps a value of its width; no device works longer than   *)
(* its latency.                                                             *)
THEOREM TypeCorrect == Spec => []TypeOK
<1>1. Inv /\ got \in AnswerTypes => TypeOK
  BY DEF Inv, TypeOK, FabricType, PortTypes, PortType, AnswerTypes
<1> QED  BY InitInv, InvNext, AnswerTypesNext, <1>1, PTL DEF Spec

(* No access is without a keeper that counts, and nobody works for a port   *)
(* that the switch has not selected.                                        *)
LEMMA InvImplies ==
  ASSUME Inv
  PROVE  Watched /\ OneTransfer
<1>1. CASE ~Busy
  BY <1>1 DEF Inv, AtRest, Watched, OneTransfer, Busy
<1>2. CASE Busy
  <2>1. Phase /\ Mine.st = "wait"
    BY <1>2 DEF Inv, Granted, Busy
  <2> QED
    BY <1>2, <2>1 DEF Phase, AtDevice, AtExternal, FromExternal, Nowhere, Failed, Watching,
       Silent, Watched, OneTransfer, Busy, Mine
<1> QED  BY <1>1, <1>2

(* For any window, latencies and time-out: an access is watched by the      *)
(* keeper from the cycle after its grant until its answer or its error is   *)
(* on the wires, so that no access can hang without a time-out.             *)
THEOREM WatchedCorrect == Spec => []Watched
BY InitInv, InvNext, InvImplies, PTL DEF Spec

(* For any number of cycles that devices and the external bus take: one     *)
(* access at a time, for the port that is selected.                         *)
THEOREM TransferCorrect == Spec => []OneTransfer
BY InitInv, InvNext, InvImplies, PTL DEF Spec

-----------------------------------------------------------------------------
(* The keeper's register.                                                   *)

(* An error is on the wires in one phase only.                              *)
LEMMA ErrorPhase ==
  ASSUME Inv, keeper.bus_err
  PROVE  Busy /\ Failed
BY DEF Inv, AtRest, Phase, AtDevice, AtExternal, FromExternal, Nowhere, Failed, Watching

LEMMA RecordsErrors ==
  ASSUME Inv, NEW in \in Inputs, Fabric(in), Masters(in), NEW p \in Ports, got'[p] = "error"
  PROVE  /\ flag'.err
         /\ RegionOf[port[p].adr] = "hole" => flag'.type = "timeout"
         /\ RegionOf[port[p].adr] = "rom" => flag'.type = "device"
<1>1. Seen(p, in) /\ keeper.bus_err
  BY AnswerNext DEF Inv
<1>2. bus_sel = p /\ Failed
  BY <1>1, Gated, ErrorPhase
<1>3. flag' = [err |-> TRUE, type |-> keeper.type]
  BY <1>1 DEF Fabric, ErrorFlag
<1> QED  BY <1>2, <1>3 DEF Failed, Region, Mine

LEMMA ForgetsWhenAccessed ==
  ASSUME Inv, NEW in \in Inputs, Fabric(in), Requesters(in), flag.err, ~flag'.err
  PROVE  \E p \in Ports : /\ put[p] = 0 /\ put'[p] = 1
                          /\ RegionOf[port[p].adr] = "buskeeper"
<1>1. FabricType /\ Requested /\ Granted /\ ErrorFlag
  BY DEF Inv, Fabric
<1>2. flag \in [err : BOOLEAN, type : {"device", "timeout"}]
  BY <1>1 DEF FabricType
<1>3. acc_en
  BY <1>1, <1>2 DEF ErrorFlag
<1>4. p_on /\ ~Busy /\ RegionOf[Mine.adr] = "buskeeper" /\ bus_sel \in Ports
  BY <1>1, <1>3, OnBus, Selected DEF acc_en
<1>5. put[bus_sel] = 0
  BY <1>1, <1>4 DEF Granted, Busy, BusyFor
<1>6. put'[bus_sel] = 1
  BY <1>4, ArbiterNext, GrantedNext DEF Granted
<1> QED  BY <1>4, <1>5, <1>6 DEF Mine

(* For any address map and any latencies: no error is given to a port       *)
(* without a record of it with its cause, and no record is lost before the  *)
(* register has been accessed.                                              *)
THEOREM ErrorRecordedCorrect == Spec => ErrorRecorded
<1> DEFINE Records ==
      /\ \A p \in Ports : got'[p] = "error" =>
           /\ flag'.err
           /\ RegionOf[port[p].adr] = "hole" => flag'.type = "timeout"
           /\ RegionOf[port[p].adr] = "rom" => flag'.type = "device"
      /\ flag.err /\ ~flag'.err =>
           \E p \in Ports : /\ put[p] = 0 /\ put'[p] = 1
                            /\ RegionOf[port[p].adr] = "buskeeper"
<1>1. Inv /\ [Next]_vars => [Records]_vars
  <2>1. SUFFICES ASSUME Inv, Next PROVE Records
    OBVIOUS
  <2>2. PICK in \in Inputs : Fabric(in) /\ Masters(in)
    BY <2>1 DEF Next
  <2>3. Requesters(in)
    BY <2>1, <2>2, MastersRequest DEF Inv
  <2> QED  BY <2>1, <2>2, <2>3, RecordsErrors, ForgetsWhenAccessed
<1> QED  BY InitInv, InvNext, <1>1, PTL DEF Spec, ErrorRecorded

-----------------------------------------------------------------------------
(* Refinement.                                                              *)

Pend(p) == IF port[p].st = "idle" THEN NoReq ELSE [adr |-> port[p].adr, we |-> port[p].we]

(* Whose request is on the bus, waits for its answer.                       *)
LEMMA PutOnce ==
  ASSUME FabricType, Granted, NEW p \in Ports
  PROVE  /\ put[p] \in {0, 1}
         /\ put[p] = 1 <=> Busy /\ bus_sel = p
         /\ put[p] = 1 => port[p].st = "wait"
BY Selected DEF Granted, BusyFor, Busy, Mine, Ports

LEMMA PutOnceNext ==
  ASSUME Inv, NEW in \in Inputs, Fabric(in), Requesters(in), NEW p \in Ports
  PROVE  /\ put'[p] \in {0, 1}
         /\ put'[p] = 1 => port'[p].st = "wait" /\ arb' = BusyFor(p)
<1>1. FabricType' /\ Granted'
  BY TypeNext, GrantedNext
<1>2. bus_sel' = IF arb' \in {"A_BUSY", "A_RETIRE"} THEN "A" ELSE
                 IF arb' \in {"B_BUSY", "B_RETIRE"} THEN "B" ELSE bus_sel'
  BY DEF bus_sel
<1> QED  BY <1>1, <1>2 DEF Granted, BusyFor, Mine, Ports

(* A request is something.                                                  *)
LEMMA PendSomething ==
  ASSUME FabricType, Requested, NEW p \in Ports, port[p].st # "idle"
  PROVE  Pend(p) # NoReq /\ Pend(p) = [adr |-> port[p].adr, we |-> port[p].we]
         /\ Pend(p) \in Requests[p]
<1>1. port[p].adr \in Adr /\ port[p].we \in BOOLEAN /\ port["B"].we = FALSE
  BY TypesPorts DEF Requested
<1>2. [adr |-> port[p].adr, we |-> port[p].we] \in Requests[p]
  <2>1. CASE p = "A"
    BY <1>1, <2>1 DEF Requests, Ports
  <2>2. CASE p = "B"
    BY <1>1, <2>2 DEF Requests, Reads, Ports
  <2> QED  BY <2>1, <2>2 DEF Ports
<1> QED  BY <1>1, <1>2, Something DEF Pend

(* Who answers, answers with the data of the request or fails rightly.      *)
LEMMA RightAnswer ==
  ASSUME Inv, NEW in \in Inputs, NEW p \in Ports, Seen(p, in)
  PROVE  /\ keeper.bus_err => Pend(p) \in Failing("A", {"hole", "ext"})
         /\ ~keeper.bus_err => Pend(p) \notin Failing("A", {"hole"}) /\ p_rdata(in) = port[p].adr
<1>1. FabricType /\ Requested /\ Granted /\ Busy /\ Phase /\ bus_sel = p
      /\ (p_ack(in) \/ keeper.bus_err) /\ port[p].st = "wait"
  BY Gated DEF Inv, Seen
<1>2. /\ Pend(p) = [adr |-> port[p].adr, we |-> port[p].we] /\ port[p].adr \in Adr
      /\ port[p].we \in BOOLEAN
  BY <1>1, PendSomething, TypesPorts DEF Requested
<1>3. Pend(p) \in Requests["A"] /\ Pend(p).adr = port[p].adr /\ Pend(p).we = port[p].we
  BY <1>2 DEF Requests, Ports
<1>4. ASSUME keeper.bus_err PROVE Pend(p) \in Failing("A", {"hole", "ext"})
  <2>1. Failed
    BY <1>4, ErrorPhase
  <2> QED  BY <2>1, <1>1, <1>3 DEF Failed, Failing, Region, Mine
<1>5. ASSUME ~keeper.bus_err
      PROVE  Pend(p) \notin Failing("A", {"hole"}) /\ p_rdata(in) = port[p].adr
  <2>1. CASE AtDevice
    <3>1. devAnswers(in) /\ ~devError
      BY <2>1, <1>1, <1>5 DEF AtDevice, Silent, p_ack, xAck
    <3>2. dev.adr = port[p].adr /\ dev.we = port[p].we /\ RegionOf[port[p].adr] \in Internal
      BY <2>1, <1>1 DEF AtDevice, Mine, Region
    <3> QED  BY <3>1, <3>2, <1>3 DEF Failing, devError, Internal, p_rdata
  <2>2. CASE AtExternal \/ FromExternal
    <3>1. ~devAnswers(in) /\ xAck(in)
      BY <2>2, <1>1, <1>5 DEF AtExternal, FromExternal, devAnswers, p_ack
    <3>2. xbus.adr = port[p].adr /\ RegionOf[port[p].adr] = "ext"
      BY <2>2, <3>1, <1>1 DEF AtExternal, FromExternal, Mine, Region, xAck
    <3> QED  BY <3>1, <3>2, <1>3 DEF Failing, p_rdata
  <2>3. CASE Nowhere \/ Failed
    BY <2>3, <1>1, <1>5 DEF Nowhere, Failed, Silent, p_ack, xAck, devAnswers
  <2> QED  BY <2>1, <2>2, <2>3, <1>1 DEF Phase
<1> QED  BY <1>4, <1>5

(* The same, for who sits at the port: data, or an error and nothing else.  *)
LEMMA OwnAnswer ==
  ASSUME Inv, NEW in \in Inputs, NEW p \in Ports, Answered(p, in)
  PROVE  /\ Seen(p, in)
         /\ keeper.bus_err =>
              /\ ~p_ack(in)
              /\ \/ RegionOf[port[p].adr] \in {"hole", "ext"}
                 \/ RegionOf[port[p].adr] = "rom" /\ port[p].we
         /\ ~keeper.bus_err => p_ack(in) /\ p_rdata(in) = port[p].adr
<1>1. Seen(p, in) /\ bus_sel = p /\ (p_ack(in) \/ keeper.bus_err)
  BY Gated
<1>2. ASSUME keeper.bus_err
      PROVE  /\ ~p_ack(in)
             /\ \/ RegionOf[port[p].adr] \in {"hole", "ext"}
                \/ RegionOf[port[p].adr] = "rom" /\ port[p].we
  <2>1. Failed
    BY <1>2, ErrorPhase
  <2> QED  BY <2>1, <1>1 DEF Failed, Silent, p_ack, xAck, devAnswers, Region, Mine
<1>3. ~keeper.bus_err => p_rdata(in) = port[p].adr
  BY <1>1, RightAnswer
<1> QED  BY <1>1, <1>2, <1>3

(* What a cycle is for one port.                                            *)
LEMMA PortStep ==
  ASSUME Inv, NEW in \in Inputs, Fabric(in), Masters(in), NEW p \in Ports
  PROVE  \/ /\ Pend(p)' = Pend(p) /\ put'[p] = put[p] /\ got'[p] = NoReq
         \/ /\ Pend(p) = NoReq /\ Pend(p)' \in Requests[p]
            /\ put'[p] = 0 /\ got'[p] = NoReq
         \/ /\ Pend(p) # NoReq /\ put[p] = 0 /\ put'[p] = 1
            /\ Pend(p)' = Pend(p) /\ got'[p] = NoReq
         \/ /\ Pend(p) # NoReq /\ put[p] = 1 /\ put'[p] = 0
            /\ \/ Pend(p) \notin Failing("A", {"hole"}) /\ got'[p] = Pend(p).adr
               \/ Pend(p) \in Failing("A", {"hole", "ext"}) /\ got'[p] = "error"
            /\ Pend(p)' \in Requests[p] \union {NoReq}
<1>1. /\ FabricType /\ Requested /\ Granted /\ Requesters(in)
      /\ put[p] \in {0, 1} /\ put'[p] \in {0, 1}
  BY MastersRequest, PutOnce, PutOnceNext DEF Inv
<1>2. CASE port[p].st = "idle"
  <2>1. ~Seen(p, in) /\ put[p] = 0 /\ got'[p] = NoReq /\ Pend(p) = NoReq
    BY <1>1, <1>2, PutOnce, AnswerNext DEF Seen, Pend
  <2>2. CASE port'[p].st = "idle"
    <3>1. put'[p] = 0
      BY <2>2, <1>1, PutOnceNext
    <3> QED  BY <2>1, <2>2, <3>1 DEF Pend
  <2>3. CASE port'[p].st = "req" /\ [adr |-> port'[p].adr, we |-> port'[p].we] \in Requests[p]
    <3>1. put'[p] = 0
      BY <2>3, <1>1, PutOnceNext
    <3> QED  BY <2>1, <2>3, <3>1 DEF Pend
  <2> QED  BY <2>2, <2>3, <1>1, <1>2 DEF Requesters, GoesOn
<1>3. CASE port[p].st # "idle" /\ ~Seen(p, in)
  <2>1. port'[p].st = "wait" /\ port'[p].adr = port[p].adr /\ port'[p].we = port[p].we
    BY <1>1, <1>3, Waits
  <2>2. Pend(p)' = Pend(p) /\ Pend(p) # NoReq /\ got'[p] = NoReq
    BY <2>1, <1>1, <1>3, PendSomething, AnswerNext DEF Pend
  <2>3. put[p] = 1 => put'[p] = 1
    <3>1. SUFFICES ASSUME put[p] = 1 PROVE put'[p] = 1
      BY <1>1
    <3>2. Busy /\ bus_sel = p /\ ~Answered(bus_sel, in)
      BY <3>1, <1>1, <1>3, PutOnce, Gated
    <3>3. arb' = arb /\ arb = BusyFor(p)
      BY <3>2, <1>1, ArbiterNext, Selected
    <3> QED  BY <3>3, <1>1, GrantedNext DEF Granted
  <2> QED  BY <1>1, <2>2, <2>3
<1>4. CASE Seen(p, in)
  <2>1. Busy /\ bus_sel = p /\ Answered(p, in) /\ port[p].st = "wait"
    BY <1>4, Gated DEF Seen
  <2>2. put[p] = 1 /\ Pend(p) # NoReq /\ Pend(p) = [adr |-> port[p].adr, we |-> port[p].we]
    BY <2>1, <1>1, PutOnce, PendSomething
  <2>3. put'[p] = 0
    BY <2>1, <1>1, ArbiterNext, PutOnceNext DEF BusyFor
  <2>4. got'[p] = IF keeper.bus_err THEN "error" ELSE p_rdata(in)
    BY <1>1, <1>4, AnswerNext
  <2>5. Pend(p)' \in Requests[p] \union {NoReq}
    BY <1>1, <1>4, <2>1 DEF Requesters, GoesOn, Pend
  <2>6. Pend(p).adr = port[p].adr
    BY <2>2
  <2> QED  BY <2>2, <2>3, <2>4, <2>5, <2>6, <1>4, RightAnswer
<1> QED  BY <1>2, <1>3, <1>4

LEMMA PortInit == Init => PortContract!Init
BY DEF Init, FabricInit, PortContract!Init, NoAccess

LEMMA PortContractNext == Inv /\ [Next]_vars => [PortContract!Next]_PortContract!portVars
<1>1. SUFFICES ASSUME Inv, [Next]_vars
               PROVE  [PortContract!Next]_PortContract!portVars
  OBVIOUS
<1>2. CASE Next
  <2>1. PICK in \in Inputs : Fabric(in) /\ Masters(in)
    BY <1>2 DEF Next
  <2>2. ASSUME NEW p \in Ports
        PROVE  \/ PortContract!Stay(p) \/ PortContract!Ask(p)
               \/ PortContract!Serve(p) \/ PortContract!Answer(p)
    BY <1>1, <2>1, <2>2, PortStep
       DEF Pend, PortContract!Stay, PortContract!Ask, PortContract!Serve, PortContract!Answer
  <2>3. ASSUME NEW p \in Ports, NEW r \in Ports, PortContract!Serve(p), PortContract!Serve(r)
        PROVE  p = r
    <3>1. put'[p] = 1 /\ put'[r] = 1
      BY <2>3 DEF PortContract!Serve
    <3>2. Requesters(in)
      BY <1>1, <2>1, MastersRequest DEF Inv
    <3>3. arb' = BusyFor(p) /\ arb' = BusyFor(r)
      BY <3>1, <3>2, <1>1, <2>1, PutOnceNext
    <3> QED  BY <3>3 DEF BusyFor, Ports
  <2> QED  BY <2>2, <2>3 DEF PortContract!Next
<1>3. CASE UNCHANGED vars
  BY <1>3 DEF vars, fabricVars, PortContract!portVars
<1> QED  BY <1>1, <1>2, <1>3

(* Whatever the ports ask for and whenever, and however long devices and    *)
(* the external bus take: every request is on the bus once and is answered  *)
(* once, at its port, with its own data, or with an error where it may fail. *)
THEOREM PortsServed == Spec => ImplementsPorts
<1> QED  BY InitInv, InvNext, PortInit, PortContractNext, PTL
         DEF Spec, ImplementsPorts, PortContract!Spec
=============================================================================
