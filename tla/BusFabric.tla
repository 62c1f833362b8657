----------------------------- MODULE BusFabric -----------------------------
(***************************************************************************)
(* The processor-internal bus between the two ports of the CPU (A: data,    *)
(* B: instructions) and everything that answers: the bus switch with its    *)
(* arbiter and request buffers (neorv32_busswitch.vhd), the bus keeper that *)
(* ends accesses nobody answers (neorv32_bus_keeper.vhd), and the external  *)
(* bus interface (neorv32_wishbone.vhd).  Internal memories and registers   *)
(* answer in the next cycle.                                                *)
(*                                                                          *)
(* One step is one clock cycle.  Operators with the parameter in are the    *)
(* wires that depend on what the devices do in this very cycle.             *)
(***************************************************************************)
EXTENDS Integers

CONSTANTS
  Adr,        (* Word addresses.                                           *)
  RegionOf,   (* RegionOf[a]: who answers at address a.                    *)
  Window,     (* max_proc_int_response_time_c                              *)
  SlowMax,    (* Bound: longest latency of a slow internal device.         *)
  ExtTimeout, (* MEM_EXT_TIMEOUT, cycles; 0: no time-out.                  *)
  NoReq       (* Stands for "nothing".                                      *)

(* ram: memories and registers that acknowledge everything; rom: those that *)
(* answer a write with an error; buskeeper: the keeper's own register; slow: *)
(* internal devices that need several cycles; ext: the external bus; hole:  *)
(* nobody.                                                                  *)
Regions == {"ram", "rom", "buskeeper", "slow", "ext", "hole"}
Internal == {"ram", "rom", "buskeeper", "slow"}

ASSUME RegionAssumption == RegionOf \in [Adr -> Regions]
ASSUME NothingAssumption ==
  /\ NoReq \notin Adr /\ "error" \notin Adr \union {NoReq}
  /\ NoReq \notin [adr : Adr, we : BOOLEAN]
  /\ NoReq \notin [adr : Adr, we : BOOLEAN, age : 1 .. SlowMax]
(* The sanity check in neorv32_bus_keeper.vhd. *)
ASSUME WindowAssumption == Window \in Nat /\ Window >= 2
(* A device that answers in the last cycle of the window is too late for the *)
(* keeper, see the README.                                                  *)
ASSUME LatencyAssumption == SlowMax \in 1 .. Window - 1 /\ ExtTimeout \in Nat

VARIABLES
  async,  (* ASYNC_RX: the external interface passes answers on unregistered *)
  port,   (* what the CPU does on its ports: state and request             *)
  got,    (* the answer each port has got in this cycle, if any            *)
  arb,    (* arbiter.state                                                 *)
  buf,    (* ca_rd_req_buf, ca_wr_req_buf, cb_rd_req_buf                   *)
  keeper, (* control of the bus keeper                                     *)
  flag,   (* err_flag and err_type of the bus keeper                       *)
  dev,    (* the access an internal device is working on                   *)
  xbus,   (* ctrl of the external bus interface; data is that of its adr   *)
  put     (* how often the request of a port went to the bus (history)     *)

fabricVars == <<arb, buf, keeper, flag, dev, xbus, put>>
vars == <<async, port, got, fabricVars>>

Ports == {"A", "B"}
ArbStates == {"IDLE", "A_BUSY", "A_RETIRE", "B_BUSY", "B_RETIRE"}
Inputs == [slow : BOOLEAN, ext : {"none", "ack", "err"}]

-----------------------------------------------------------------------------
(* The switch *)

Strobe(p) == port[p].st = "req"          \* one cycle: re or we of the port
(* Mutant: the buffer of port B is not looked at. *)
cb_req_buffered_Never == FALSE
cb_req_buffered == buf.brd
ca_req_buffered == buf.ard \/ buf.awr

bus_sel ==
  CASE arb \in {"A_BUSY", "A_RETIRE"} -> "A"
    [] arb \in {"B_BUSY", "B_RETIRE"} -> "B"
    [] OTHER -> IF ~Strobe("A") /\ ~ca_req_buffered /\ (Strobe("B") \/ cb_req_buffered)
                THEN "B" ELSE "A"

p_we == \/ Strobe(bus_sel) /\ port[bus_sel].we
        \/ arb = "A_RETIRE" /\ buf.awr
p_re == \/ Strobe(bus_sel) /\ ~port[bus_sel].we
        \/ arb = "A_RETIRE" /\ buf.ard
        \/ arb = "B_RETIRE" /\ buf.brd
p_addr == port[bus_sel].adr
p_on == p_we \/ p_re

-----------------------------------------------------------------------------
(* Answers of this cycle *)

devAnswers(in) == dev # NoReq /\ (RegionOf[dev.adr] # "slow" \/ in.slow)
devError == RegionOf[dev.adr] = "rom" /\ dev.we
xAck(in) == IF async THEN xbus.busy /\ in.ext = "ack" ELSE xbus.ack

p_ack(in) == (devAnswers(in) /\ ~devError) \/ xAck(in)
p_err(in) == (devAnswers(in) /\ devError) \/ xbus.err
p_rdata(in) ==
  IF devAnswers(in) THEN dev.adr ELSE xbus.adr

(* ca_bus_ack or ca_bus_err, and the same for port B: the error the ports   *)
(* see is the keeper's alone.                                               *)
(* Mutant: an answer is not gated by the selection.                         *)
Answered_Ungated(p, in) == p_ack(in) \/ keeper.bus_err
Answered(p, in) == bus_sel = p /\ (p_ack(in) \/ keeper.bus_err)

-----------------------------------------------------------------------------
(* One clock edge of each unit *)

(* The end of an access of port B: a request of port A that came in the    *)
(* meantime is in its buffer from the next cycle on.                        *)
(* Mutant: it is taken for one that is being put on the bus.                *)
AfterB_NoRetire == IF ca_req_buffered \/ Strobe("A") THEN "A_BUSY" ELSE "IDLE"
AfterB == IF ca_req_buffered \/ Strobe("A") THEN "A_RETIRE" ELSE "IDLE"

Grant ==
  IF Strobe("A") THEN "A_BUSY" ELSE IF ca_req_buffered THEN "A_RETIRE"
  ELSE IF Strobe("B") THEN "B_BUSY" ELSE IF cb_req_buffered THEN "B_RETIRE" ELSE "IDLE"

Arbiter(in) ==
  arb' = CASE arb = "IDLE" -> Grant
           [] arb = "A_RETIRE" -> "A_BUSY"
           [] arb = "B_RETIRE" -> "B_BUSY"
           [] OTHER -> IF ~(p_ack(in) \/ keeper.bus_err) THEN arb
                       ELSE IF arb = "B_BUSY" THEN AfterB ELSE "IDLE"

Buffers(in) ==
  buf' = [ard |-> (buf.ard \/ (Strobe("A") /\ ~port["A"].we)) /\ ~Answered("A", in),
          awr |-> (buf.awr \/ (Strobe("A") /\ port["A"].we)) /\ ~Answered("A", in),
          brd |-> (buf.brd \/ Strobe("B")) /\ ~Answered("B", in)]

(* Mutant: an access to the external bus does not suspend the time-out.    *)
TimedOut_NoIgnore == keeper.timeout = 0 \/ xbus.tmo
TimedOut == (keeper.timeout = 0 /\ ~keeper.ignore) \/ xbus.tmo

(* Mutant: the timer goes on when it has expired.                           *)
Countdown_NoStop == keeper.timeout - 1
Countdown == IF keeper.timeout = 0 THEN 0 ELSE keeper.timeout - 1

Keeper(in) ==
  LET count == [keeper EXCEPT !.timeout = Countdown,
                              !.ignore = @ \/ xbus.busy, !.bus_err = FALSE]
      over(error, type) == [count EXCEPT !.pending = FALSE, !.bus_err = error, !.type = type]
  IN  keeper' =
        IF ~keeper.pending
        THEN [keeper EXCEPT !.pending = p_on, !.timeout = Window - 1, !.ignore = FALSE,
                            !.bus_err = FALSE]
        ELSE IF p_err(in) THEN over(TRUE, "device")
        ELSE IF TimedOut THEN over(TRUE, "timeout")
        ELSE IF p_ack(in) THEN over(FALSE, "device")
        ELSE count

(* The keeper's register: sticky until it is accessed. *)
acc_en == p_on /\ RegionOf[p_addr] = "buskeeper"
(* Mutant: the enable does not decode the address.                          *)
ErrorFlag_NoDecode ==
  flag' = IF keeper.bus_err THEN [err |-> TRUE, type |-> keeper.type]
          ELSE [flag EXCEPT !.err = @ /\ ~p_on]
ErrorFlag ==
  flag' = IF keeper.bus_err THEN [err |-> TRUE, type |-> keeper.type]
          ELSE [flag EXCEPT !.err = @ /\ ~acc_en]

(* The internal device that is addressed registers the access; age counts   *)
(* the cycles since.                                                        *)
Devices(in) ==
  dev' = IF p_on /\ RegionOf[p_addr] \in Internal
         THEN [adr |-> p_addr, we |-> p_we, age |-> 1]
         ELSE IF dev = NoReq \/ devAnswers(in) THEN NoReq
         ELSE [dev EXCEPT !.age = @ + 1]

(* Only who is asked answers, and a device whose latency is over does. *)
Asked(in) ==
  /\ in.slow => dev # NoReq
  /\ dev # NoReq /\ dev.age >= SlowMax => in.slow
  /\ in.ext # "none" => xbus.busy

External(in) ==
  xbus' =
    LET idle == [busy |-> FALSE, adr |-> NoReq, timeout |-> ExtTimeout,
                 ack |-> FALSE, err |-> FALSE, tmo |-> FALSE]
    IN  IF ~xbus.busy
        THEN IF p_on /\ RegionOf[p_addr] = "ext"
             THEN [idle EXCEPT !.busy = TRUE, !.adr = p_addr] ELSE idle
        ELSE IF in.ext = "err" THEN [idle EXCEPT !.err = TRUE]
        ELSE IF ExtTimeout # 0 /\ xbus.timeout = 0 THEN [idle EXCEPT !.tmo = TRUE]
        ELSE IF in.ext = "ack" THEN [idle EXCEPT !.ack = TRUE, !.adr = xbus.adr]
        ELSE [xbus EXCEPT !.timeout = IF ExtTimeout # 0 THEN @ - 1 ELSE ExtTimeout]

(* History: the request of a port on the bus; 2 when it is there again, or  *)
(* when the port has not asked for it.                                      *)
Record(in) ==
  put' = [p \in Ports |->
    IF Answered(p, in) /\ port[p].st = "wait" THEN 0
    ELSE IF ~(p_on /\ bus_sel = p) THEN put[p]
    ELSE IF port[p].st # "idle" /\ p_we = port[p].we /\ put[p] = 0 THEN 1 ELSE 2]

Fabric(in) ==
  /\ Asked(in)
  /\ Arbiter(in) /\ Buffers(in) /\ Keeper(in) /\ ErrorFlag
  /\ Devices(in) /\ External(in) /\ Record(in)
  /\ UNCHANGED async

-----------------------------------------------------------------------------
(* The CPU.  A port raises its strobe for one cycle, keeps the address and  *)
(* waits.  The data port needs at least one cycle between an answer and the *)
(* next request (every engine goes through an address state); the fetch     *)
(* engine asks again in the cycle after the answer.                         *)

Reads == [adr : Adr, we : {FALSE}]
Requests == [p \in Ports |-> IF p = "A" THEN [adr : Adr, we : BOOLEAN] ELSE Reads]
Raise(p, r) == [st |-> "req", adr |-> r.adr, we |-> r.we]

Seen(p, in) == port[p].st = "wait" /\ Answered(p, in)
NoAccess == [st |-> "idle", adr |-> NoReq, we |-> FALSE]
NextPort(p, in) ==
  {IF port[p].st = "idle" \/ Seen(p, in) THEN NoAccess ELSE [port[p] EXCEPT !.st = "wait"]}
    \union {Raise(p, r) : r \in IF port[p].st = "idle" \/ (p = "B" /\ Seen(p, in))
                                THEN Requests[p] ELSE {}}

Masters(in) ==
  /\ \E a \in NextPort("A", in), b \in NextPort("B", in) :
       port' = [p \in Ports |-> IF p = "A" THEN a ELSE b]
  /\ got' = [p \in Ports |->
       IF ~Seen(p, in) THEN NoReq
       ELSE IF keeper.bus_err THEN "error" ELSE p_rdata(in)]

FabricInit ==
  /\ async \in BOOLEAN
  /\ dev = NoReq
  /\ xbus = [busy |-> FALSE, adr |-> NoReq, timeout |-> ExtTimeout,
             ack |-> FALSE, err |-> FALSE, tmo |-> FALSE]
  /\ arb = "IDLE" /\ buf = [ard |-> FALSE, awr |-> FALSE, brd |-> FALSE]
  /\ keeper = [pending |-> FALSE, timeout |-> Window - 1, ignore |-> FALSE,
               bus_err |-> FALSE, type |-> "device"]
  /\ flag = [err |-> FALSE, type |-> "device"]
  /\ put = [p \in Ports |-> 0]

Init ==
  /\ FabricInit
  /\ port = [p \in Ports |-> NoAccess] /\ got = [p \in Ports |-> NoReq]

Next == \E in \in Inputs : Fabric(in) /\ Masters(in)

Spec == Init /\ [][Next]_vars

(* The clock.  Nothing is assumed of the devices on the external bus. *)
FairSpec == Spec /\ WF_vars(Next)
-----------------------------------------------------------------------------
(* Properties *)

TypeOK ==
  /\ async \in BOOLEAN
  /\ port \in [Ports -> [st : {"idle", "req", "wait"}, adr : Adr \union {NoReq},
                       we : BOOLEAN]]
  /\ got \in [Ports -> Adr \union {NoReq, "error"}]
  /\ arb \in ArbStates
  /\ buf \in [ard : BOOLEAN, awr : BOOLEAN, brd : BOOLEAN]
  /\ keeper \in [pending : BOOLEAN, timeout : 0 .. Window - 1, ignore : BOOLEAN,
                 bus_err : BOOLEAN, type : {"device", "timeout"}]
  /\ flag \in [err : BOOLEAN, type : {"device", "timeout"}]
  /\ dev \in [adr : Adr, we : BOOLEAN, age : 1 .. SlowMax] \union {NoReq}
  /\ xbus \in [busy : BOOLEAN, adr : Adr \union {NoReq}, timeout : 0 .. ExtTimeout,
               ack : BOOLEAN, err : BOOLEAN, tmo : BOOLEAN]
  /\ put \in [Ports -> 0 .. 2]

(* While an access is under way the keeper watches it, or its error is on   *)
(* the wires: there is no access that could hang without a time-out.        *)
Watched == arb \in {"A_BUSY", "B_BUSY"} => keeper.pending \/ keeper.bus_err

(* One access at a time: who works on one works for the port that the       *)
(* switch has selected, and nothing is left over when the switch is idle.   *)
OneTransfer ==
  /\ ~(dev # NoReq /\ (xbus.busy \/ xbus.ack \/ xbus.err))
  /\ (dev # NoReq \/ xbus.busy) =>
       /\ arb \in {"A_BUSY", "B_BUSY"}
       /\ port[bus_sel].st = "wait"
       /\ port[bus_sel].adr = IF dev # NoReq THEN dev.adr ELSE xbus.adr

(* Every request is put on the bus once and answered once, at its own port, *)
(* with its own data; an access to a memory that works never ends with an   *)
(* error, and one to an address hole or a write to a read-only register     *)
(* never without.                                                           *)
Failing(p, regions) == {r \in Requests[p] :
  \/ RegionOf[r.adr] \in regions
  \/ RegionOf[r.adr] = "rom" /\ r.we}
PortContract == INSTANCE BusPorts WITH
  MayFail <- Failing("A", {"hole", "ext"}), MustFail <- Failing("A", {"hole"}),
  pend <- [p \in Ports |->
             IF port[p].st = "idle" THEN NoReq ELSE [adr |-> port[p].adr, we |-> port[p].we]],
  times <- put
ImplementsPorts == PortContract!Spec

(* The keeper's register tells of every error that a port was given, with   *)
(* the right cause, from the moment on in which the CPU can know of it, and *)
(* forgets it only when somebody reads or writes the register.              *)
ErrorRecorded ==
  [][/\ \A p \in Ports : got'[p] = "error" =>
          /\ flag'.err
          /\ RegionOf[port[p].adr] = "hole" => flag'.type = "timeout"
          /\ RegionOf[port[p].adr] = "rom" => flag'.type = "device"
     /\ flag.err /\ ~flag'.err =>
          \E p \in Ports : /\ put[p] = 0 /\ put'[p] = 1
                           /\ RegionOf[port[p].adr] = "buskeeper"]_vars

(* Every access is ended ("the BUSKEEPER ensures that any kind of access is *)
(* always properly terminated"), also that of port B while port A goes on   *)
(* asking.                                                                  *)
Terminated == \A p \in Ports : port[p].st = "wait" ~> port[p].st # "wait"
=============================================================================
