----------------------------- MODULE FetchPath -----------------------------
(***************************************************************************)
(* The front end of the CPU on the real bus: InstrFrontEnd on port B of     *)
(* BusFabric, with data accesses on port A in between.  The instruction     *)
(* cache is not implemented (ICACHE_EN = false), so that the fetch engine   *)
(* and the bus switch are wired to one another.                             *)
(***************************************************************************)
EXTENDS InstrFrontEnd

CONSTANTS
  RegionOf, Window, SlowMax, ExtTimeout,  (* See BusFabric.                *)
  DataRequests  (* The data accesses of the program.                       *)

ASSUME DataAssumption == DataRequests \subseteq [adr : Words, we : BOOLEAN]

VARIABLES data_port, async, arb, buf, keeper, flag, dev, xbus, put

fabric == <<data_port, async, arb, buf, keeper, flag, dev, xbus, put>>

(* The wires of the fetch engine. *)
FetchPort ==
  [st |-> IF Strobe THEN "req" ELSE IF fetch.state = "S_PENDING" THEN "wait" ELSE "idle",
   adr |-> fetch.pc, we |-> FALSE]

Bus == INSTANCE BusFabric WITH
  Adr <- Words, NoReq <- NoWord, got <- NoWord, port <- [A |-> data_port, B |-> FetchPort]

(* The assumptions of BusFabric; addresses are words here.                  *)
ASSUME RegionAssumption == RegionOf \in [Words -> Bus!Regions]
ASSUME WindowAssumption == Window \in Nat /\ Window >= 2
ASSUME LatencyAssumption == SlowMax \in 1 .. Window - 1 /\ ExtTimeout \in Nat
ASSUME NoRequestAssumption ==
  /\ NoWord \notin [adr : Words, we : BOOLEAN]
  /\ NoWord \notin [adr : Words, we : BOOLEAN, age : 1 .. SlowMax]
(* The front end knows which reads may fail.                                *)
ASSUME FaultAssumption == {w \in Words : RegionOf[w] \in {"ext", "hole"}} \subseteq FaultWords

(* Mutant: the answers of the data port are taken as well.                  *)
Answer_Ungated(in) ==
  [ack |-> Bus!p_ack(in), err |-> keeper.bus_err,
   word |-> IF Bus!p_ack(in) THEN Bus!p_rdata(in) ELSE NoWord]
Answer(in) ==
  LET mine == Bus!bus_sel = "B"
  IN  [ack |-> mine /\ Bus!p_ack(in), err |-> mine /\ keeper.bus_err,
       word |-> IF mine /\ Bus!p_ack(in) THEN Bus!p_rdata(in) ELSE NoWord]

(* Reads take several cycles here. *)
PathInit ==
  /\ Init /\ cfg.slow
  /\ Bus!FabricInit
  /\ data_port = Bus!NoAccess

PathNext ==
  \E in \in Bus!Inputs :
    /\ Bus!Fabric(in)
    /\ FrontEnd(Answer(in))
    /\ data_port' \in Bus!NextPort("A", in)
    /\ data_port'.st = "req" => [adr |-> data_port'.adr, we |-> data_port'.we] \in DataRequests

PathSpec == PathInit /\ [][PathNext]_<<vars, fabric>>

(* The clock alone: that the bus answers is no longer an assumption. *)
FairPath == PathSpec /\ WF_<<vars, fabric>>(PathNext)
-----------------------------------------------------------------------------
(* Properties *)

(* The bus is what the front end takes it for: with the keeper, the switch  *)
(* and the data accesses in between every fetch is answered with the word   *)
(* that was asked for, and only in the words that may fail with an error.   *)
ImplementsFrontEnd == Spec

(* "The BUSKEEPER ensures that any kind of access is always properly        *)
(* terminated" (docs/datasheet/cpu.adoc).                                   *)
FetchTerminated == fetch.state = "S_PENDING" ~> fetch.state # "S_PENDING"
=============================================================================
