---------------------------- MODULE MCFetchPath ----------------------------
(***************************************************************************)
(* The way of an instruction, in three parts that are checked side by side; *)
(* while one goes on, the others rest in their initial states:              *)
(*   buffer     the FIFO behind a prefetch buffer, of four items;           *)
(*   front_end  the front end with any bus, see Programs;                   *)
(*   path       the front end on the real bus: word 0 and the trap handler, *)
(*              word 3, are internal memory, word 1 is on the external bus, *)
(*              word 2 is a hole.                                           *)
(***************************************************************************)
EXTENDS FetchPath, Fifo

CONSTANT OnBus   (* The programs that run on the real bus.                  *)
VARIABLE part

MCRegionOf == [w \in Words |-> CASE w = 1 -> "ext" [] w = 2 -> "hole" [] OTHER -> "ram"]
MCData == {[adr |-> 1, we |-> FALSE]}

Sys(c, pmp, slow, long, targets) ==
  [c |-> c, pmp |-> pmp, slow |-> slow, long |-> long, targets |-> targets]
Even == {h \in Halves : ~Odd(h)}
(* Programs with compressed instructions jump anywhere; programs without    *)
(* them jump to misaligned targets, and programs run into protected words,  *)
(* in systems that answer every read in the next cycle.                     *)
AnyBus ==
  {Sys(TRUE, FALSE, TRUE, long, Halves) :
      long \in {{}, Halves, {1, 2, 5, 7}}}
    \union {Sys(FALSE, FALSE, TRUE, Halves, Even), Sys(FALSE, FALSE, FALSE, Halves, Halves)}
    \union {Sys(TRUE, TRUE, FALSE, {1, 2, 5}, Halves), Sys(FALSE, TRUE, FALSE, Halves, Even)}
Proper == {Sys(TRUE, FALSE, TRUE, {1, 2}, {3})}
Misaligned == {Sys(FALSE, FALSE, TRUE, Halves, {3})}
Programs == AnyBus \union Proper

FifoRests == fifo_data = [n \in Index |-> CHOOSE d \in Data : TRUE]
               /\ rdata_o = (CHOOSE d \in Data : TRUE) /\ ~safe
FrontEndRests == cfg = CHOOSE c \in Configs : TRUE

MCInit ==
  /\ part \in {"buffer", "front_end", "path"}
  /\ FifoInit /\ (part # "buffer" => FifoRests)
  /\ Init /\ (part = "buffer" => FrontEndRests) /\ (part = "path" => cfg \in OnBus)
  /\ Bus!FabricInit /\ data_port = Bus!NoAccess /\ (part # "path" => async)

BufferPart   == part = "buffer" /\ FifoNext /\ UNCHANGED <<part, vars, fabric>>
FrontEndPart == part = "front_end" /\ Next /\ UNCHANGED <<part, fifoVars, fabric>>
PathPart     == part = "path" /\ PathNext /\ UNCHANGED <<part, fifoVars>>

MCNext == BufferPart \/ FrontEndPart \/ PathPart
MCSpec == MCInit /\ [][MCNext]_<<part, fifoVars, vars, fabric>>
MCFairSpec ==
  /\ MCSpec
  /\ WF_<<vars, fabric>>(PathPart)
  /\ WF_vars(FrontEndPart)
  /\ WF_vars(part = "front_end" /\ Clock /\ UNCHANGED <<part, fifoVars, fabric>>)
=============================================================================
