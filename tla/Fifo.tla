-------------------------------- MODULE Fifo --------------------------------
(***************************************************************************)
(* The FIFO component (neorv32_fifo.vhd) behind the instruction prefetch    *)
(* buffer and the buffers of the serial interfaces: a memory with a write   *)
(* and a read pointer that each carry one extra bit, so that a full and an  *)
(* empty buffer can be told apart.                                          *)
(*                                                                          *)
(* A pointer is the record of that extra bit (lap) and of the index into    *)
(* the memory (idx).  One step is one clock cycle.                          *)
(***************************************************************************)
EXTENDS Integers, Sequences

CONSTANTS
  FIFO_DEPTH,  (* A generic, as in the code.                               *)
  Data         (* The items; nothing here looks into them.                 *)

ASSUME FifoDepthAssumption == FIFO_DEPTH \in Nat \ {0}

VARIABLES
  w_pnt,       (* write pointer                                            *)
  r_pnt,       (* read pointer                                             *)
  fifo_data,   (* the memory (fifo.data)                                   *)
  rdata_o,     (* read port when FIFO_RSYNC is set                         *)
  safe         (* FIFO_SAFE, a generic: refuse impossible accesses         *)

fifoVars == <<w_pnt, r_pnt, fifo_data, rdata_o, safe>>

Index == 0 .. FIFO_DEPTH - 1
Pointer == [lap : BOOLEAN, idx : Index]
ZeroPnt == [lap |-> FALSE, idx |-> 0]
(* Mutants: the extra bit does not follow the index; the index does not wrap. *)
PntInc_NoLap(p) ==
  IF p.idx = FIFO_DEPTH - 1 THEN [p EXCEPT !.idx = 0] ELSE [p EXCEPT !.idx = @ + 1]
PntInc_NoWrap(p) == [p EXCEPT !.idx = @ + 1]
PntInc(p) ==
  IF p.idx = FIFO_DEPTH - 1 THEN [lap |-> ~p.lap, idx |-> 0] ELSE [p EXCEPT !.idx = @ + 1]

match == r_pnt.idx = w_pnt.idx
full  == match /\ r_pnt.lap # w_pnt.lap
empty == match /\ r_pnt.lap = w_pnt.lap
free_o == ~full
avail_o == ~empty

(* level_diff: the difference of the pointers as binary numbers with the    *)
(* extra bit on top, cut to the width of a pointer.                         *)
level_diff ==
  w_pnt.idx - r_pnt.idx
    + (IF w_pnt.lap # r_pnt.lap THEN FIFO_DEPTH
       ELSE IF w_pnt.idx < r_pnt.idx THEN 2 * FIFO_DEPTH ELSE 0)
level == IF full THEN FIFO_DEPTH ELSE level_diff
(* half_o: the top bit of the index part of level_diff, or full. *)
half_o == full \/ (FIFO_DEPTH > 1 /\ 2 * (level_diff % FIFO_DEPTH) >= FIFO_DEPTH)
head == fifo_data[r_pnt.idx]     \* asynchronous read port

-----------------------------------------------------------------------------

FifoInit ==
  /\ w_pnt = ZeroPnt /\ r_pnt = ZeroPnt
  /\ fifo_data \in [Index -> Data]     \* memory and read port are not reset
  /\ rdata_o \in Data
  /\ safe \in BOOLEAN              \* chosen when the design is built

(* What the ports may ask for.  Without FIFO_SAFE it is up to the units on  *)
(* the ports to write only into a buffer with space and to read only from   *)
(* one with data ("ensured by FIFO-external control").                      *)
Allowed(we_i, re_i, clear_i) ==
  safe \/ clear_i \/ ((we_i => free_o) /\ (re_i => avail_o))

(* Mutant: a read of an empty buffer is not refused. *)
Access_ReadEmpty(we_i, re_i, clear_i, wdata_i) ==
  LET we == we_i /\ (safe => free_o)
      re == re_i
  IN  /\ w_pnt' = IF clear_i THEN ZeroPnt ELSE IF we THEN PntInc(w_pnt) ELSE w_pnt
      /\ r_pnt' = IF clear_i THEN ZeroPnt ELSE IF re THEN PntInc(r_pnt) ELSE r_pnt
      /\ fifo_data' = IF we THEN [fifo_data EXCEPT ![w_pnt.idx] = wdata_i] ELSE fifo_data
Access(we_i, re_i, clear_i, wdata_i) ==
  LET we == we_i /\ (safe => free_o)
      re == re_i /\ (safe => avail_o)
  IN  /\ w_pnt' = IF clear_i THEN ZeroPnt ELSE IF we THEN PntInc(w_pnt) ELSE w_pnt
      /\ r_pnt' = IF clear_i THEN ZeroPnt ELSE IF re THEN PntInc(r_pnt) ELSE r_pnt
      /\ fifo_data' = IF we THEN [fifo_data EXCEPT ![w_pnt.idx] = wdata_i] ELSE fifo_data

Cycle(we_i, re_i, clear_i, wdata_i) ==
  /\ Allowed(we_i, re_i, clear_i)
  /\ Access(we_i, re_i, clear_i, wdata_i)
  /\ rdata_o' = head
  /\ UNCHANGED safe

FifoNext ==
  \E we_i, re_i, clear_i \in BOOLEAN, wdata_i \in Data :
     Cycle(we_i, re_i, clear_i, wdata_i)

FifoSpec == FifoInit /\ [][FifoNext]_fifoVars
-----------------------------------------------------------------------------
(* Properties *)

FifoTypeOK ==
  /\ w_pnt \in Pointer /\ r_pnt \in Pointer
  /\ fifo_data \in [Index -> Data] /\ rdata_o \in Data /\ safe \in BOOLEAN

(* The two pointers are never more than the depth of the buffer apart, and  *)
(* the status outputs agree with each other: the level counts from empty to *)
(* full, and half_o is up from half the depth on.                           *)
StatusConsistent ==
  /\ level \in 0 .. FIFO_DEPTH
  /\ (level = 0) = empty /\ (level = FIFO_DEPTH) = full
  /\ ~(full /\ empty)
  /\ half_o = (IF FIFO_DEPTH = 1 THEN full ELSE 2 * level >= FIFO_DEPTH)

(* The items between the pointers, oldest first. *)
Slot(n) == IF n < FIFO_DEPTH THEN n ELSE n - FIFO_DEPTH
Queued == [k \in 1 .. level |-> fifo_data[Slot(r_pnt.idx + k - 1)]]

(* The buffer is a queue: no item is lost, duplicated or reordered, whatever *)
(* writes, reads and clears meet in one cycle, at both ends of its range.    *)
Queue == INSTANCE BoundedQueue WITH Depth <- FIFO_DEPTH, q <- Queued, out <- rdata_o
ImplementsQueue == Queue!Spec
=============================================================================
