---------------------------- MODULE Fifo_proofs ----------------------------
(***************************************************************************)
(* For every depth: the FIFO keeps its types, its status outputs agree, and *)
(* it implements the bounded queue.                                         *)
(***************************************************************************)
EXTENDS Fifo, SequenceTheorems, TLAPS

(* The write pointer is ahead of the read pointer by at most one lap. *)
Window ==
  /\ w_pnt.lap = r_pnt.lap => r_pnt.idx <= w_pnt.idx
  /\ w_pnt.lap # r_pnt.lap => w_pnt.idx <= r_pnt.idx

Inv == FifoTypeOK /\ Window

USE FifoDepthAssumption

-----------------------------------------------------------------------------

(* A pointer that is incremented stays one. *)
LEMMA PntIncType ==
  ASSUME NEW p \in Pointer
  PROVE  PntInc(p) \in Pointer
BY DEF PntInc, Pointer, Index

(* A number below the modulus is its own remainder. *)
LEMMA SmallMod ==
  ASSUME NEW d \in Nat \ {0}, NEW x \in 0 .. d - 1
  PROVE  x % d = x
OBVIOUS

(* Under the invariant the level is the distance of the pointers. *)
LEMMA LevelRange ==
  ASSUME Inv
  PROVE  /\ level \in 0 .. FIFO_DEPTH
         /\ level = level_diff
         /\ (level = 0) = empty
         /\ (level = FIFO_DEPTH) = full
         /\ level = w_pnt.idx - r_pnt.idx + (IF w_pnt.lap # r_pnt.lap THEN FIFO_DEPTH ELSE 0)
BY DEF Inv, FifoTypeOK, Window, level, level_diff, empty, full, match, Pointer, Index

(* half_o is up from half the depth on. *)
LEMMA HalfLevel ==
  ASSUME Inv
  PROVE  half_o = (IF FIFO_DEPTH = 1 THEN full ELSE 2 * level >= FIFO_DEPTH)
<1>1. level \in 0 .. FIFO_DEPTH /\ level = level_diff /\ (level = FIFO_DEPTH) = full
  BY LevelRange
<1>a. full \in BOOLEAN /\ half_o \in BOOLEAN
  BY DEF full, half_o
<1>2. CASE full
  <2>1. level = FIFO_DEPTH
    BY <1>1, <1>2
  <2>2. half_o
    BY <1>2 DEF half_o
  <2>3. 2 * level >= FIFO_DEPTH
    BY <2>1
  <2> QED BY <1>2, <1>a, <2>2, <2>3
<1>3. CASE ~full
  <2>1. level_diff \in 0 .. FIFO_DEPTH - 1
    BY <1>1, <1>3, <1>a
  <2>2. level_diff % FIFO_DEPTH = level_diff
    BY <2>1, SmallMod
  <2>3. half_o = (FIFO_DEPTH > 1 /\ 2 * level_diff >= FIFO_DEPTH)
    BY <1>3, <2>2 DEF half_o
  <2> QED BY <1>1, <1>3, <1>a, <2>1, <2>3
<1> QED BY <1>2, <1>3

LEMMA StatusFollows == Inv => StatusConsistent
<1> SUFFICES ASSUME Inv PROVE StatusConsistent
  OBVIOUS
<1>1. level \in 0 .. FIFO_DEPTH /\ (level = 0) = empty /\ (level = FIFO_DEPTH) = full
  BY LevelRange
<1>2. ~(full /\ empty)
  BY DEF full, empty
<1>3. half_o = (IF FIFO_DEPTH = 1 THEN full ELSE 2 * level >= FIFO_DEPTH)
  BY HalfLevel
<1> QED BY <1>1, <1>2, <1>3 DEF StatusConsistent

-----------------------------------------------------------------------------

(* What one cycle does to the pointers: with the accesses that the ports    *)
(* may make or that the buffer lets through, a write finds space and a read *)
(* finds an item.                                                           *)
LEMMA CycleFacts ==
  ASSUME Inv, NEW we_i \in BOOLEAN, NEW re_i \in BOOLEAN, NEW clear_i \in BOOLEAN,
         NEW x \in Data, Cycle(we_i, re_i, clear_i, x)
  PROVE  \/ w_pnt' = ZeroPnt /\ r_pnt' = ZeroPnt /\ fifo_data' \in [Index -> Data]
         \/ \E we, re \in BOOLEAN :
              /\ we => ~full
              /\ re => ~empty
              /\ w_pnt' = IF we THEN PntInc(w_pnt) ELSE w_pnt
              /\ r_pnt' = IF re THEN PntInc(r_pnt) ELSE r_pnt
              /\ fifo_data' = IF we THEN [fifo_data EXCEPT ![w_pnt.idx] = x] ELSE fifo_data
<1> DEFINE we == we_i /\ (safe => free_o)
           re == re_i /\ (safe => avail_o)
<1>1. we \in BOOLEAN /\ re \in BOOLEAN
  OBVIOUS
<1>2. CASE clear_i
  <2>1. w_pnt' = ZeroPnt /\ r_pnt' = ZeroPnt
    BY <1>2 DEF Cycle, Access
  <2>2. fifo_data' = IF we THEN [fifo_data EXCEPT ![w_pnt.idx] = x] ELSE fifo_data
    BY DEF Cycle, Access
  <2>3. fifo_data' \in [Index -> Data]
    BY <2>2 DEF Inv, FifoTypeOK
  <2> QED BY <2>1, <2>3
<1>3. CASE ~clear_i
  <2>1. (we => ~full) /\ (re => ~empty)
    BY <1>3 DEF Cycle, Allowed, free_o, avail_o
  <2>2. /\ w_pnt' = IF we THEN PntInc(w_pnt) ELSE w_pnt
        /\ r_pnt' = IF re THEN PntInc(r_pnt) ELSE r_pnt
        /\ fifo_data' = IF we THEN [fifo_data EXCEPT ![w_pnt.idx] = x] ELSE fifo_data
    BY <1>3 DEF Cycle, Access
  <2> QED BY <1>1, <2>1, <2>2
<1> QED BY <1>2, <1>3

LEMMA InvStep ==
  ASSUME Inv, [FifoNext]_fifoVars
  PROVE  Inv'
<1>1. CASE UNCHANGED fifoVars
  BY <1>1 DEF Inv, FifoTypeOK, Window, fifoVars
<1>2. ASSUME NEW we_i \in BOOLEAN, NEW re_i \in BOOLEAN, NEW clear_i \in BOOLEAN,
             NEW x \in Data, Cycle(we_i, re_i, clear_i, x)
      PROVE  Inv'
  <2>1. rdata_o' \in Data /\ safe' \in BOOLEAN
    BY <1>2 DEF Cycle, head, Inv, FifoTypeOK, Pointer
  <2>2. CASE w_pnt' = ZeroPnt /\ r_pnt' = ZeroPnt /\ fifo_data' \in [Index -> Data]
    BY <2>1, <2>2 DEF Inv, FifoTypeOK, Window, ZeroPnt, Pointer, Index
  <2>3. ASSUME NEW we \in BOOLEAN, NEW re \in BOOLEAN,
               we => ~full, re => ~empty,
               w_pnt' = IF we THEN PntInc(w_pnt) ELSE w_pnt,
               r_pnt' = IF re THEN PntInc(r_pnt) ELSE r_pnt,
               fifo_data' = IF we THEN [fifo_data EXCEPT ![w_pnt.idx] = x] ELSE fifo_data
        PROVE  Inv'
    <3>1. w_pnt' \in Pointer /\ r_pnt' \in Pointer
      BY <2>3, PntIncType DEF Inv, FifoTypeOK
    <3>2. fifo_data' \in [Index -> Data]
      BY <2>3 DEF Inv, FifoTypeOK
    <3>3. Window'
      BY <2>3 DEF Inv, FifoTypeOK, Window, full, empty, match, PntInc, Pointer, Index
    <3> QED BY <2>1, <3>1, <3>2, <3>3 DEF Inv, FifoTypeOK
  <2> QED BY <1>2, <2>2, <2>3, CycleFacts
<1> QED BY <1>1, <1>2 DEF FifoNext

LEMMA InvInit == FifoInit => Inv
BY DEF FifoInit, Inv, FifoTypeOK, Window, ZeroPnt, Pointer, Index

THEOREM InvCorrect == FifoSpec => []Inv
BY InvInit, InvStep, PTL DEF FifoSpec

(* The pointers, the memory and the read port hold values of their widths. *)
THEOREM TypeCorrect == FifoSpec => []FifoTypeOK
<1>1. Inv => FifoTypeOK
  BY DEF Inv
<1> QED BY <1>1, InvCorrect, PTL

(* The level counts from empty to full and half_o is up from half the depth *)
(* on: what the units on the ports see is the state of the buffer.          *)
THEOREM StatusCorrect == FifoSpec => []StatusConsistent
BY InvCorrect, StatusFollows, PTL

-----------------------------------------------------------------------------
(* The queue *)

(* The mapped queue is a sequence of items, as long as the level says. *)
LEMMA QueuedSeq ==
  ASSUME Inv
  PROVE  /\ Queued \in Seq(Data)
         /\ Len(Queued) = level
         /\ level \in Nat
         /\ \A k \in 1 .. level : Queued[k] = fifo_data[Slot(r_pnt.idx + k - 1)]
<1>1. level \in 0 .. FIFO_DEPTH
  BY LevelRange
<1>2. \A k \in 1 .. level : fifo_data[Slot(r_pnt.idx + k - 1)] \in Data
  BY <1>1 DEF Inv, FifoTypeOK, Pointer, Index, Slot
<1> QED BY <1>1, <1>2 DEF Queued

(* The oldest item is what the read port shows. *)
LEMMA HeadIsOldest ==
  ASSUME Inv, Queued # <<>>
  PROVE  Head(Queued) = head
<1>1. level \in Nat /\ level >= 1
  BY QueuedSeq
<1>2. Head(Queued) = Queued[1]
  BY QueuedSeq
<1>3. Queued[1] = fifo_data[Slot(r_pnt.idx)]
  BY <1>1, QueuedSeq DEF Inv, FifoTypeOK, Pointer, Index
<1> QED BY <1>2, <1>3 DEF head, Slot, Inv, FifoTypeOK, Pointer, Index

(* The distance of two pointers, and what an increment does to it. *)
Ahead(p, r) == p.idx - r.idx + (IF p.lap # r.lap THEN FIFO_DEPTH ELSE 0)

LEMMA AheadWrite ==
  ASSUME NEW p \in Pointer, NEW r \in Pointer,
         Ahead(p, r) \in 0 .. FIFO_DEPTH - 1
  PROVE  Ahead(PntInc(p), r) = Ahead(p, r) + 1
<1>1. CASE p.idx = FIFO_DEPTH - 1
  <2>1. p.lap = r.lap
    BY <1>1 DEF Ahead, Pointer, Index
  <2>2. PntInc(p).lap # r.lap /\ PntInc(p).idx = 0
    BY <1>1, <2>1 DEF PntInc, Pointer
  <2> QED BY <1>1, <2>1, <2>2 DEF Ahead, Pointer, Index
<1>2. CASE p.idx # FIFO_DEPTH - 1
  <2>1. PntInc(p).lap = p.lap /\ PntInc(p).idx = p.idx + 1
    BY <1>2 DEF PntInc, Pointer
  <2> QED BY <2>1 DEF Ahead, Pointer, Index
<1> QED BY <1>1, <1>2

LEMMA AheadRead ==
  ASSUME NEW p \in Pointer, NEW r \in Pointer,
         Ahead(p, r) \in 1 .. FIFO_DEPTH
  PROVE  Ahead(p, PntInc(r)) = Ahead(p, r) - 1
<1>1. CASE r.idx = FIFO_DEPTH - 1
  <2>1. p.lap # r.lap
    BY <1>1 DEF Ahead, Pointer, Index
  <2>2. PntInc(r).lap = p.lap /\ PntInc(r).idx = 0
    BY <1>1, <2>1 DEF PntInc, Pointer
  <2> QED BY <1>1, <2>1, <2>2 DEF Ahead, Pointer, Index
<1>2. CASE r.idx # FIFO_DEPTH - 1
  <2>1. PntInc(r).lap = r.lap /\ PntInc(r).idx = r.idx + 1
    BY <1>2 DEF PntInc, Pointer
  <2> QED BY <2>1 DEF Ahead, Pointer, Index
<1> QED BY <1>1, <1>2

(* An access moves the window over the memory by its own length only, and    *)
(* every item that stays keeps its place in line.                            *)
LEMMA AccessQueue ==
  ASSUME Inv, Inv', NEW we \in BOOLEAN, NEW re \in BOOLEAN, NEW x \in Data,
         we => ~full, re => ~empty,
         w_pnt' = IF we THEN PntInc(w_pnt) ELSE w_pnt,
         r_pnt' = IF re THEN PntInc(r_pnt) ELSE r_pnt,
         fifo_data' = IF we THEN [fifo_data EXCEPT ![w_pnt.idx] = x] ELSE fifo_data,
         NEW out_n, NEW in_n,
         out_n = IF re THEN 1 ELSE 0, in_n = IF we THEN 1 ELSE 0
  PROVE  /\ level' = level - out_n + in_n
         /\ Queued' \in Seq(Data) /\ Len(Queued') = level'
         /\ \A k \in 1 .. level - out_n : Queued'[k] = Queued[k + out_n]
         /\ we => Queued'[level'] = x
<1>0. w_pnt \in Pointer /\ r_pnt \in Pointer /\ w_pnt' \in Pointer /\ r_pnt' \in Pointer
  BY DEF Inv, FifoTypeOK
<1>1. level = Ahead(w_pnt, r_pnt) /\ level \in 0 .. FIFO_DEPTH
  BY LevelRange DEF Ahead
<1>2. level' = Ahead(w_pnt', r_pnt') /\ level' \in 0 .. FIFO_DEPTH
  BY DEF Inv, FifoTypeOK, Window, level, level_diff, empty, full, match, Pointer, Index, Ahead
<1>5. (re => level >= 1) /\ (we => level < FIFO_DEPTH)
  BY LevelRange, <1>1
<1>3. level' = level - out_n + in_n
  <2>1. Ahead(w_pnt', r_pnt) = level + in_n
    BY <1>0, <1>1, <1>5, AheadWrite
  <2>2. re => Ahead(w_pnt', r_pnt) \in 1 .. FIFO_DEPTH
    BY <1>1, <1>5, <2>1
  <2>3. Ahead(w_pnt', r_pnt') = Ahead(w_pnt', r_pnt) - out_n
    BY <1>0, <1>1, <2>1, <2>2, AheadRead
  <2> QED BY <1>1, <1>2, <2>1, <2>3
<1>4. level' \in 0 .. FIFO_DEPTH /\ level \in 0 .. FIFO_DEPTH
  BY <1>1, <1>2
<1>6. \A k \in 1 .. level' : Slot(r_pnt'.idx + k - 1) \in Index
  BY <1>4 DEF Inv, FifoTypeOK, Pointer, Index, Slot
<1>7. Queued' \in Seq(Data) /\ Len(Queued') = level'
      /\ \A k \in 1 .. level' : Queued'[k] = fifo_data'[Slot(r_pnt'.idx + k - 1)]
  <2>1. \A k \in 1 .. level' : fifo_data'[Slot(r_pnt'.idx + k - 1)] \in Data
    BY <1>6 DEF Inv, FifoTypeOK
  <2>2. Queued' = [k \in 1 .. level' |-> fifo_data'[Slot(r_pnt'.idx + k - 1)]]
    BY DEF Queued, Slot
  <2> QED BY <1>4, <2>1, <2>2
<1>8. ASSUME NEW k \in 1 .. level - out_n
      PROVE  Queued'[k] = Queued[k + out_n]
  <2>1. k \in 1 .. level' /\ k + out_n \in 1 .. level
    BY <1>3, <1>4
  <2>2. Slot(r_pnt'.idx + k - 1) = Slot(r_pnt.idx + (k + out_n) - 1)
    BY <2>1, <1>4 DEF Inv, FifoTypeOK, Pointer, Index, Slot, PntInc
  <2>3. we => Slot(r_pnt.idx + (k + out_n) - 1) # w_pnt.idx
    BY <2>1, <1>0, <1>1, <1>4, <1>5 DEF Pointer, Index, Slot, Ahead
  <2>4. fifo_data'[Slot(r_pnt.idx + (k + out_n) - 1)] = fifo_data[Slot(r_pnt.idx + (k + out_n) - 1)]
    BY <2>2, <2>3, <1>6, <2>1 DEF Inv, FifoTypeOK
  <2> QED BY <2>1, <2>2, <2>4, <1>7, QueuedSeq
<1>9. ASSUME we
      PROVE  Queued'[level'] = x
  <2>1. level' \in 1 .. level'
    BY <1>3, <1>4, <1>5, <1>9
  <2>2. Slot(r_pnt'.idx + level' - 1) = w_pnt.idx
    <3>1. level' = level + 1 - out_n /\ level < FIFO_DEPTH
      BY <1>3, <1>4, <1>5, <1>9
    <3>2. Slot(r_pnt.idx + level) = w_pnt.idx
      BY <1>0, <1>1, <3>1 DEF Ahead, Pointer, Index, Slot
    <3>3. CASE ~re
      BY <3>1, <3>2, <3>3, <1>0, <1>4 DEF Pointer, Index
    <3>4. CASE re
      <4>1. r_pnt' = PntInc(r_pnt) /\ level' = level /\ level >= 1
        BY <3>4, <3>1, <1>4, <1>5
      <4>2. CASE r_pnt.idx = FIFO_DEPTH - 1
        BY <4>1, <4>2, <3>1, <3>2, <1>0, <1>4 DEF PntInc, Pointer, Index, Slot
      <4>3. CASE r_pnt.idx # FIFO_DEPTH - 1
        BY <4>1, <4>3, <3>1, <3>2, <1>0, <1>4 DEF PntInc, Pointer, Index, Slot
      <4> QED BY <4>2, <4>3
    <3> QED BY <3>3, <3>4
  <2>3. fifo_data'[w_pnt.idx] = x
    BY <1>9 DEF Inv, FifoTypeOK, Pointer
  <2> QED BY <2>1, <2>2, <2>3, <1>7
<1> QED BY <1>3, <1>7, <1>8, <1>9

-----------------------------------------------------------------------------
(* Every cycle is a step of the queue. *)

LEMMA QueueInit == FifoInit => Queue!Init
<1> SUFFICES ASSUME FifoInit PROVE Queue!Init
  OBVIOUS
<1>1. level = 0
  BY InvInit, LevelRange DEF FifoInit, empty, match
<1>2. Queued = <<>>
  BY <1>1, InvInit, QueuedSeq, EmptySeq
<1> QED BY <1>2 DEF FifoInit, Queue!Init

(* The read port of the next cycle shows what was the oldest item. *)
LEMMA QueueShow ==
  ASSUME Inv, rdata_o' = head
  PROVE  Queue!Show
<1>1. head \in Data
  BY DEF head, Inv, FifoTypeOK, Pointer
<1>2. Queued # <<>> => rdata_o' = Head(Queued)
  BY HeadIsOldest
<1> QED BY <1>1, <1>2 DEF Queue!Show

(* One access is the step of the queue that its two enables name. *)
LEMMA AccessStep ==
  ASSUME Inv, Inv', rdata_o' = head,
         NEW we \in BOOLEAN, NEW re \in BOOLEAN, NEW x \in Data,
         we => ~full, re => ~empty,
         w_pnt' = IF we THEN PntInc(w_pnt) ELSE w_pnt,
         r_pnt' = IF re THEN PntInc(r_pnt) ELSE r_pnt,
         fifo_data' = IF we THEN [fifo_data EXCEPT ![w_pnt.idx] = x] ELSE fifo_data
  PROVE  Queue!Next
<1> DEFINE out_n == IF re THEN 1 ELSE 0
           in_n == IF we THEN 1 ELSE 0
<1>1. /\ level' = level - out_n + in_n
      /\ Queued' \in Seq(Data) /\ Len(Queued') = level'
      /\ \A k \in 1 .. level - out_n : Queued'[k] = Queued[k + out_n]
      /\ we => Queued'[level'] = x
  BY AccessQueue
<1>2. /\ Queued \in Seq(Data) /\ Len(Queued) = level /\ level \in 0 .. FIFO_DEPTH
      /\ re => level >= 1 /\ Queued # <<>>
      /\ we => Len(Queued) < FIFO_DEPTH
  BY QueuedSeq, LevelRange
<1>3. Queue!Show
  BY QueueShow
<1> HIDE DEF Queued, level
<1>4. CASE ~we /\ ~re
  <2>1. Queued' = Queued
    BY <1>1, <1>2, <1>4, SeqEqual
  <2> QED BY <2>1, <1>3 DEF Queue!Next, Queue!Idle
<1>5. CASE we /\ ~re
  <2>1. Queued' = Append(Queued, x)
    BY <1>1, <1>2, <1>5, SeqEqual
  <2> QED BY <2>1, <1>2, <1>3, <1>5 DEF Queue!Next, Queue!Put
<1>6. CASE ~we /\ re
  <2>1. Queued' = Tail(Queued)
    BY <1>1, <1>2, <1>6, SeqEqual
  <2> QED BY <2>1, <1>2, <1>3, <1>6 DEF Queue!Next, Queue!Get
<1>7. CASE we /\ re
  <2>1. Tail(Queued) \in Seq(Data) /\ Len(Tail(Queued)) = level - 1
    BY <1>2, <1>7
  <2>2. Queued' = Append(Tail(Queued), x)
    BY <1>1, <1>2, <1>7, <2>1, SeqEqual
  <2> QED BY <2>2, <1>2, <1>3, <1>7 DEF Queue!Next, Queue!PutGet
<1> QED BY <1>4, <1>5, <1>6, <1>7

LEMMA QueueStep ==
  ASSUME Inv, Inv', [FifoNext]_fifoVars
  PROVE  [Queue!Next]_(Queue!queueVars)
<1>1. CASE UNCHANGED fifoVars
  <2>1. Queued' = Queued
    BY <1>1 DEF fifoVars, Queued, level, level_diff, full, match, Slot
  <2> QED BY <1>1, <2>1 DEF fifoVars, Queue!queueVars
<1>2. ASSUME NEW we_i \in BOOLEAN, NEW re_i \in BOOLEAN, NEW clear_i \in BOOLEAN,
             NEW x \in Data, Cycle(we_i, re_i, clear_i, x)
      PROVE  Queue!Next
  <2>1. rdata_o' = head
    BY <1>2 DEF Cycle
  <2>2. CASE w_pnt' = ZeroPnt /\ r_pnt' = ZeroPnt /\ fifo_data' \in [Index -> Data]
    <3>1. level' = 0
      BY <2>2 DEF level, level_diff, full, match, ZeroPnt
    <3>2. Queued' = <<>>
      BY <3>1 DEF Queued
    <3> QED BY <3>2, <2>1, QueueShow DEF Queue!Next, Queue!Clear
  <2>3. ASSUME NEW we \in BOOLEAN, NEW re \in BOOLEAN,
               we => ~full, re => ~empty,
               w_pnt' = IF we THEN PntInc(w_pnt) ELSE w_pnt,
               r_pnt' = IF re THEN PntInc(r_pnt) ELSE r_pnt,
               fifo_data' = IF we THEN [fifo_data EXCEPT ![w_pnt.idx] = x] ELSE fifo_data
        PROVE  Queue!Next
    BY <2>1, <2>3, AccessStep
  <2> QED BY <1>2, <2>2, <2>3, CycleFacts
<1> QED BY <1>1, <1>2 DEF FifoNext

(* No item is lost, duplicated or reordered, for any depth and any accesses. *)
THEOREM QueueCorrect == FifoSpec => ImplementsQueue
<1>1. Inv /\ Inv' /\ [FifoNext]_fifoVars => [Queue!Next]_(Queue!queueVars)
  BY QueueStep
<1> QED BY QueueInit, <1>1, InvCorrect, PTL DEF FifoSpec, ImplementsQueue, Queue!Spec
=============================================================================
