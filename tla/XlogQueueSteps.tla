-------------------------- MODULE XlogQueueSteps ----------------------------
(***************************************************************************)
(* The WAL meta queue of XlogQueue, for a ring of any size, any number of  *)
(* slots, inserters, walsenders and records: what each step does to the    *)
(* packets, the references and the ring, and the inductive invariant as    *)
(* far as it is about positions.                                           *)
(*                                                                         *)
(* Positions are unbounded in the model and the ring has one cell for all  *)
(* positions of the same offset, so the first lemmas are about remainders: *)
(* the cells of the lap that starts at pread are one for each position     *)
(* (Apart, Offset), and the region that polar_ringbuf_update_pread clears  *)
(* is exactly what lies between the old pread and the new (FreedIs).       *)
(*                                                                         *)
(* The invariant. Packets lie one after the other (Layout), and one that   *)
(* is written ends before the lap does (Space). Every reference has a      *)
(* number of its own (RefsHeld), so that a slot answers one reference at   *)
(* most even after an eviction; no reference is behind pread (SlotsAhead); *)
(* the reference of the saver is strong, is made first (Unborn) and stands *)
(* at the start of the packet after the last it took (SaverAt). From these *)
(* pread never passes a position a matching reference is at, which is what *)
(* keeps the cells: see XlogQueueProofs.                                   *)
(***************************************************************************)
EXTENDS XlogQueue, WellFoundedInduction, TLAPS

\* A leaf that names no prover is for Zenon.
USE Zenon

-----------------------------------------------------------------------------
(* Offsets in the ring. *)

\* A position is so many laps of the ring and an offset.
LEMMA DivMod ==
  ASSUME NEW p \in Nat
  PROVE  /\ p \div Size \in Nat /\ p % Size \in 0..(Size - 1)
         /\ p = Size * (p \div Size) + (p % Size)
BY RingBufAssumption, SMT

\* The only multiple of Size strictly between -Size and Size is zero.
LEMMA SmallMultiple ==
  ASSUME NEW d \in Int, NEW n \in Int, n = Size * d, n > -Size, n < Size
  PROVE  n = 0
<1>1. d >= 1 => Size * d >= Size
  BY RingBufAssumption, SMT
<1>2. d <= -1 => Size * d <= -Size
  BY RingBufAssumption, SMT
<1>3. d = 0 => Size * d = 0
  BY RingBufAssumption, SMT
<1> QED
  BY <1>1, <1>2, <1>3, RingBufAssumption, SMT

\* The offset is the only remainder.
LEMMA Remainder ==
  ASSUME NEW p \in Nat, NEW k \in Int, NEW r \in 0..(Size - 1), p = Size * k + r
  PROVE  p % Size = r
<1> DEFINE d == k - (p \div Size)
<1>1. d \in Int /\ Size * d = (p % Size) - r
  BY DivMod, RingBufAssumption, SMT
<1>2. (p % Size) - r > -Size /\ (p % Size) - r < Size
  BY DivMod, RingBufAssumption, SMT
<1>3. (p % Size) - r = 0
  BY <1>1, <1>2, SmallMultiple, DivMod, RingBufAssumption, SMT
<1> QED
  BY <1>3, DivMod, SMT

\* A lap further is the same cell.
LEMMA Lap == ASSUME NEW p \in Nat PROVE (p + Size) % Size = p % Size
<1>1. /\ p + Size = Size * ((p \div Size) + 1) + (p % Size)
      /\ (p \div Size) + 1 \in Int /\ p % Size \in 0..(Size - 1) /\ p + Size \in Nat
  BY DivMod, RingBufAssumption, SMT
<1> QED
  BY <1>1, Remainder

\* Positions less than a lap apart are different cells.
LEMMA Apart ==
  ASSUME NEW p \in Nat, NEW q \in Nat, p < q, q < p + Size
  PROVE  p % Size # q % Size
<1> SUFFICES ASSUME p % Size = q % Size PROVE FALSE
  OBVIOUS
<1>1. q - p = Size * ((q \div Size) - (p \div Size))
  BY DivMod, RingBufAssumption, SMT
<1> QED
  BY <1>1, SmallMultiple, DivMod, RingBufAssumption, SMT

\* The offset of a position up to a lap after b, from the offset of b.
LEMMA Offset ==
  ASSUME NEW b \in Nat, NEW q \in Nat, b <= q, q < b + Size
  PROVE  q % Size = IF (b % Size) + (q - b) < Size
                    THEN (b % Size) + (q - b) ELSE (b % Size) + (q - b) - Size
<1> DEFINE k == b \div Size
           r == (b % Size) + (q - b)
<1>0. k \in Int /\ k + 1 \in Int /\ r \in Int /\ r >= 0 /\ r < Size + Size
  BY DivMod, RingBufAssumption, SMT
<1>1. CASE r < Size
  <2>1. q = Size * k + r /\ r \in 0..(Size - 1)
    BY <1>1, <1>0, DivMod, RingBufAssumption, SMT
  <2> HIDE DEF k, r
  <2>2. q % Size = r
    BY <1>0, <2>1, Remainder
  <2> QED
    BY <2>2, <1>1 DEF r
<1>2. CASE r >= Size
  <2>0. Size * (k + 1) = Size * k + Size /\ q = Size * k + r /\ Size * k \in Int
    BY <1>0, DivMod, RingBufAssumption, SMT
  <2>1. q = Size * (k + 1) + (r - Size) /\ r - Size \in 0..(Size - 1)
    BY <1>2, <1>0, <2>0, RingBufAssumption, SMT
  <2> HIDE DEF k, r
  <2>2. q % Size = r - Size
    BY <1>0, <2>1, Remainder
  <2> QED
    BY <2>2, <1>2, <1>0, RingBufAssumption, SMT DEF r
<1> QED
  BY <1>1, <1>2, <1>0, RingBufAssumption, SMT

\* Freed is the offsets of the positions that are given up, and no other of
\* the lap that starts with them.
LEMMA FreedIs ==
  ASSUME NEW from \in Nat, NEW to \in Nat, NEW q \in Nat,
         from < to, to < from + Size, from <= q, q < from + Size
  PROVE  q % Size \in Freed(from % Size, to % Size) <=> q < to
<1>1. /\ q % Size = IF (from % Size) + (q - from) < Size
                    THEN (from % Size) + (q - from) ELSE (from % Size) + (q - from) - Size
      /\ to % Size = IF (from % Size) + (to - from) < Size
                     THEN (from % Size) + (to - from) ELSE (from % Size) + (to - from) - Size
  BY Offset, SMT
<1>2. from % Size \in 0..(Size - 1)
  BY DivMod
<1>3. ASSUME NEW f \in 0..(Size - 1), NEW t \in Int, NEW x \in Int,
             x = IF f + (q - from) < Size THEN f + (q - from) ELSE f + (q - from) - Size,
             t = IF f + (to - from) < Size THEN f + (to - from) ELSE f + (to - from) - Size
      PROVE  x \in Freed(f, t) <=> q < to
  <2>0. Size \in Nat /\ f \in Nat /\ f < Size
    BY RingBufAssumption, SMT
  <2>1. CASE f + (to - from) < Size
    <3>1. t = f + (to - from) /\ Freed(f, t) = f..(t - 1)
      BY <1>3, <2>0, <2>1, SMT DEF Freed
    <3> QED
      BY <1>3, <2>0, <2>1, <3>1, SMT
  <2>2. CASE f + (to - from) >= Size
    <3>1. t = f + (to - from) - Size /\ Freed(f, t) = (f..(Size - 1)) \cup (0..(t - 1))
      BY <1>3, <2>0, <2>2, SMT DEF Freed
    <3> QED
      BY <1>3, <2>0, <2>2, <3>1, SMT
  <2> QED
    BY <2>0, <2>1, <2>2, SMT
<1>4. q % Size \in Int /\ to % Size \in Int
  BY DivMod, SMT
<1> QED
  BY <1>1, <1>2, <1>3, <1>4

\* A set of numbers has a least one.
LEMMA MinIs ==
  ASSUME NEW S, S \subseteq Nat, S # {}
  PROVE  Min(S) \in S /\ \A y \in S : Min(S) <= y
<1> DEFINE R == OpToRel(<, Nat)
<1>1. IsWellFoundedOn(R, Nat)
  BY NatLessThanWellFounded
<1>2. PICK x \in S : \A y \in S : ~(<<y, x>> \in R)
  <2> HIDE DEF R
  <2> QED
    BY <1>1, WFMin
<1>3. \A y \in S : ~(y < x)
  <2> TAKE y \in S
  <2>1. x \in Nat /\ y \in Nat
    OBVIOUS
  <2>2. ~(<<y, x>> \in R)
    BY <1>2
  <2> QED
    BY <2>1, <2>2 DEF OpToRel
<1>4. \E z \in S : \A y \in S : z <= y
  BY <1>3, SMT
<1> QED
  BY <1>4 DEF Min

-----------------------------------------------------------------------------
(* The inductive invariant. *)

\* The records of the state.
Packet == [start : Nat, at : {"copy", "wait", "push", "ready"}]
SlotRecord == [num : Nat, strong : BOOLEAN, pread : Nat]
CellRecord == [state : {"free", "len", "ready", "body"}, pkt : 0..MaxRecords,
               body : 0..MaxBody]

\* Where packet k ends and where it starts, what it covers and what its cells
\* hold once it is pushed.
End(k) == pkts[k].start + 1 + Body[k]
StartOf(k) == IF k \in DOMAIN pkts THEN pkts[k].start ELSE pwrite
Covers(k, p) == pkts[k].start <= p /\ p < End(k)
Header(k) == [state |-> "ready", pkt |-> k, body |-> Body[k]]
BodyCell(k) == [state |-> "body", pkt |-> k, body |-> 0]

\* Packets are laid out one after the other from position 0 to pwrite.
Layout ==
  /\ StartOf(1) = 0
  /\ \A k \in DOMAIN pkts : End(k) = StartOf(k + 1) /\ End(k) <= pwrite
  /\ \A j, k \in DOMAIN pkts : j < k => End(j) <= pkts[k].start

\* A packet that is being written, or was, has been given space.
Space ==
  \A k \in DOMAIN pkts :
    pkts[k].at \in {"push", "ready"} => End(k) <= pread + Size - 1

\* References have numbers of their own: a slot matches one of them at most.
HeldRef(r) == r = NoRef \/ (r.slot \in Slots /\ r.num \in 1..refNum)
RefsHeld ==
  /\ HeldRef(sref) /\ HeldRef(kref) /\ \A w \in Senders : HeldRef(wref[w])
  /\ sref # NoRef => sref.num # kref.num
  /\ \A w \in Senders : wref[w] # NoRef =>
       /\ wref[w].num # sref.num /\ wref[w].num # kref.num
       /\ \A v \in Senders \ {w} : wref[w].num # wref[v].num

\* No reference is behind pread.
SlotsAhead == \A i \in Slots : slot[i].num # 0 => pread <= slot[i].pread

\* Before the saver makes its reference there is none.
Unborn ==
  sref = NoRef =>
    /\ saved = 0 /\ pread = 0 /\ kref = NoRef /\ spc = "pop"
    /\ \A i \in Slots : slot[i].num = 0
    /\ \A w \in Senders : wpc[w] = "off"

\* The saver has taken a prefix of the packets and is at the next one.
SaverAt ==
  /\ \A k \in 1..saved : k \in Published
  /\ sref # NoRef => Position(sref) = StartOf(saved + 1)
  /\ spc = "step" => kref # NoRef

\* In the lap that starts at pread the packets that were pushed are whole, and
\* nothing else looks like one.
Written(c) == c.state \in {"ready", "body"}
Cells ==
  /\ \A k \in Published :
       /\ pkts[k].start >= pread => CellAt(pkts[k].start) = Header(k)
       /\ \A j \in 1..Body[k] :
            pkts[k].start + j >= pread => CellAt(pkts[k].start + j) = BodyCell(k)
  /\ \A p \in pread..(pread + Size - 1) :
       (\A k \in Published : ~Covers(k, p)) => ~Written(CellAt(p))

\* A walsender whose reference was made at a packet is at a packet, and once
\* its check succeeded at one that continues what it has sent, or before.
Idle(w) ==
  /\ wpc[w] = "off" => wref[w] = NoRef
  /\ wpc[w] \in {"off", "check"} => ~checked[w]
Settled(w) == checked[w] \/ wpc[w] \in {"send", "raw", "more"}
Placed(w) ==
  w \notin astray /\ RefMatch(wref[w]) =>
    /\ Position(wref[w]) <= pread + Size - 1
    /\ \E j \in 1..(Len(pkts) + 1) :
         Position(wref[w]) = StartOf(j) /\ (Settled(w) => j <= sent[w] + 1)
Readers == \A w \in Senders : Idle(w) /\ Placed(w)

-----------------------------------------------------------------------------
(* What steps do to the packets. *)

\* The types of the packets, one by one.
LEMMA PacketTypes ==
  ASSUME TypeOK
  PROVE  /\ Len(pkts) \in Nat /\ DOMAIN pkts = 1..Len(pkts) /\ pwrite \in Nat
         /\ \A k \in DOMAIN pkts :
              /\ k \in Nat /\ pkts[k].start \in Nat
              /\ pkts[k].at \in {"copy", "wait", "push", "ready"}
              /\ Body[k] \in Nat /\ Body[k] <= MaxBody
              /\ End(k) \in Nat /\ End(k) > pkts[k].start
<1>1. pkts \in Seq(Packet) /\ Len(pkts) <= MaxRecords /\ pwrite \in Nat
  BY DEF TypeOK, Packet
<1>2. /\ Len(pkts) \in Nat /\ DOMAIN pkts = 1..Len(pkts)
      /\ \A k \in DOMAIN pkts : pkts[k] \in Packet
  BY <1>1, SMT
<1>3. \A k \in DOMAIN pkts : Body[k] \in 0..MaxBody
  BY <1>1, <1>2, XlogQueueAssumption, SMT
<1>4. MaxBody \in Nat
  BY RingBufAssumption
<1> QED
  BY <1>1, <1>2, <1>3, <1>4, SMT DEF Packet, End

\* Reserving adds one packet, at pwrite.
LEMMA ReserveIs ==
  ASSUME TypeOK, Reserve
  PROVE  /\ pkts' \in Seq(Packet) /\ Len(pkts') = Len(pkts) + 1
         /\ DOMAIN pkts' = 1..(Len(pkts) + 1)
         /\ \A k \in DOMAIN pkts : pkts'[k] = pkts[k]
         /\ pkts'[Len(pkts) + 1] = [start |-> pwrite, at |-> "copy"]
<1>1. /\ pkts \in Seq(Packet) /\ [start |-> pwrite, at |-> "copy"] \in Packet
      /\ pkts' = Append(pkts, [start |-> pwrite, at |-> "copy"])
  BY DEF TypeOK, Packet, Reserve
<1>2. DOMAIN pkts = 1..Len(pkts)
  BY PacketTypes
<1>3. /\ pkts' \in Seq(Packet) /\ Len(pkts') = Len(pkts) + 1
      /\ \A k \in 1..Len(pkts) : pkts'[k] = pkts[k]
      /\ pkts'[Len(pkts) + 1] = [start |-> pwrite, at |-> "copy"]
  BY <1>1, SMT
<1> QED
  BY <1>2, <1>3, SMT

\* A step of an inserter changes the stage of one packet only.
LEMMA InsertStepIs ==
  ASSUME TypeOK, NEW k \in DOMAIN pkts, NEW at \in {"wait", "push", "ready"},
         InsertStep(k, at)
  PROVE  /\ pkts' \in Seq(Packet) /\ Len(pkts') = Len(pkts) /\ DOMAIN pkts' = DOMAIN pkts
         /\ \A j \in DOMAIN pkts :
              /\ pkts'[j].start = pkts[j].start
              /\ pkts'[j].at = IF j = k THEN at ELSE pkts[j].at
<1> DEFINE e == [pkts[k] EXCEPT !.at = at]
<1>0. pkts \in Seq(Packet)
  BY DEF TypeOK, Packet
<1>1. pkts \in Seq(Packet) /\ k \in 1..Len(pkts) /\ pkts[k] \in Packet
      /\ DOMAIN pkts = 1..Len(pkts)
  BY <1>0, SMT
<1>2. e \in Packet /\ e.start = pkts[k].start /\ e.at = at
  BY <1>1 DEF Packet
<1>3. pkts' = [pkts EXCEPT ![k] = e]
  BY DEF InsertStep
<1> HIDE DEF e
<1>4. /\ pkts' \in Seq(Packet) /\ Len(pkts') = Len(pkts)
      /\ \A j \in 1..Len(pkts) : pkts'[j] = IF j = k THEN e ELSE pkts[j]
  BY <1>1, <1>2, <1>3, SMT
<1> QED
  BY <1>1, <1>2, <1>4, SMT

\* Who changes the packets, and pwrite.
LEMMA PacketSteps ==
  [Next]_vars =>
    \/ UNCHANGED <<pkts, pwrite>>
    \/ Reserve
    \/ \E k \in InFlight : ReleaseInsertLock(k) \/ SetPktLen(k) \/ SendQueuePush(k)
<1>1. ASSUME NEW k \in InFlight, XLogInsertRecord(k)
      PROVE  \/ UNCHANGED <<pkts, pwrite>>
             \/ ReleaseInsertLock(k) \/ SetPktLen(k) \/ SendQueuePush(k)
  BY <1>1 DEF XLogInsertRecord, WaitForSpace
<1>2. ASSUME XLogFlush \/ PrimarySave PROVE UNCHANGED <<pkts, pwrite>>
  BY <1>2 DEF XLogFlush, FlushRequest, XLogWrite, PrimarySave, SaverNewRef, SendQueuePop,
     SendQueueEmpty, KeepNewRef, KeepJump, KeepStep, KeepDone, ringVars
<1>3. ASSUME NEW w \in Senders, WalSndStart(w) \/ Sending(w) \/ WalSndExit(w)
      PROVE  UNCHANGED <<pkts, pwrite>>
  BY <1>3 DEF WalSndStart, WalSndExit, Sending, CheckPromote, CheckNewRef,
     CheckScan, CheckEnd, SendPromote, RawDataPop, SendEnd
<1> QED
  BY <1>1, <1>2, <1>3 DEF Next, Inserting, vars, ringVars

\* A packet is published by SendQueuePush, and stays so.
LEMMA PublishedSteps ==
  ASSUME TypeOK, [Next]_vars
  PROVE  \/ Published' = Published
         \/ \E k \in InFlight : SendQueuePush(k) /\ Published' = Published \cup {k}
<1>0. Published = {k \in DOMAIN pkts : pkts[k].at = "ready"}
  BY DEF Published, InFlight
<1>0p. Published' = {k \in DOMAIN pkts' : pkts'[k].at = "ready"}
  BY DEF Published, InFlight
<1>1. CASE UNCHANGED <<pkts, pwrite>>
  BY <1>0, <1>0p, <1>1
<1>2. CASE Reserve
  BY <1>0, <1>0p, <1>2, ReserveIs, PacketTypes, SMT
<1>3. ASSUME NEW k \in InFlight, ReleaseInsertLock(k) \/ SetPktLen(k)
      PROVE  Published' = Published
  <2>1. /\ k \in DOMAIN pkts /\ pkts[k].at # "ready"
        /\ InsertStep(k, "wait") \/ InsertStep(k, "push")
    BY <1>3 DEF InFlight, ReleaseInsertLock, SetPktLen
  <2>2. DOMAIN pkts' = DOMAIN pkts /\ \E at \in {"wait", "push"} :
          \A j \in DOMAIN pkts : pkts'[j].at = IF j = k THEN at ELSE pkts[j].at
    BY <2>1, InsertStepIs
  <2> QED
    BY <1>0, <1>0p, <2>1, <2>2
<1>4. ASSUME NEW k \in InFlight, SendQueuePush(k)
      PROVE  Published' = Published \cup {k}
  <2>1. k \in DOMAIN pkts /\ InsertStep(k, "ready")
    BY <1>4 DEF InFlight, SendQueuePush
  <2>2. DOMAIN pkts' = DOMAIN pkts /\
          \A j \in DOMAIN pkts : pkts'[j].at = IF j = k THEN "ready" ELSE pkts[j].at
    BY <2>1, InsertStepIs
  <2> QED
    BY <1>0, <1>0p, <2>1, <2>2
<1> QED
  BY <1>1, <1>2, <1>3, <1>4, PacketSteps

\* The layout only grows.
LEMMA Grows ==
  ASSUME TypeOK, [Next]_vars
  PROVE  /\ Len(pkts) <= Len(pkts') /\ Len(pkts') \in Nat
         /\ DOMAIN pkts \subseteq DOMAIN pkts' /\ pwrite <= pwrite'
         /\ \A k \in DOMAIN pkts : pkts'[k].start = pkts[k].start /\ End(k)' = End(k)
         /\ \A j \in 1..(Len(pkts) + 1) : StartOf(j)' = StartOf(j)
<1>0. /\ Len(pkts) \in Nat /\ DOMAIN pkts = 1..Len(pkts) /\ pwrite \in Nat
  BY PacketTypes
<1>1. CASE UNCHANGED <<pkts, pwrite>>
  BY <1>0, <1>1, SMT DEF End, StartOf
<1>2. CASE Reserve
  <2>1. /\ Len(pkts') = Len(pkts) + 1 /\ DOMAIN pkts' = 1..(Len(pkts) + 1)
        /\ \A k \in DOMAIN pkts : pkts'[k] = pkts[k]
        /\ pkts'[Len(pkts) + 1].start = pwrite
    BY <1>2, ReserveIs, SMT
  <2>2. pwrite' = pwrite + 1 + Body[Len(pkts) + 1] /\ Body[Len(pkts) + 1] \in Nat
    <3>1. Len(pkts) + 1 \in 1..MaxRecords
      BY <1>0, <1>2, XlogQueueAssumption, SMT DEF Reserve
    <3> QED
      BY <1>2, <3>1, XlogQueueAssumption, RingBufAssumption, SMT DEF Reserve
  <2> QED
    BY <1>0, <2>1, <2>2, SMT DEF End, StartOf
<1>3. ASSUME NEW k \in InFlight, ReleaseInsertLock(k) \/ SetPktLen(k) \/ SendQueuePush(k)
      PROVE  /\ Len(pkts') = Len(pkts) /\ DOMAIN pkts' = DOMAIN pkts /\ pwrite' = pwrite
             /\ \A j \in DOMAIN pkts : pkts'[j].start = pkts[j].start
  <2>1. /\ k \in DOMAIN pkts /\ pwrite' = pwrite
        /\ InsertStep(k, "wait") \/ InsertStep(k, "push") \/ InsertStep(k, "ready")
    BY <1>3 DEF InFlight, ReleaseInsertLock, SetPktLen, SendQueuePush, ringVars
  <2> QED
    BY <2>1, InsertStepIs
<1>4. CASE /\ Len(pkts') = Len(pkts) /\ DOMAIN pkts' = DOMAIN pkts /\ pwrite' = pwrite
           /\ \A j \in DOMAIN pkts : pkts'[j].start = pkts[j].start
  BY <1>0, <1>4, SMT DEF End, StartOf
<1> QED
  BY <1>1, <1>2, <1>3, <1>4, PacketSteps

-----------------------------------------------------------------------------
(* What steps do to the slots. *)

\* The least free slot is free.
LEMMA FreeSlotIs ==
  ASSUME TypeOK, Slots # Occupied(slot)
  PROVE  LeastFreeSlot \in Slots /\ slot[LeastFreeSlot].num = 0
<1>1. Slots \ Occupied(slot) \subseteq Nat /\ Slots \ Occupied(slot) # {}
  BY RingBufAssumption, SMT DEF Slots, Occupied
<1>2. LeastFreeSlot \in Slots \ Occupied(slot)
  BY <1>1, MinIs DEF LeastFreeSlot
<1> QED
  BY <1>2 DEF Occupied

\* References with different numbers do not share a slot.
Holds(r, i) == r.slot = i /\ RefMatch(r)

\* Slot i gets e: a new reference in a free slot, a slot that is freed, or a
\* reference whose owner moves it or changes its strength.
Uses(i) ==
  \/ Holds(sref, i) /\ SendQueuePop
  \/ Holds(kref, i) /\ (KeepJump \/ KeepStep)
  \/ \E w \in Senders : Holds(wref[w], i) /\ Sending(w)
SlotStep(i, e) ==
  /\ slot' = [slot EXCEPT ![i] = e]
  /\ \/ /\ slot[i].num = 0 /\ refNum' = refNum + 1
        /\ e.num = refNum + 1 /\ e.pread = pread
     \/ /\ e.num = 0
        /\ \/ ~slot[i].strong
           \/ \E w \in Senders : Holds(wref[w], i) /\ WalSndExit(w)
     \/ e.num = slot[i].num /\ e.pread >= slot[i].pread /\ Uses(i)

\* polar_ringbuf_new_ref takes a free slot and a number nobody has had.
LEMMA NewRefIs ==
  ASSUME TypeOK, NEW strong \in BOOLEAN, NewRef(strong)
  PROVE  /\ \E i \in Slots, e \in SlotRecord : SlotStep(i, e)
         /\ MadeRef.slot \in Slots /\ MadeRef.num = refNum + 1 /\ refNum' = refNum + 1
         /\ slot' = [slot EXCEPT ![MadeRef.slot] = [num |-> refNum + 1, strong |-> strong,
                                                   pread |-> pread]]
         /\ slot[MadeRef.slot].num = 0
<1> DEFINE e == [num |-> refNum + 1, strong |-> strong, pread |-> pread]
<1>1. LeastFreeSlot \in Slots /\ slot[LeastFreeSlot].num = 0
  BY FreeSlotIs DEF NewRef
<1>2. slot' = [slot EXCEPT ![LeastFreeSlot] = e] /\ refNum' = refNum + 1
  BY DEF NewRef
<1>3. e \in SlotRecord /\ e.num = refNum + 1 /\ e.pread = pread
  BY SMT DEF TypeOK, SlotRecord
<1>4. MadeRef.slot = LeastFreeSlot /\ MadeRef.num = refNum + 1
  BY DEF MadeRef
<1> HIDE DEF e
<1>5. SlotStep(LeastFreeSlot, e)
  BY <1>1, <1>2, <1>3 DEF SlotStep
<1> QED
  BY <1>1, <1>2, <1>3, <1>4, <1>5 DEF e

\* polar_ringbuf_update_ref past a packet: the owner's slot, forward.
LEMMA UpdateRefIs ==
  ASSUME TypeOK, NEW r, RefMatch(r), NEW body \in Nat, UpdateRef(r, body), Uses(r.slot)
  PROVE  /\ \E i \in Slots, e \in SlotRecord : SlotStep(i, e)
         /\ slot'[r.slot].pread = slot[r.slot].pread + 1 + body
         /\ slot'[r.slot].num = slot[r.slot].num /\ slot'[r.slot].strong = slot[r.slot].strong
<1> DEFINE i == r.slot
           e == [slot[i] EXCEPT !.pread = slot[i].pread + 1 + body]
<1>1. i \in Slots /\ slot \in [Slots -> SlotRecord]
  BY DEF RefMatch, TypeOK, SlotRecord
<1>2. slot[i] \in SlotRecord
  BY <1>1
<1>3. slot' = [slot EXCEPT ![i] = e]
  BY DEF UpdateRef
<1>4. /\ e \in SlotRecord /\ e.num = slot[i].num /\ e.strong = slot[i].strong
      /\ e.pread = slot[i].pread + 1 + body /\ e.pread >= slot[i].pread
  BY <1>2, SMT DEF SlotRecord
<1> HIDE DEF e
<1>5. SlotStep(i, e)
  BY <1>3, <1>4 DEF SlotStep
<1>6. slot'[i] = e
  BY <1>1, <1>3
<1> QED
  BY <1>1, <1>4, <1>5, <1>6

\* polar_ringbuf_set_ref_strong_property.
LEMMA SetStrongIs ==
  ASSUME TypeOK, NEW r, RefMatch(r), NEW strong \in BOOLEAN, SetStrong(r, strong), Uses(r.slot)
  PROVE  /\ \E i \in Slots, e \in SlotRecord : SlotStep(i, e)
         /\ slot'[r.slot].pread = slot[r.slot].pread
         /\ slot'[r.slot].num = slot[r.slot].num /\ slot'[r.slot].strong = strong
<1> DEFINE i == r.slot
           e == [slot[i] EXCEPT !.strong = strong]
<1>1. i \in Slots /\ slot \in [Slots -> SlotRecord]
  BY DEF RefMatch, TypeOK, SlotRecord
<1>2. slot[i] \in SlotRecord
  BY <1>1
<1>3. slot' = [slot EXCEPT ![i] = e]
  BY DEF SetStrong
<1>4. /\ e \in SlotRecord /\ e.num = slot[i].num /\ e.strong = strong
      /\ e.pread = slot[i].pread /\ e.pread >= slot[i].pread
  BY <1>2, SMT DEF SlotRecord
<1> HIDE DEF e
<1>5. SlotStep(i, e)
  BY <1>3, <1>4 DEF SlotStep
<1>6. slot'[i] = e
  BY <1>1, <1>3
<1> QED
  BY <1>1, <1>4, <1>5, <1>6

\* A slot that is freed by eviction, or by its owner.
LEMMA FreeSlotStep ==
  ASSUME TypeOK, NEW i \in Slots, slot' = [slot EXCEPT ![i] = FreeSlot],
         ~slot[i].strong \/ \E w \in Senders : Holds(wref[w], i) /\ WalSndExit(w)
  PROVE  \E k \in Slots, e \in SlotRecord : SlotStep(k, e)
<1>1. FreeSlot \in SlotRecord /\ FreeSlot.num = 0
  BY DEF FreeSlot, SlotRecord
<1>2. SlotStep(i, FreeSlot)
  BY <1>1 DEF SlotStep
<1> QED
  BY <1>1, <1>2

\* What is read from a cell has its type, and is a packet only where one was
\* written.
LEMMA HeaderTypes ==
  ASSUME TypeOK, NEW p \in Nat, NEW h \in Headers(CellAt(p))
  PROVE  /\ h.body \in Nat /\ h.pkt \in 0..MaxRecords
         /\ LooksReady(h) => Written(CellAt(p))
<1>1. p % Size \in 0..(Size - 1)
  BY DivMod
<1>2. cell \in [0..(Size - 1) -> CellRecord]
  BY DEF TypeOK, CellRecord
<1>3. CellAt(p) \in CellRecord
  BY <1>1, <1>2 DEF CellAt
<1>4. h.body \in 0..MaxBody /\ h.pkt \in 0..MaxRecords
  BY <1>3 DEF Headers, AnyHeader, CellRecord
<1>5. h.body \in Nat
  BY <1>4, RingBufAssumption, SMT
<1>6. LooksReady(h) => Written(CellAt(p))
  BY <1>3 DEF Headers, LooksReady, Written, CellRecord
<1> QED
  BY <1>4, <1>5, <1>6

\* A reference that matches its slot is at some position.
LEMMA RefPosition ==
  ASSUME TypeOK, NEW r, RefMatch(r)
  PROVE  Position(r) \in Nat /\ r.slot \in Slots /\ slot[r.slot] \in SlotRecord
<1>1. r.slot \in Slots /\ slot \in [Slots -> SlotRecord]
  BY DEF RefMatch, TypeOK, SlotRecord
<1>2. slot[r.slot] \in SlotRecord
  BY <1>1
<1> QED
  BY <1>1, <1>2 DEF Position, SlotRecord

\* Who changes the slots, and how.
LEMMA SlotSteps ==
  ASSUME TypeOK, StrongRefsStay, SaverAt, [Next]_vars
  PROVE  slot' = slot \/ \E i \in Slots, e \in SlotRecord : SlotStep(i, e)
<1> DEFINE Some == \E i \in Slots, e \in SlotRecord : SlotStep(i, e)
<1>1. CASE slot' = slot
  BY <1>1
<1>2. ASSUME NEW k \in InFlight, WaitForSpace(k) PROVE slot' = slot \/ Some
  <2>1. ASSUME NEW i \in Evictable, slot' = [slot EXCEPT ![i] = FreeSlot] PROVE Some
    <3>1. i \in Slots /\ ~slot[i].strong
      BY <2>1 DEF Evictable, Occupied
    <3> QED
      BY <2>1, <3>1, FreeSlotStep
  <2> HIDE DEF Some
  <2> QED
    BY <1>2, <2>1 DEF WaitForSpace, FreeUp
<1>3. ASSUME SaverNewRef \/ KeepNewRef PROVE Some
  BY <1>3, NewRefIs DEF SaverNewRef, KeepNewRef
<1>4. ASSUME SendQueuePop PROVE Some
  <2>1. RefMatch(sref) /\ Uses(sref.slot)
    BY <1>4 DEF SendQueuePop, StrongRefsStay, Uses, Holds
  <2>2. PICK h \in HeadersAt(sref) : UpdateRef(sref, h.body)
    BY <1>4 DEF SendQueuePop
  <2>3. h.body \in Nat
    BY <2>1, <2>2, RefPosition, HeaderTypes DEF HeadersAt
  <2> QED
    BY <2>1, <2>2, <2>3, UpdateRefIs
<1>5. ASSUME KeepStep PROVE Some
  <2>1. RefMatch(kref) /\ Uses(kref.slot)
    BY <1>5 DEF KeepStep, SaverAt, StrongRefsStay, Uses, Holds
  <2>2. PICK h \in HeadersAt(kref) : UpdateRef(kref, h.body)
    BY <1>5 DEF KeepStep
  <2>3. h.body \in Nat
    BY <2>1, <2>2, RefPosition, HeaderTypes DEF HeadersAt
  <2> QED
    BY <2>1, <2>2, <2>3, UpdateRefIs
<1>6. ASSUME KeepJump PROVE slot' = slot \/ Some
  <2>1. RefMatch(kref) /\ Uses(kref.slot)
    BY <1>6 DEF KeepJump, StrongRefsStay, Uses, Holds
  <2> DEFINE i == kref.slot
             e == [slot[i] EXCEPT !.pread = newPread]
  <2>2. ASSUME ~(newPread <= Position(kref)), slot' = [slot EXCEPT ![i] = e] PROVE Some
    <3>1. i \in Slots /\ slot[i] \in SlotRecord /\ newPread \in Nat
      BY <2>1, RefPosition DEF TypeOK
    <3>2. /\ e \in SlotRecord /\ e.num = slot[i].num /\ e.pread = newPread
          /\ e.pread >= slot[i].pread
      BY <2>2, <3>1, SMT DEF SlotRecord, Position
    <3> HIDE DEF e
    <3>3. SlotStep(i, e)
      BY <2>1, <2>2, <3>2 DEF SlotStep
    <3> QED
      BY <3>1, <3>2, <3>3
  <2> HIDE DEF Some
  <2> QED
    BY <1>6, <2>2 DEF KeepJump
<1>7. ASSUME NEW w \in Senders, WalSndStart(w) PROVE Some
  BY <1>7, NewRefIs DEF WalSndStart, SenderNewRef
<1>8. ASSUME NEW w \in Senders, WalSndExit(w) PROVE slot' = slot \/ Some
  <2>1. CASE RefMatch(wref[w])
    <3>1. slot' = [slot EXCEPT ![wref[w].slot] = FreeSlot] /\ wref[w].slot \in Slots
      BY <1>8, <2>1 DEF WalSndExit, ReleaseRef, RefMatch
    <3>2. Holds(wref[w], wref[w].slot)
      BY <2>1 DEF Holds
    <3> QED
      BY <1>8, <3>1, <3>2, FreeSlotStep
  <2>2. CASE ~RefMatch(wref[w])
    BY <1>8, <2>2 DEF WalSndExit, ReleaseRef
  <2> QED
    BY <2>1, <2>2
<1>9. ASSUME NEW w \in Senders, Sending(w) PROVE slot' = slot \/ Some
  <2>0. RefMatch(wref[w]) => Uses(wref[w].slot)
    BY <1>9 DEF Uses, Holds
  <2>s. wpc[w] \in {"scan", "raw", "more"} => RefMatch(wref[w])
    BY DEF StrongRefsStay
  <2>1. ASSUME RefMatch(wref[w]), SetStrong(wref[w], TRUE) \/ SetStrong(wref[w], FALSE) PROVE Some
    BY <2>0, <2>1, SetStrongIs
  <2>2. ASSUME RefMatch(wref[w]), NEW h \in HeadersAt(wref[w]), UpdateRef(wref[w], h.body)
        PROVE  Some
    <3>1. h.body \in Nat
      BY <2>2, RefPosition, HeaderTypes DEF HeadersAt
    <3> QED
      BY <2>0, <2>2, <3>1, UpdateRefIs
  <2> HIDE DEF Some
  <2>3. CASE CheckPromote(w)
    BY <2>1, <2>3 DEF CheckPromote
  <2>4. CASE CheckNewRef(w)
    BY <2>4, NewRefIs DEF CheckNewRef, SenderNewRef, Some
  <2>6. CASE CheckScan(w) \/ RawDataPop(w)
    BY <2>2, <2>6, <2>s DEF CheckScan, RawDataPop, ReadOn
  <2>7. CASE CheckEnd(w) \/ SendEnd(w)
    BY <2>1, <2>7, <2>s DEF CheckEnd, SendEnd
  <2>8. CASE SendPromote(w)
    BY <2>1, <2>8 DEF SendPromote
  <2> QED
    BY <1>9, <2>3, <2>4, <2>6, <2>7, <2>8 DEF Sending
<1>10. ASSUME Reserve \/ XLogFlush \/ SendQueueEmpty \/ KeepDone PROVE slot' = slot
  BY <1>10 DEF Reserve, XLogFlush, FlushRequest, XLogWrite, SendQueueEmpty, KeepDone, ringVars
<1>11. ASSUME NEW k \in InFlight, XLogInsertRecord(k) PROVE slot' = slot \/ Some
  BY <1>2, <1>11 DEF XLogInsertRecord, ReleaseInsertLock, SetPktLen, SendQueuePush, ringVars
<1>12. ASSUME UNCHANGED vars PROVE slot' = slot
  BY <1>12 DEF vars, ringVars
<1> HIDE DEF Some
<1>13. ASSUME PrimarySave PROVE slot' = slot \/ Some
  BY <1>3, <1>4, <1>5, <1>6, <1>10, <1>13 DEF PrimarySave
<1>14. slot' = slot \/ Some
  BY <1>7, <1>8, <1>9, <1>10, <1>11, <1>12, <1>13 DEF Next, Inserting
<1> QED
  BY <1>14 DEF Some

\* A slot that a reference matches belongs to no other reference.
LEMMA OneOwner ==
  ASSUME RefsHeld, NEW i \in Slots
  PROVE  /\ Holds(sref, i) => ~Holds(kref, i) /\ slot[i].num \in 1..refNum
         /\ Holds(kref, i) => slot[i].num \in 1..refNum
         /\ \A w \in Senders : Holds(wref[w], i) =>
              /\ ~Holds(sref, i) /\ ~Holds(kref, i) /\ slot[i].num \in 1..refNum
              /\ \A v \in Senders : Holds(wref[v], i) => v = w
<1>1. \A r : HeldRef(r) /\ Holds(r, i) => r # NoRef /\ r.num = slot[i].num /\ r.num \in 1..refNum
  <2> SUFFICES ASSUME NEW r, HeldRef(r), Holds(r, i)
               PROVE  r # NoRef /\ r.num = slot[i].num /\ r.num \in 1..refNum
    OBVIOUS
  <2>1. r # NoRef
    BY RingBufAssumption, SMT DEF Holds, NoRef, Slots
  <2> QED
    BY <2>1 DEF HeldRef, Holds, RefMatch
<1>2. HeldRef(sref) /\ HeldRef(kref) /\ \A w \in Senders : HeldRef(wref[w])
  BY DEF RefsHeld
<1>3. Holds(sref, i) => ~Holds(kref, i) /\ slot[i].num \in 1..refNum
  BY <1>1, <1>2 DEF RefsHeld
<1>4. Holds(kref, i) => slot[i].num \in 1..refNum
  BY <1>1, <1>2
<1>5. ASSUME NEW w \in Senders, Holds(wref[w], i)
      PROVE  /\ ~Holds(sref, i) /\ ~Holds(kref, i) /\ slot[i].num \in 1..refNum
             /\ \A v \in Senders : Holds(wref[v], i) => v = w
  <2>1. /\ wref[w] # NoRef /\ wref[w].num = slot[i].num /\ slot[i].num \in 1..refNum
    BY <1>1, <1>2, <1>5
  <2>2. /\ wref[w].num # sref.num /\ wref[w].num # kref.num
        /\ \A v \in Senders \ {w} : wref[w].num # wref[v].num
    BY <2>1 DEF RefsHeld
  <2>3. ~Holds(sref, i) /\ ~Holds(kref, i)
    BY <1>1, <1>2, <2>1, <2>2
  <2>4. ASSUME NEW v \in Senders, Holds(wref[v], i) PROVE v = w
    BY <1>1, <1>2, <2>1, <2>2, <2>4
  <2> QED
    BY <2>1, <2>3, <2>4
<1> QED
  BY <1>3, <1>4, <1>5

\* Who changes the references of the saver, and what they are.
LEMMA SaverSteps ==
  [Next]_vars =>
    /\ SendQueuePop \/ saved' = saved
    /\ SaverNewRef \/ sref' = sref
    /\ KeepNewRef \/ kref' = kref
    /\ KeepJump \/ (spc' = "step" => spc = "step")
    /\ SaverNewRef \/ KeepNewRef \/ refNum' = refNum
       \/ \E w \in Senders : WalSndStart(w) \/ CheckNewRef(w)
<1>1. ASSUME Reserve \/ XLogFlush PROVE UNCHANGED <<saved, sref, spc, kref, refNum>>
  BY <1>1 DEF Reserve, XLogFlush, FlushRequest, XLogWrite, saverVars, keepVars, ringVars
<1>2. ASSUME NEW k \in InFlight, XLogInsertRecord(k)
      PROVE  UNCHANGED <<saved, sref, spc, kref, refNum>>
  BY <1>2 DEF XLogInsertRecord, ReleaseInsertLock, WaitForSpace, SetPktLen, SendQueuePush,
     saverVars, keepVars, ringVars
<1>3. ASSUME PrimarySave
      PROVE  /\ SendQueuePop \/ saved' = saved
             /\ SaverNewRef \/ sref' = sref
             /\ KeepNewRef \/ kref' = kref
             /\ KeepJump \/ (spc' = "step" => spc = "step")
             /\ SaverNewRef \/ KeepNewRef \/ refNum' = refNum
  BY <1>3 DEF PrimarySave, SaverNewRef, SendQueuePop, SendQueueEmpty, KeepNewRef, KeepJump,
     KeepStep, KeepDone, saverVars, keepVars, ringVars
<1>4. ASSUME NEW w \in Senders, WalSndStart(w) \/ Sending(w) \/ WalSndExit(w)
      PROVE  /\ UNCHANGED <<saved, sref, spc, kref>>
             /\ WalSndStart(w) \/ CheckNewRef(w) \/ refNum' = refNum
  BY <1>4 DEF WalSndStart, WalSndExit, Sending, CheckPromote, CheckNewRef,
     CheckScan, CheckEnd, SendPromote, RawDataPop, SendEnd, saverVars, keepVars
<1>5. CASE UNCHANGED vars
  BY <1>5 DEF vars, saverVars, keepVars, ringVars
<1> QED
  BY <1>1, <1>2, <1>3, <1>4, <1>5 DEF Next, Inserting

\* Nobody but the saver moves its reference, and it is not evicted.
LEMMA SrefStays ==
  ASSUME TypeOK, RefsHeld, StrongRefsStay, SaverAt, [Next]_vars, sref # NoRef
  PROVE  /\ sref' = sref
         /\ SendQueuePop \/ (saved' = saved /\ slot'[sref.slot] = slot[sref.slot])
<1>1. sref' = sref /\ (SendQueuePop \/ saved' = saved)
  BY SaverSteps DEF SaverNewRef
<1>2. RefMatch(sref) /\ slot[sref.slot].strong /\ sref.slot \in Slots
  BY DEF StrongRefsStay, RefMatch
<1>3. ASSUME ~SendQueuePop PROVE slot'[sref.slot] = slot[sref.slot]
  <2>1. Holds(sref, sref.slot) /\ slot \in [Slots -> SlotRecord]
    BY <1>2 DEF Holds, TypeOK, SlotRecord
  <2>2. /\ ~Holds(kref, sref.slot) /\ slot[sref.slot].num \in 1..refNum
        /\ \A w \in Senders : ~Holds(wref[w], sref.slot)
    BY <1>2, <2>1, OneOwner
  <2>3. slot[sref.slot].num # 0
    BY <2>2, SMT
  <2>4. ASSUME NEW i \in Slots, NEW e \in SlotRecord, SlotStep(i, e)
        PROVE  slot'[sref.slot] = slot[sref.slot]
    <3>1. i # sref.slot
      BY <1>2, <1>3, <2>2, <2>3, <2>4 DEF SlotStep, Uses
    <3>2. slot' = [slot EXCEPT ![i] = e]
      BY <2>4 DEF SlotStep
    <3> QED
      BY <1>2, <2>1, <3>1, <3>2
  <2> QED
    BY <2>4, SlotSteps
<1> QED
  BY <1>1, <1>3

\* The same for the keep reference.
LEMMA KrefStays ==
  ASSUME TypeOK, RefsHeld, StrongRefsStay, SaverAt, [Next]_vars, kref # NoRef
  PROVE  /\ kref' = kref
         /\ KeepJump \/ KeepStep \/ slot'[kref.slot] = slot[kref.slot]
<1>1. kref' = kref
  BY SaverSteps DEF KeepNewRef
<1>2. RefMatch(kref) /\ slot[kref.slot].strong /\ kref.slot \in Slots
  BY DEF StrongRefsStay, RefMatch
<1>3. ASSUME ~KeepJump, ~KeepStep PROVE slot'[kref.slot] = slot[kref.slot]
  <2>1. Holds(kref, kref.slot) /\ slot \in [Slots -> SlotRecord]
    BY <1>2 DEF Holds, TypeOK, SlotRecord
  <2>2. /\ ~Holds(sref, kref.slot) /\ slot[kref.slot].num \in 1..refNum
        /\ \A w \in Senders : ~Holds(wref[w], kref.slot)
    BY <1>2, <2>1, OneOwner
  <2>3. slot[kref.slot].num # 0
    BY <2>2, SMT
  <2>4. ASSUME NEW i \in Slots, NEW e \in SlotRecord, SlotStep(i, e)
        PROVE  slot'[kref.slot] = slot[kref.slot]
    <3>1. i # kref.slot
      BY <1>2, <1>3, <2>2, <2>3, <2>4 DEF SlotStep, Uses
    <3>2. slot' = [slot EXCEPT ![i] = e]
      BY <2>4 DEF SlotStep
    <3> QED
      BY <1>2, <2>1, <3>1, <3>2
  <2> QED
    BY <2>4, SlotSteps
<1> QED
  BY <1>1, <1>3

\* What is left to a walsender while others step: its reference, unless it
\* was weak and is evicted, or was gone before.
SenderStep(w) == WalSndStart(w) \/ Sending(w) \/ WalSndExit(w)
SenderSame(w) ==
  /\ wpc'[w] = wpc[w] /\ wref'[w] = wref[w] /\ sent'[w] = sent[w]
  /\ checked'[w] = checked[w] /\ (w \in astray' <=> w \in astray)

\* A walsender is changed by its own steps only.
LEMMA SenderStays ==
  ASSUME TypeOK, [Next]_vars, NEW w \in Senders, ~SenderStep(w)
  PROVE  SenderSame(w)
<1>1. CASE UNCHANGED senderVars
  BY <1>1 DEF senderVars, SenderSame
<1>2. ASSUME NEW v \in Senders, SenderStep(v) PROVE SenderSame(w)
  <2>1. v # w
    BY <1>2
  <2>2. /\ wpc \in [Senders -> {"off", "check", "scan", "send", "raw", "more"}]
        /\ wref \in [Senders -> Refs] /\ sent \in [Senders -> 0..MaxRecords]
        /\ checked \in [Senders -> BOOLEAN]
    BY DEF TypeOK
  <2>3. /\ wpc' = wpc \/ \E x : wpc' = [wpc EXCEPT ![v] = x]
        /\ wref' = wref \/ \E x : wref' = [wref EXCEPT ![v] = x]
        /\ sent' = sent \/ \E x : sent' = [sent EXCEPT ![v] = x]
        /\ checked' = checked \/ \E x : checked' = [checked EXCEPT ![v] = x]
        /\ astray' = astray \/ astray' = astray \ {v} \/ astray' = astray \cup {v}
    BY <1>2 DEF SenderStep, WalSndStart, WalSndExit, Sending, CheckPromote, CheckNewRef,
       CheckScan, CheckEnd, SendPromote, RawDataPop, SendEnd, WGoto, SendFromFile, SenderNewRef
  <2>4. /\ wpc'[w] = wpc[w] /\ wref'[w] = wref[w]
    BY <2>1, <2>2, <2>3
  <2>5. sent'[w] = sent[w] /\ checked'[w] = checked[w]
    BY <2>1, <2>2, <2>3
  <2>6. w \in astray' <=> w \in astray
    BY <2>1, <2>3
  <2> QED
    BY <2>4, <2>5, <2>6 DEF SenderSame
<1>3. UNCHANGED senderVars \/ \E v \in Senders : SenderStep(v)
  <2>1. ASSUME Reserve \/ XLogFlush \/ PrimarySave PROVE UNCHANGED senderVars
    BY <2>1 DEF Reserve, XLogFlush, FlushRequest, XLogWrite, PrimarySave, SaverNewRef,
       SendQueuePop, SendQueueEmpty, KeepNewRef, KeepJump, KeepStep, KeepDone
  <2>2. ASSUME NEW k \in InFlight, XLogInsertRecord(k) PROVE UNCHANGED senderVars
    BY <2>2 DEF XLogInsertRecord, ReleaseInsertLock, WaitForSpace, SetPktLen, SendQueuePush
  <2> QED
    BY <2>1, <2>2 DEF Next, Inserting, vars, SenderStep
<1> QED
  BY <1>1, <1>2, <1>3

\* Others neither move nor revive the reference of a walsender, and cannot
\* evict it while it is strong.
LEMMA WrefStays ==
  ASSUME TypeOK, RefsHeld, StrongRefsStay, SaverAt, [Next]_vars, NEW w \in Senders, ~SenderStep(w)
  PROVE  /\ RefMatch(wref[w])' => RefMatch(wref[w]) /\ slot'[wref[w].slot] = slot[wref[w].slot]
         /\ RefMatch(wref[w]) /\ slot[wref[w].slot].strong =>
              RefMatch(wref[w])' /\ slot'[wref[w].slot] = slot[wref[w].slot]
<1>0. SenderSame(w) /\ slot \in [Slots -> SlotRecord] /\ refNum \in Nat /\ HeldRef(wref[w])
  BY SenderStays DEF TypeOK, SlotRecord, RefsHeld
<1>1. CASE slot' = slot
  BY <1>0, <1>1 DEF SenderSame, RefMatch
<1>2. ASSUME NEW i \in Slots, NEW e \in SlotRecord, SlotStep(i, e)
      PROVE  /\ RefMatch(wref[w])' => RefMatch(wref[w]) /\ slot'[wref[w].slot] = slot[wref[w].slot]
             /\ RefMatch(wref[w]) /\ slot[wref[w].slot].strong =>
                  RefMatch(wref[w])' /\ slot'[wref[w].slot] = slot[wref[w].slot]
  <2>0. slot' = [slot EXCEPT ![i] = e]
    BY <1>2 DEF SlotStep
  <2>1. CASE wref[w].slot # i
    BY <1>0, <2>0, <2>1 DEF SenderSame, RefMatch
  <2>2. CASE wref[w].slot = i
    <3>1. wref[w].num \in 1..refNum
      <4>1. wref[w] # NoRef
        BY <2>2, RingBufAssumption, SMT DEF NoRef, Slots
      <4> QED
        BY <1>0, <4>1 DEF HeldRef
    <3>2. slot'[i] = e /\ wref[w].num # 0 /\ wref[w].num # refNum + 1
      BY <1>0, <2>0, <3>1, SMT
    <3>3. RefMatch(wref[w])' <=> e.num = wref[w].num
      BY <1>0, <2>2, <3>2 DEF SenderSame, RefMatch
    <3>4. RefMatch(wref[w]) <=> slot[i].num = wref[w].num
      BY <2>2 DEF RefMatch
    <3>5. ASSUME RefMatch(wref[w]) PROVE ~Uses(i) /\ \A v \in Senders : ~(Holds(wref[v], i) /\ WalSndExit(v))
      <4>1. Holds(wref[w], i)
        BY <2>2, <3>5 DEF Holds
      <4>2. /\ ~Holds(sref, i) /\ ~Holds(kref, i)
            /\ \A v \in Senders : Holds(wref[v], i) => v = w
        BY <4>1, OneOwner
      <4> QED
        BY <4>2 DEF Uses, SenderStep
    <3>6. RefMatch(wref[w])' => FALSE
      BY <1>2, <3>2, <3>3, <3>4, <3>5 DEF SlotStep
    <3>7. RefMatch(wref[w]) /\ slot[i].strong => FALSE
      BY <1>2, <3>2, <3>4, <3>5 DEF SlotStep
    <3> QED
      BY <2>2, <3>6, <3>7
  <2> QED
    BY <2>1, <2>2
<1> QED
  BY <1>1, <1>2, SlotSteps

-----------------------------------------------------------------------------
(* What steps do to pread and to the cells. *)

\* polar_ringbuf_update_pread never gives up a lap at once, clears what it
\* gives up, and touches nothing else.
LEMMA UpdatePreadIs ==
  ASSUME TypeOK, NEW sl \in [Slots -> SlotRecord],
         \A i \in Slots : sl[i].num # 0 => pread <= sl[i].pread,
         \/ \A i \in Slots : sl[i].num = 0
         \/ \E i \in Slots : sl[i].num # 0 /\ sl[i].pread <= pread + Size - 1,
         UpdatePread(sl)
  PROVE  /\ pread' \in Nat /\ pread <= pread' /\ pread' <= pread + Size - 1
         /\ cell' \in [0..(Size - 1) -> CellRecord]
         /\ \A i \in Slots : sl[i].num # 0 => pread' <= sl[i].pread
         /\ \A p \in pread'..(pread + Size - 1) : cell'[p % Size] = cell[p % Size]
         /\ \A p \in (pread + Size)..(pread' + Size - 1) : cell'[p % Size] = FreeCell
<1>0. /\ pread \in Nat /\ Size \in Nat /\ Size >= 1
      /\ cell \in [0..(Size - 1) -> CellRecord]
  <2>1. Size \in Nat /\ Size >= 1 BY RingBufAssumption, SMT
  <2>2. pread \in Nat /\ cell \in [0..(Size - 1) -> CellRecord] BY DEF TypeOK, CellRecord
  <2> QED BY <2>1, <2>2
<1>1. CASE ~PreadMoves(sl)
  BY <1>0, <1>1, SMT DEF UpdatePread
<1>2. CASE PreadMoves(sl)
  <2> DEFINE L == LeastPread(sl)
             S == {sl[i].pread : i \in Occupied(sl)}
  <2>1. Occupied(sl) # {} /\ L # pread
    BY <1>2 DEF PreadMoves, LeastPread
  <2>2. S \subseteq Nat /\ S # {}
    BY <2>1 DEF Occupied, SlotRecord
  <2>3. L = Min(S)
    BY <2>1 DEF LeastPread
  <2>4. L \in S /\ \A y \in S : L <= y
    BY <2>2, <2>3, MinIs
  <2>5. \A i \in Slots : sl[i].num # 0 => L <= sl[i].pread
    BY <2>4 DEF Occupied
  <2>6. L \in Nat /\ pread < L
    BY <1>0, <2>1, <2>2, <2>4, SMT DEF Occupied
  <2>7. L <= pread + Size - 1
    <3>1. PICK i \in Slots : sl[i].num # 0 /\ sl[i].pread <= pread + Size - 1
      BY <2>1 DEF Occupied
    <3>2. sl[i].pread \in Nat
      BY DEF SlotRecord
    <3> QED
      BY <1>0, <2>5, <2>6, <3>1, <3>2, SMT
  <2> HIDE DEF S, L
  <2>8. /\ pread' = L
        /\ cell' = [i \in 0..(Size - 1) |->
                      IF i \in Freed(pread % Size, L % Size) THEN FreeCell ELSE cell[i]]
    BY <1>2 DEF UpdatePread, L
  <2>9. FreeCell \in CellRecord
    BY RingBufAssumption, XlogQueueAssumption, SMT DEF FreeCell, CellRecord
  <2>10. cell' \in [0..(Size - 1) -> CellRecord]
    BY <1>0, <2>8, <2>9
  <2>11. ASSUME NEW p \in Nat, pread <= p, p < pread + Size
         PROVE  cell'[p % Size] = IF p < L THEN FreeCell ELSE cell[p % Size]
    <3>1. p % Size \in 0..(Size - 1)
      BY DivMod
    <3>0. L < pread + Size
      BY <1>0, <2>6, <2>7, SMT
    <3>2. p % Size \in Freed(pread % Size, L % Size) <=> p < L
      BY <1>0, <2>6, <2>11, <3>0, FreedIs
    <3> QED
      BY <2>8, <3>1, <3>2
  <2>12. ASSUME NEW p \in L..(pread + Size - 1) PROVE cell'[p % Size] = cell[p % Size]
    <3>1. p \in Nat /\ pread <= p /\ p < pread + Size /\ ~(p < L)
      BY <1>0, <2>6, SMT
    <3> QED
      BY <2>11, <3>1
  <2>13. ASSUME NEW p \in (pread + Size)..(L + Size - 1) PROVE cell'[p % Size] = FreeCell
    <3> DEFINE q == p - Size
    <3>1. q \in Nat /\ pread <= q /\ q < pread + Size /\ q < L /\ q + Size = p
      BY <1>0, <2>6, <2>7, SMT
    <3> HIDE DEF q
    <3>2. p % Size = q % Size
      BY <3>1, Lap
    <3>3. cell'[q % Size] = FreeCell
      BY <2>11, <3>1
    <3> QED
      BY <3>2, <3>3
  <2>14. pread' = L /\ pread <= L
    BY <1>0, <2>6, <2>8, SMT
  <2> QED
    BY <2>5, <2>6, <2>7, <2>10, <2>12, <2>13, <2>14
<1> QED
  BY <1>1, <1>2

\* Who changes pread and the cells.
LEMMA RingSteps ==
  ASSUME TypeOK, RefsHeld, StrongRefsStay, [Next]_vars
  PROVE  \/ UNCHANGED <<pread, cell>>
         \/ /\ UpdatePread(slot') /\ UNCHANGED <<pkts, pwrite, saved, sref>>
            /\ \A i \in Slots : slot'[i] = slot[i] \/ slot'[i].num = 0
            /\ sref # NoRef => slot'[sref.slot] = slot[sref.slot]
         \/ \E k \in InFlight : SetPktLen(k) \/ SendQueuePush(k)
<1> DEFINE Frees ==
             /\ UpdatePread(slot') /\ UNCHANGED <<pkts, pwrite, saved, sref>>
             /\ \A i \in Slots : slot'[i] = slot[i] \/ slot'[i].num = 0
             /\ sref # NoRef => slot'[sref.slot] = slot[sref.slot]
<1>1. ASSUME NEW k \in InFlight, XLogInsertRecord(k)
      PROVE  UNCHANGED <<pread, cell>> \/ Frees \/ SetPktLen(k) \/ SendQueuePush(k)
  <2>1. CASE ReleaseInsertLock(k)
    BY <2>1 DEF ReleaseInsertLock, ringVars
  <2>2. CASE WaitForSpace(k)
    <3>1. UNCHANGED <<pkts, pwrite, saved, sref>>
      BY <2>2 DEF WaitForSpace, saverVars
    <3>2. UNCHANGED <<pread, cell>> \/ (UpdatePread(slot) /\ slot' = slot)
      BY <2>2 DEF WaitForSpace, FreeUp
    <3> QED
      BY <3>1, <3>2
  <2> QED
    BY <1>1, <2>1, <2>2 DEF XLogInsertRecord
<1>2. ASSUME KeepDone PROVE UNCHANGED <<pread, cell>> \/ Frees
  <2>1. UNCHANGED <<pkts, pwrite, saved, sref>>
    BY <1>2 DEF KeepDone
  <2>2. UNCHANGED <<pread, cell>> \/ (UpdatePread(slot) /\ slot' = slot)
    BY <1>2 DEF KeepDone
  <2> QED
    BY <2>1, <2>2
<1>3. ASSUME NEW w \in Senders, WalSndExit(w) PROVE UNCHANGED <<pread, cell>> \/ Frees
  <2>0. UNCHANGED <<pkts, pwrite, saved, sref>>
    BY <1>3 DEF WalSndExit, saverVars
  <2>1. CASE RefMatch(wref[w])
    <3>1. /\ UpdatePread(slot') /\ slot' = [slot EXCEPT ![wref[w].slot] = FreeSlot]
          /\ wref[w].slot \in Slots
      BY <1>3, <2>1 DEF WalSndExit, ReleaseRef, RefMatch
    <3>2. slot \in [Slots -> SlotRecord] /\ FreeSlot.num = 0
      BY DEF TypeOK, SlotRecord, FreeSlot
    <3>3. sref # NoRef => sref.slot # wref[w].slot /\ sref.slot \in Slots
      <4>1. ASSUME sref # NoRef PROVE Holds(sref, sref.slot) /\ sref.slot \in Slots
        BY <4>1 DEF StrongRefsStay, Holds, RefMatch
      <4>2. Holds(wref[w], wref[w].slot)
        BY <2>1 DEF Holds
      <4> QED
        BY <4>1, <4>2, <3>1, OneOwner
    <3> QED
      BY <2>0, <3>1, <3>2, <3>3
  <2>2. CASE ~RefMatch(wref[w])
    BY <1>3, <2>2 DEF WalSndExit, ReleaseRef
  <2> QED
    BY <2>1, <2>2
<1>4. ASSUME Reserve \/ XLogFlush PROVE UNCHANGED <<pread, cell>>
  BY <1>4 DEF Reserve, XLogFlush, FlushRequest, XLogWrite, ringVars
<1>5. ASSUME PrimarySave, ~KeepDone PROVE UNCHANGED <<pread, cell>>
  BY <1>5 DEF PrimarySave, SaverNewRef, SendQueuePop, SendQueueEmpty, KeepNewRef, KeepJump,
     KeepStep, ringVars
<1>6. ASSUME NEW w \in Senders, WalSndStart(w) \/ Sending(w) PROVE UNCHANGED <<pread, cell>>
  BY <1>6 DEF WalSndStart, Sending, CheckPromote, CheckNewRef, CheckScan,
     CheckEnd, SendPromote, RawDataPop, SendEnd
<1>7. ASSUME UNCHANGED vars PROVE UNCHANGED <<pread, cell>>
  BY <1>7 DEF vars, ringVars
<1> HIDE DEF Frees
<1>8. \/ UNCHANGED <<pread, cell>> \/ Frees
      \/ \E k \in InFlight : SetPktLen(k) \/ SendQueuePush(k)
  BY <1>1, <1>2, <1>3, <1>4, <1>5, <1>6, <1>7 DEF Next, Inserting
<1> QED
  BY <1>8 DEF Frees

\* The saver is at most a lap ahead of pread, at the start of a packet.
LEMMA SaverInWindow ==
  ASSUME TypeOK, Layout, Space, RefsHeld, StrongRefsStay, SlotsAhead, SaverAt, sref # NoRef
  PROVE  /\ saved + 1 \in 1..(Len(pkts) + 1) /\ sref.slot \in Slots
         /\ slot[sref.slot].num # 0 /\ Position(sref) \in Nat
         /\ pread <= Position(sref) /\ Position(sref) <= pread + Size - 1
<1>0. /\ pread \in Nat /\ Size \in Nat /\ Size >= 1 /\ saved \in Nat
      /\ Len(pkts) \in Nat /\ DOMAIN pkts = 1..Len(pkts)
  BY RingBufAssumption, PacketTypes, SMT DEF TypeOK
<1>1. RefMatch(sref) /\ sref.num \in 1..refNum /\ refNum \in Nat
  BY DEF StrongRefsStay, RefsHeld, HeldRef, TypeOK
<1>2. sref.slot \in Slots /\ slot[sref.slot].num # 0 /\ Position(sref) \in Nat
  BY <1>1, RefPosition, SMT DEF RefMatch
<1>3. pread <= Position(sref)
  BY <1>2 DEF SlotsAhead, Position
<1>4. CASE saved = 0
  BY <1>0, <1>2, <1>3, <1>4, SMT DEF SaverAt, Layout
<1>5. CASE saved # 0
  <2>1. saved \in Published
    BY <1>0, <1>5, SMT DEF SaverAt
  <2>2. saved \in DOMAIN pkts /\ pkts[saved].at = "ready"
    BY <2>1 DEF Published, InFlight
  <2>3. End(saved) <= pread + Size - 1 /\ End(saved) = StartOf(saved + 1)
    BY <2>2 DEF Space, Layout
  <2>4. Position(sref) = StartOf(saved + 1)
    BY DEF SaverAt
  <2> QED
    BY <1>0, <1>2, <1>3, <2>2, <2>3, <2>4, SMT
<1> QED
  BY <1>4, <1>5

\* The region that pread passes is cleared.
Clears ==
  /\ UNCHANGED <<pkts, pwrite, saved, sref>> /\ pread' <= pread + Size - 1
  /\ cell' \in [0..(Size - 1) -> CellRecord]
  /\ \A i \in Slots : slot'[i].num # 0 => pread' <= slot'[i].pread
  /\ \A p \in pread'..(pread + Size - 1) : cell'[p % Size] = cell[p % Size]
  /\ \A p \in (pread + Size)..(pread' + Size - 1) : cell'[p % Size] = FreeCell

\* pread moves only when its new value frees what lies behind it, and the
\* other writers of cells are the inserters.
LEMMA PreadSteps ==
  ASSUME TypeOK, Layout, Space, RefsHeld, StrongRefsStay, SlotsAhead, Unborn, SaverAt, [Next]_vars
  PROVE  /\ pread' \in Nat /\ pread <= pread'
         /\ \/ UNCHANGED <<pread, cell>>
            \/ Clears
            \/ \E k \in InFlight : UNCHANGED pread /\ (SetPktLen(k) \/ SendQueuePush(k))
<1>0. pread \in Nat /\ slot \in [Slots -> SlotRecord]
  BY DEF TypeOK, SlotRecord
<1>1. CASE UNCHANGED <<pread, cell>>
  BY <1>0, <1>1, SMT
<1>2. ASSUME NEW k \in InFlight, SetPktLen(k) \/ SendQueuePush(k) PROVE UNCHANGED pread
  BY <1>2 DEF SetPktLen, SendQueuePush
<1>3. ASSUME UpdatePread(slot'), UNCHANGED <<pkts, pwrite, saved, sref>>,
             \A i \in Slots : slot'[i] = slot[i] \/ slot'[i].num = 0,
             sref # NoRef => slot'[sref.slot] = slot[sref.slot]
      PROVE  pread' \in Nat /\ pread <= pread' /\ Clears
  <2>1. slot' \in [Slots -> SlotRecord]
    <3>1. ASSUME NEW i \in Slots, NEW e \in SlotRecord, SlotStep(i, e)
          PROVE  slot' \in [Slots -> SlotRecord]
      <4>1. slot' = [slot EXCEPT ![i] = e]
        BY <3>1 DEF SlotStep
      <4> QED
        BY <1>0, <4>1
    <3> QED
      BY <1>0, <3>1, SlotSteps
  <2>2. \A i \in Slots : slot'[i].num # 0 => pread <= slot'[i].pread
    BY <1>3 DEF SlotsAhead
  <2>3. \/ \A i \in Slots : slot'[i].num = 0
        \/ \E i \in Slots : slot'[i].num # 0 /\ slot'[i].pread <= pread + Size - 1
    <3>1. CASE sref = NoRef
      BY <1>3, <3>1 DEF Unborn
    <3>2. CASE sref # NoRef
      BY <1>3, <3>2, SaverInWindow DEF Position
    <3> QED
      BY <3>1, <3>2
  <2>4. /\ pread' \in Nat /\ pread <= pread' /\ pread' <= pread + Size - 1
        /\ cell' \in [0..(Size - 1) -> CellRecord]
        /\ \A i \in Slots : slot'[i].num # 0 => pread' <= slot'[i].pread
        /\ \A p \in pread'..(pread + Size - 1) : cell'[p % Size] = cell[p % Size]
        /\ \A p \in (pread + Size)..(pread' + Size - 1) : cell'[p % Size] = FreeCell
    BY <1>3, <2>1, <2>2, <2>3, UpdatePreadIs
  <2> QED
    BY <1>3, <2>4 DEF Clears
<1> QED
  BY <1>0, <1>1, <1>2, <1>3, RingSteps, SMT

-----------------------------------------------------------------------------
(* Every conjunct of the invariant is kept: the layout and the references. *)

\* The packets keep their types.
LEMMA PacketsTyped ==
  ASSUME TypeOK, [Next]_vars
  PROVE  pkts' \in Seq(Packet) /\ Len(pkts') <= MaxRecords /\ pwrite' \in Nat
<1>0. /\ pkts \in Seq(Packet) /\ Len(pkts) <= MaxRecords /\ pwrite \in Nat
      /\ Len(pkts) \in Nat /\ MaxRecords \in Nat
  BY XlogQueueAssumption, PacketTypes DEF TypeOK, Packet
<1>1. CASE UNCHANGED <<pkts, pwrite>>
  BY <1>0, <1>1
<1>2. CASE Reserve
  <2>1. Len(pkts) + 1 \in 1..MaxRecords /\ pwrite' = pwrite + 1 + Body[Len(pkts) + 1]
    BY <1>0, <1>2, SMT DEF Reserve
  <2>2. Body[Len(pkts) + 1] \in Nat
    BY <2>1, XlogQueueAssumption, RingBufAssumption, SMT
  <2>3. pkts' \in Seq(Packet) /\ Len(pkts') = Len(pkts) + 1
    BY <1>2, ReserveIs
  <2> QED
    BY <1>0, <2>1, <2>2, <2>3, SMT
<1>3. ASSUME NEW k \in InFlight, ReleaseInsertLock(k) \/ SetPktLen(k) \/ SendQueuePush(k)
      PROVE  pkts' \in Seq(Packet) /\ Len(pkts') <= MaxRecords /\ pwrite' \in Nat
  <2>1. /\ k \in DOMAIN pkts /\ pwrite' = pwrite
        /\ InsertStep(k, "wait") \/ InsertStep(k, "push") \/ InsertStep(k, "ready")
    BY <1>3 DEF InFlight, ReleaseInsertLock, SetPktLen, SendQueuePush, ringVars
  <2>2. pkts' \in Seq(Packet) /\ Len(pkts') = Len(pkts)
    BY <2>1, InsertStepIs
  <2> QED
    BY <1>0, <2>1, <2>2
<1> QED
  BY <1>1, <1>2, <1>3, PacketSteps

\* Packets stay one after the other.
LEMMA LayoutStep ==
  ASSUME TypeOK, Layout, [Next]_vars
  PROVE  Layout'
<1>0. /\ Len(pkts) \in Nat /\ DOMAIN pkts = 1..Len(pkts) /\ pwrite \in Nat /\ pwrite' \in Nat
      /\ \A k \in DOMAIN pkts : pkts[k].start \in Nat /\ End(k) \in Nat
  BY PacketTypes, PacketsTyped
<1>g. /\ pwrite <= pwrite'
      /\ \A k \in DOMAIN pkts : pkts'[k].start = pkts[k].start /\ End(k)' = End(k)
      /\ \A j \in 1..(Len(pkts) + 1) : StartOf(j)' = StartOf(j)
  BY Grows
<1>1. StartOf(1)' = 0
  BY <1>0, <1>g, SMT DEF Layout
<1>2. ASSUME NEW k \in DOMAIN pkts PROVE End(k)' = StartOf(k + 1)' /\ End(k)' <= pwrite'
  <2>1. k + 1 \in 1..(Len(pkts) + 1) /\ End(k) = StartOf(k + 1) /\ End(k) <= pwrite
    BY <1>0, SMT DEF Layout
  <2>2. End(k)' = End(k) /\ StartOf(k + 1)' = StartOf(k + 1)
    BY <1>g, <2>1
  <2>3. End(k) \in Nat
    BY <1>0
  <2> HIDE DEF End, StartOf
  <2> QED
    BY <1>0, <1>g, <2>1, <2>2, <2>3, SMT
<1>3. CASE DOMAIN pkts' = DOMAIN pkts
  <2>1. ASSUME NEW k \in DOMAIN pkts' PROVE End(k)' = StartOf(k + 1)' /\ End(k)' <= pwrite'
    BY <1>2, <1>3, <2>1
  <2>2. ASSUME NEW j \in DOMAIN pkts', NEW k \in DOMAIN pkts', j < k
        PROVE  End(j)' <= pkts'[k].start
    BY <1>3, <1>g, <2>2 DEF Layout
  <2> QED
    BY <1>1, <2>1, <2>2 DEF Layout
<1>4. CASE Reserve
  <2>n. PICK n \in Nat : n = Len(pkts) + 1
    BY <1>0, SMT
  <2>1. /\ DOMAIN pkts' = 1..n /\ pkts'[n].start = pwrite
        /\ pwrite' = pwrite + 1 + Body[n]
    BY <1>4, <2>n, ReserveIs, SMT DEF Reserve
  <2>2. End(n)' = pwrite' /\ n + 1 \notin DOMAIN pkts'
    BY <1>0, <2>1, SMT DEF End
  <2>3. End(n)' = StartOf(n + 1)' /\ End(n)' <= pwrite'
    BY <1>0, <2>2, SMT DEF StartOf
  <2>4. ASSUME NEW k \in DOMAIN pkts' PROVE End(k)' = StartOf(k + 1)' /\ End(k)' <= pwrite'
    <3>1. k = n \/ k \in DOMAIN pkts
      BY <1>0, <2>n, <2>1, SMT
    <3> QED
      BY <1>2, <2>3, <3>1
  <2>5. ASSUME NEW j \in DOMAIN pkts', NEW k \in DOMAIN pkts', j < k
        PROVE  End(j)' <= pkts'[k].start
    <3>1. j \in DOMAIN pkts /\ (k = n \/ k \in DOMAIN pkts)
      BY <1>0, <2>n, <2>1, <2>5, SMT
    <3>2. End(j)' = End(j) /\ End(j) <= pwrite
      BY <1>g, <3>1 DEF Layout
    <3>3. CASE k = n
      BY <2>1, <3>2, <3>3
    <3>4. CASE k \in DOMAIN pkts
      BY <1>g, <2>5, <3>1, <3>4 DEF Layout
    <3> QED
      BY <3>1, <3>3, <3>4
  <2> QED
    BY <1>1, <2>4, <2>5 DEF Layout
<1>5. DOMAIN pkts' = DOMAIN pkts \/ Reserve
  <2>1. ASSUME NEW k \in InFlight, ReleaseInsertLock(k) \/ SetPktLen(k) \/ SendQueuePush(k)
        PROVE  DOMAIN pkts' = DOMAIN pkts
    <3>1. /\ k \in DOMAIN pkts
          /\ InsertStep(k, "wait") \/ InsertStep(k, "push") \/ InsertStep(k, "ready")
      BY <2>1 DEF InFlight, ReleaseInsertLock, SetPktLen, SendQueuePush
    <3> QED
      BY <3>1, InsertStepIs
  <2> QED
    BY <2>1, PacketSteps
<1> QED
  BY <1>3, <1>4, <1>5

\* An inserter writes only when there is space, and pread never moves back.
LEMMA SpaceStep ==
  ASSUME TypeOK, Layout, Space, RefsHeld, StrongRefsStay, SlotsAhead, Unborn, SaverAt, [Next]_vars
  PROVE  Space'
<1> SUFFICES ASSUME NEW k \in DOMAIN pkts', pkts'[k].at \in {"push", "ready"}
             PROVE  End(k)' <= pread' + Size - 1
  BY DEF Space
<1>0. pread \in Nat /\ pread' \in Nat /\ pread <= pread' /\ Size \in Nat
  BY PreadSteps, RingBufAssumption DEF TypeOK
<1>1. ASSUME k \in DOMAIN pkts, pkts[k].at \in {"push", "ready"}
      PROVE  End(k)' <= pread' + Size - 1
  <2>1. End(k)' = End(k) /\ End(k) \in Nat
    BY <1>1, Grows, PacketTypes
  <2>2. End(k) <= pread + Size - 1
    BY <1>1 DEF Space
  <2> QED
    BY <1>0, <2>1, <2>2, SMT
<1>2. CASE UNCHANGED <<pkts, pwrite>>
  BY <1>1, <1>2
<1>3. CASE Reserve
  <2>1. k \in DOMAIN pkts /\ pkts'[k] = pkts[k]
    BY <1>3, ReserveIs, PacketTypes, SMT
  <2> QED
    BY <1>1, <2>1
<1>4. ASSUME NEW j \in InFlight, ReleaseInsertLock(j) \/ SetPktLen(j) \/ SendQueuePush(j)
      PROVE  End(k)' <= pread' + Size - 1
  <2>0. j \in DOMAIN pkts
    BY DEF InFlight
  <2>1. ASSUME ReleaseInsertLock(j) PROVE k \in DOMAIN pkts /\ pkts[k].at \in {"push", "ready"}
    <3>1. InsertStep(j, "wait")
      BY <2>1 DEF ReleaseInsertLock
    <3> QED
      BY <2>0, <3>1, InsertStepIs
  <2>2. ASSUME SendQueuePush(j) PROVE k \in DOMAIN pkts /\ pkts[k].at \in {"push", "ready"}
    <3>1. InsertStep(j, "ready") /\ pkts[j].at = "push"
      BY <2>2 DEF SendQueuePush
    <3> QED
      BY <2>0, <3>1, InsertStepIs
  <2>3. ASSUME SetPktLen(j)
        PROVE  k \in DOMAIN pkts /\ (pkts[k].at \in {"push", "ready"} \/ k = j)
    <3>1. InsertStep(j, "push")
      BY <2>3 DEF SetPktLen
    <3> QED
      BY <2>0, <3>1, InsertStepIs
  <2>4. ASSUME SetPktLen(j) PROVE End(j)' <= pread' + Size - 1
    <3>1. End(j)' = End(j) /\ End(j) \in Nat
      BY <2>0, Grows, PacketTypes
    <3>2. pkts[j].start + 1 + Body[j] - pread <= Size - 1
      BY <2>4 DEF SetPktLen, SpaceFor
    <3>3. pkts[j].start \in Nat /\ Body[j] \in Nat
      BY <2>0, PacketTypes
    <3>4. End(j) <= pread + Size - 1
      BY <1>0, <3>2, <3>3, SMT DEF End
    <3> QED
      BY <1>0, <3>1, <3>4, SMT
  <2> QED
    BY <1>1, <1>4, <2>1, <2>2, <2>3, <2>4
<1> QED
  BY <1>2, <1>3, <1>4, PacketSteps

\* A reference is made at pread and moves forward, and pread is at most the
\* least of them.
LEMMA SlotsAheadStep ==
  ASSUME TypeOK, Layout, Space, RefsHeld, StrongRefsStay, SlotsAhead, Unborn, SaverAt, [Next]_vars
  PROVE  SlotsAhead'
<1>1. CASE Clears
  BY <1>1 DEF Clears, SlotsAhead
<1>2. CASE pread' = pread
  <2>1. CASE slot' = slot
    BY <1>2, <2>1 DEF SlotsAhead
  <2>2. ASSUME NEW i \in Slots, NEW e \in SlotRecord, SlotStep(i, e) PROVE SlotsAhead'
    <3>1. slot' = [slot EXCEPT ![i] = e] /\ slot \in [Slots -> SlotRecord]
      BY <2>2 DEF SlotStep, TypeOK, SlotRecord
    <3>2. pread \in Nat /\ slot[i].pread \in Nat /\ e.pread \in Nat
      BY <3>1 DEF TypeOK, SlotRecord
    <3>3. e.num # 0 => pread <= e.pread
      BY <2>2, <3>2, SMT DEF SlotStep, SlotsAhead
    <3> QED
      BY <1>2, <3>1, <3>3 DEF SlotsAhead
  <2> QED
    BY <2>1, <2>2, SlotSteps
<1> QED
  BY <1>1, <1>2, PreadSteps

\* Who makes and drops a reference.
LEMMA RefSteps ==
  ASSUME TypeOK, [Next]_vars
  PROVE  \/ UNCHANGED <<sref, kref, wref, refNum>>
         \/ SaverNewRef /\ UNCHANGED <<kref, wref>>
         \/ KeepNewRef /\ UNCHANGED <<sref, wref>>
         \/ \E w \in Senders :
              /\ UNCHANGED <<sref, kref>> /\ NewRef(FALSE)
              /\ wref' = [wref EXCEPT ![w] = MadeRef]
         \/ \E w \in Senders :
              UNCHANGED <<sref, kref, refNum>> /\ wref' = [wref EXCEPT ![w] = NoRef]
<1>1. ASSUME Reserve \/ XLogFlush PROVE UNCHANGED <<sref, kref, wref, refNum>>
  BY <1>1 DEF Reserve, XLogFlush, FlushRequest, XLogWrite, saverVars, keepVars, ringVars,
     senderVars
<1>2. ASSUME NEW k \in InFlight, XLogInsertRecord(k) PROVE UNCHANGED <<sref, kref, wref, refNum>>
  BY <1>2 DEF XLogInsertRecord, ReleaseInsertLock, WaitForSpace, SetPktLen, SendQueuePush,
     saverVars, keepVars, ringVars, senderVars
<1>3. ASSUME PrimarySave
      PROVE  \/ UNCHANGED <<sref, kref, wref, refNum>>
             \/ SaverNewRef /\ UNCHANGED <<kref, wref>>
             \/ KeepNewRef /\ UNCHANGED <<sref, wref>>
  BY <1>3 DEF PrimarySave, SaverNewRef, SendQueuePop, SendQueueEmpty, KeepNewRef, KeepJump,
     KeepStep, KeepDone, saverVars, keepVars, ringVars, senderVars
<1>4. ASSUME NEW w \in Senders, SenderStep(w)
      PROVE  \/ UNCHANGED <<sref, kref, wref, refNum>>
             \/ /\ UNCHANGED <<sref, kref>> /\ NewRef(FALSE)
                /\ wref' = [wref EXCEPT ![w] = MadeRef]
             \/ UNCHANGED <<sref, kref, refNum>> /\ wref' = [wref EXCEPT ![w] = NoRef]
  BY <1>4 DEF SenderStep, WalSndStart, WalSndExit, Sending, CheckPromote, CheckNewRef,
     CheckScan, CheckEnd, SendPromote, RawDataPop, SendEnd, SenderNewRef, saverVars, keepVars
<1>5. CASE UNCHANGED vars
  BY <1>5 DEF vars, saverVars, keepVars, ringVars, senderVars
<1> QED
  BY <1>1, <1>2, <1>3, <1>4, <1>5 DEF Next, Inserting, SenderStep

\* References keep numbers of their own.
LEMMA RefsHeldStep ==
  ASSUME TypeOK, RefsHeld, [Next]_vars
  PROVE  RefsHeld' /\ refNum' \in Nat
<1>0. /\ refNum \in Nat /\ wref \in [Senders -> Refs] /\ NoRef.num = 0
  BY DEF TypeOK, NoRef
<1>h. /\ HeldRef(sref) /\ HeldRef(kref) /\ \A w \in Senders : HeldRef(wref[w])
      /\ sref # NoRef => sref.num # kref.num
      /\ \A w \in Senders : wref[w] # NoRef =>
           /\ wref[w].num # sref.num /\ wref[w].num # kref.num
           /\ \A v \in Senders \ {w} : wref[w].num # wref[v].num
  BY DEF RefsHeld
<1>n. ASSUME NEW strong \in BOOLEAN, NewRef(strong)
      PROVE  /\ MadeRef.slot \in Slots /\ MadeRef.num = refNum + 1 /\ refNum' = refNum + 1
             /\ \A r : HeldRef(r) => r.num # MadeRef.num
             /\ \A r : HeldRef(r) =>
                  r = NoRef \/ (r.slot \in Slots /\ r.num \in 1..(refNum + 1))
  <2>1. MadeRef.slot \in Slots /\ MadeRef.num = refNum + 1 /\ refNum' = refNum + 1
    BY <1>n, NewRefIs
  <2>2. \A r : HeldRef(r) => r.num # MadeRef.num
    BY <1>0, <2>1, SMT DEF HeldRef
  <2>3. \A r : HeldRef(r) => r = NoRef \/ (r.slot \in Slots /\ r.num \in 1..(refNum + 1))
    BY <1>0, SMT DEF HeldRef
  <2> QED
    BY <2>1, <2>2, <2>3
<1>m. refNum + 1 \in 1..(refNum + 1) /\ refNum + 1 \in Nat
  BY <1>0, SMT
<1>1. CASE UNCHANGED <<sref, kref, wref, refNum>>
  BY <1>0, <1>h, <1>1 DEF RefsHeld, HeldRef
<1>2. CASE SaverNewRef /\ UNCHANGED <<kref, wref>>
  <2>0. NewRef(TRUE) /\ sref' = MadeRef
    BY <1>2 DEF SaverNewRef
  <2>1. /\ MadeRef.slot \in Slots /\ MadeRef.num = refNum + 1 /\ refNum' = refNum + 1
        /\ \A r : HeldRef(r) => r.num # MadeRef.num
        /\ \A r : HeldRef(r) => r = NoRef \/ (r.slot \in Slots /\ r.num \in 1..(refNum + 1))
    BY <1>n, <2>0
  <2>2. HeldRef(sref)' /\ HeldRef(kref)' /\ \A w \in Senders : HeldRef(wref[w])'
    BY <1>h, <1>m, <1>2, <2>0, <2>1 DEF HeldRef
  <2> QED
    BY <1>h, <1>m, <1>2, <2>0, <2>1, <2>2 DEF RefsHeld
<1>3. CASE KeepNewRef /\ UNCHANGED <<sref, wref>>
  <2>0. NewRef(TRUE) /\ kref' = MadeRef
    BY <1>3 DEF KeepNewRef
  <2>1. /\ MadeRef.slot \in Slots /\ MadeRef.num = refNum + 1 /\ refNum' = refNum + 1
        /\ \A r : HeldRef(r) => r.num # MadeRef.num
        /\ \A r : HeldRef(r) => r = NoRef \/ (r.slot \in Slots /\ r.num \in 1..(refNum + 1))
    BY <1>n, <2>0
  <2>2. HeldRef(sref)' /\ HeldRef(kref)' /\ \A w \in Senders : HeldRef(wref[w])'
    BY <1>h, <1>m, <1>3, <2>0, <2>1 DEF HeldRef
  <2> QED
    BY <1>h, <1>m, <1>3, <2>0, <2>1, <2>2 DEF RefsHeld
<1>4. ASSUME NEW w \in Senders, UNCHANGED <<sref, kref>>, NewRef(FALSE),
             wref' = [wref EXCEPT ![w] = MadeRef]
      PROVE  RefsHeld' /\ refNum' \in Nat
  <2>1. /\ MadeRef.slot \in Slots /\ MadeRef.num = refNum + 1 /\ refNum' = refNum + 1
        /\ \A r : HeldRef(r) => r.num # MadeRef.num
        /\ \A r : HeldRef(r) => r = NoRef \/ (r.slot \in Slots /\ r.num \in 1..(refNum + 1))
    BY <1>n, <1>4
  <2>w. wref'[w] = MadeRef /\ \A v \in Senders \ {w} : wref'[v] = wref[v]
    BY <1>0, <1>4
  <2>2. HeldRef(sref)' /\ HeldRef(kref)'
    BY <1>h, <1>4, <2>1 DEF HeldRef
  <2>3. ASSUME NEW v \in Senders PROVE HeldRef(wref[v])'
    <3>1. wref'[v] = MadeRef \/ wref'[v] = wref[v]
      BY <2>w
    <3> QED
      BY <1>h, <1>m, <2>1, <3>1 DEF HeldRef
  <2>4. ASSUME NEW v \in Senders, wref'[v] # NoRef
        PROVE  /\ wref'[v].num # sref.num /\ wref'[v].num # kref.num
               /\ \A u \in Senders \ {v} : wref'[v].num # wref'[u].num
    <3>1. CASE v = w
      BY <1>h, <2>1, <2>w, <3>1
    <3>2. CASE v # w
      BY <1>h, <2>1, <2>4, <2>w, <3>2
    <3> QED
      BY <3>1, <3>2
  <2> QED
    BY <1>h, <1>m, <1>4, <2>1, <2>2, <2>3, <2>4 DEF RefsHeld
<1>5. ASSUME NEW w \in Senders, UNCHANGED <<sref, kref, refNum>>,
             wref' = [wref EXCEPT ![w] = NoRef]
      PROVE  RefsHeld' /\ refNum' \in Nat
  <2>w. wref'[w] = NoRef /\ \A v \in Senders \ {w} : wref'[v] = wref[v]
    BY <1>0, <1>5
  <2>2. HeldRef(sref)' /\ HeldRef(kref)'
    BY <1>h, <1>5 DEF HeldRef
  <2>3. ASSUME NEW v \in Senders PROVE HeldRef(wref[v])'
    <3>1. wref'[v] = NoRef \/ wref'[v] = wref[v]
      BY <2>w
    <3> QED
      BY <1>h, <1>5, <3>1 DEF HeldRef
  <2>4. ASSUME NEW v \in Senders, wref'[v] # NoRef
        PROVE  /\ wref'[v].num # sref.num /\ wref'[v].num # kref.num
               /\ \A u \in Senders \ {v} : wref'[v].num # wref'[u].num
    <3>1. v # w /\ wref'[v] = wref[v] /\ wref[v].num # NoRef.num
      <4>1. v # w /\ wref'[v] = wref[v]
        BY <2>w, <2>4
      <4>2. wref[v].num \in 1..refNum
        BY <1>h, <2>4, <4>1 DEF HeldRef
      <4> QED
        BY <1>0, <4>1, <4>2, SMT
    <3> QED
      BY <1>h, <2>4, <2>w, <3>1
  <2> QED
    BY <1>0, <1>h, <1>5, <2>2, <2>3, <2>4 DEF RefsHeld
<1> QED
  BY <1>1, <1>2, <1>3, <1>4, <1>5, RefSteps

\* Nothing happens to the ring before the saver has its reference.
LEMMA UnbornStep ==
  ASSUME TypeOK, RefsHeld, StrongRefsStay, SaverAt, Unborn, [Next]_vars
  PROVE  Unborn'
<1> SUFFICES ASSUME sref' = NoRef
             PROVE  /\ saved' = 0 /\ pread' = 0 /\ kref' = NoRef /\ spc' = "pop"
                    /\ \A i \in Slots : slot'[i].num = 0
                    /\ \A w \in Senders : wpc'[w] = "off"
  BY DEF Unborn
<1>1. sref = NoRef
  BY SrefStays
<1>2. /\ saved = 0 /\ pread = 0 /\ kref = NoRef /\ spc = "pop"
      /\ \A i \in Slots : slot[i].num = 0
      /\ \A w \in Senders : wpc[w] = "off"
  BY <1>1 DEF Unborn
<1>3. ~SaverNewRef
  <2> SUFFICES ASSUME SaverNewRef PROVE FALSE
    OBVIOUS
  <2>1. sref' = MadeRef /\ MadeRef.num = refNum + 1 /\ refNum \in Nat
    BY NewRefIs DEF SaverNewRef, TypeOK
  <2> QED
    BY <2>1, SMT DEF NoRef
<1>4. Occupied(slot) = {} /\ ~PreadMoves(slot)
  BY <1>2 DEF Occupied, PreadMoves, LeastPread
<1>5. UNCHANGED <<saved, pread, kref, spc, slot, wpc>>
  <2>1. ASSUME Reserve \/ XLogFlush PROVE UNCHANGED <<saved, pread, kref, spc, slot, wpc>>
    BY <2>1 DEF Reserve, XLogFlush, FlushRequest, XLogWrite, saverVars, keepVars, ringVars,
       senderVars
  <2>2. ASSUME NEW k \in InFlight, XLogInsertRecord(k)
        PROVE  UNCHANGED <<saved, pread, kref, spc, slot, wpc>>
    <3>1. ~WaitForSpace(k)
      BY <1>4 DEF WaitForSpace, FreeUp, Evictable
    <3> QED
      BY <2>2, <3>1 DEF XLogInsertRecord, ReleaseInsertLock, SetPktLen, SendQueuePush,
         saverVars, keepVars, ringVars, senderVars
  <2>3. ~PrimarySave
    BY <1>1, <1>2, <1>3 DEF PrimarySave, SendQueuePop, SendQueueEmpty, KeepNewRef, KeepJump,
       KeepStep, KeepDone
  <2>4. ASSUME NEW w \in Senders PROVE ~SenderStep(w)
    BY <1>1, <1>2 DEF SenderStep, WalSndStart, WalSndExit, Sending, CheckPromote, CheckNewRef,
       CheckScan, CheckEnd, SendPromote, RawDataPop, SendEnd
  <2>5. ASSUME UNCHANGED vars PROVE UNCHANGED <<saved, pread, kref, spc, slot, wpc>>
    BY <2>5 DEF vars, saverVars, keepVars, ringVars, senderVars
  <2> QED
    BY <2>1, <2>2, <2>3, <2>4, <2>5 DEF Next, Inserting, SenderStep
<1> QED
  BY <1>2, <1>5

-----------------------------------------------------------------------------
(* What is read at the start of a packet. *)

\* At the start of a packet, or at pwrite, what looks like a packet is that
\* packet, pushed.
LEMMA AtStart ==
  ASSUME TypeOK, Layout, Cells, NEW j \in 1..(Len(pkts) + 1), NEW p \in Nat, p = StartOf(j),
         pread <= p, p <= pread + Size - 1, Written(CellAt(p))
  PROVE  /\ j \in Published /\ CellAt(p) = Header(j)
         /\ p + 1 + Body[j] = StartOf(j + 1)
         /\ \A h \in Headers(CellAt(p)) : h.state = "ready" /\ h.pkt = j /\ h.body = Body[j]
<1>0. /\ pread \in Nat /\ Size \in Nat /\ Len(pkts) \in Nat /\ DOMAIN pkts = 1..Len(pkts)
      /\ \A k \in DOMAIN pkts : /\ k \in Nat /\ pkts[k].start \in Nat
                                /\ End(k) \in Nat /\ End(k) > pkts[k].start
  BY PacketTypes, RingBufAssumption DEF TypeOK
<1>1. p \in pread..(pread + Size - 1)
  BY <1>0, SMT
<1>2. PICK k \in Published : Covers(k, p)
  BY <1>1 DEF Cells
<1>3. k \in DOMAIN pkts /\ pkts[k].start <= p /\ p < End(k)
  BY <1>2 DEF Covers, Published
<1>4. k = j
  <2>1. CASE j \in DOMAIN pkts
    <3>1. p = pkts[j].start
      BY <2>1 DEF StartOf
    <3>2. /\ k < j => End(k) <= pkts[j].start
          /\ j < k => End(j) <= pkts[k].start
      BY <1>3, <2>1 DEF Layout
    <3>3. j \in Nat /\ k \in Nat /\ End(j) \in Nat /\ End(k) \in Nat /\ pkts[k].start \in Nat
          /\ End(j) > pkts[j].start
      BY <1>0, <1>3, <2>1
    <3> QED
      BY <1>3, <3>1, <3>2, <3>3, SMT
  <2>2. CASE j \notin DOMAIN pkts
    <3>1. p = pwrite /\ End(k) <= pwrite
      BY <1>3, <2>2 DEF StartOf, Layout
    <3> QED
      BY <1>0, <1>3, <3>1, SMT
  <2> QED
    BY <2>1, <2>2
<1>5. j \in Published /\ p = pkts[j].start
  BY <1>3, <1>4 DEF StartOf
<1>6. CellAt(p) = Header(j)
  BY <1>0, <1>3, <1>4, <1>5 DEF Cells
<1>7. End(j) = p + 1 + Body[j] /\ End(j) = StartOf(j + 1)
  BY <1>3, <1>4, <1>5 DEF End, Layout
<1>8. Header(j).state = "ready" /\ Header(j).pkt = j /\ Header(j).body = Body[j]
  BY DEF Header
<1>9. \A h \in Headers(CellAt(p)) : h.state = "ready" /\ h.pkt = j /\ h.body = Body[j]
  BY <1>6, <1>8 DEF Headers
<1> QED
  BY <1>5, <1>6, <1>7, <1>9

\* polar_xlog_send_queue_pop takes the next packet.
LEMMA PopIs ==
  ASSUME TypeOK, Layout, Space, RefsHeld, StrongRefsStay, SlotsAhead, SaverAt, Cells, SendQueuePop
  PROVE  /\ saved + 1 \in Published /\ saved' = saved + 1 /\ saved + 1 <= flushed
         /\ slot'[sref.slot].pread = StartOf(saved + 2)
         /\ slot'[sref.slot].num = slot[sref.slot].num
         /\ slot'[sref.slot].strong = slot[sref.slot].strong
<1>0. /\ saved + 1 \in 1..(Len(pkts) + 1) /\ Position(sref) \in Nat
      /\ pread <= Position(sref) /\ Position(sref) <= pread + Size - 1
      /\ Position(sref) = StartOf(saved + 1)
  BY SaverInWindow DEF SendQueuePop, SaverAt
<1>n. saved \in Nat
  BY SMT DEF TypeOK
<1>1. RefMatch(sref) /\ Uses(sref.slot)
  BY DEF SendQueuePop, StrongRefsStay, Uses, Holds
<1>2. PICK h \in HeadersAt(sref) : Poppable(h) /\ saved' = h.pkt /\ UpdateRef(sref, h.body)
  BY DEF SendQueuePop
<1>3. Written(CellAt(Position(sref)))
  BY <1>0, <1>2, HeaderTypes DEF HeadersAt, Poppable
<1>4. /\ saved + 1 \in Published /\ h.pkt = saved + 1 /\ h.body = Body[saved + 1]
      /\ Position(sref) + 1 + Body[saved + 1] = StartOf((saved + 1) + 1)
  <2>1. /\ saved + 1 \in Published
        /\ Position(sref) + 1 + Body[saved + 1] = StartOf((saved + 1) + 1)
        /\ \A x \in Headers(CellAt(Position(sref))) :
             x.state = "ready" /\ x.pkt = saved + 1 /\ x.body = Body[saved + 1]
    BY <1>0, <1>3, AtStart
  <2> QED
    BY <1>2, <2>1 DEF HeadersAt
<1>5. h.body \in Nat
  BY <1>0, <1>2, HeaderTypes DEF HeadersAt
<1>6. /\ slot'[sref.slot].pread = slot[sref.slot].pread + 1 + h.body
      /\ slot'[sref.slot].num = slot[sref.slot].num
      /\ slot'[sref.slot].strong = slot[sref.slot].strong
  BY <1>1, <1>2, <1>5, UpdateRefIs
<1>7. (saved + 1) + 1 = saved + 2
  BY <1>n, SMT
<1>8. saved' = saved + 1 /\ saved + 1 <= flushed
  BY <1>2, <1>4 DEF Poppable
<1>9. slot'[sref.slot].pread = StartOf(saved + 2)
  BY <1>4, <1>6, <1>7 DEF Position
<1> QED
  BY <1>4, <1>6, <1>8, <1>9

\* The saver goes from the start of a packet to the start of the next.
LEMMA SaverAtStep ==
  ASSUME TypeOK, Layout, Space, RefsHeld, StrongRefsStay, SlotsAhead, Unborn, SaverAt, Cells,
         [Next]_vars
  PROVE  SaverAt'
<1>0. saved \in Nat /\ Len(pkts) \in Nat /\ DOMAIN pkts = 1..Len(pkts)
  <2>1. saved \in 0..MaxRecords
    BY DEF TypeOK
  <2> QED
    BY <2>1, PacketTypes, XlogQueueAssumption, SMT
<1>1. Published \subseteq Published'
  BY PublishedSteps
<1>2. \A k \in 1..saved : k \in Published
  BY DEF SaverAt
<1>3. ASSUME spc' = "step" PROVE kref' # NoRef
  <2>1. KeepJump \/ spc = "step"
    BY <1>3, SaverSteps
  <2>2. kref # NoRef
    BY <2>1 DEF KeepJump, SaverAt
  <2> QED
    BY <2>2, KrefStays
<1>4. CASE SendQueuePop
  <2>1. /\ saved + 1 \in Published /\ saved' = saved + 1
        /\ slot'[sref.slot].pread = StartOf(saved + 2)
    BY <1>4, PopIs
  <2>2. \A k \in 1..saved' : k \in Published'
    <3> TAKE k \in 1..saved'
    <3>1. k \in 1..saved \/ k = saved + 1
      BY <1>0, <2>1, SMT
    <3> QED
      BY <1>1, <1>2, <2>1, <3>1
  <2>3. sref' = sref /\ saved + 2 \in 1..(Len(pkts) + 1) /\ saved' + 1 = saved + 2
    BY <1>0, <1>4, <2>1, SMT DEF SendQueuePop, Published
  <2>4. ASSUME NEW n, n = saved + 2 PROVE StartOf(n)' = StartOf(n)
    BY <2>3, <2>4, Grows
  <2>5. Position(sref)' = StartOf(saved + 1)'
    BY <2>1, <2>3, <2>4 DEF Position, StartOf
  <2> QED
    BY <1>3, <2>2, <2>5 DEF SaverAt
<1>5. CASE ~SendQueuePop
  <2>1. saved' = saved
    BY <1>5, SaverSteps
  <2>2. \A k \in 1..saved' : k \in Published'
    BY <1>1, <1>2, <2>1
  <2>3. ASSUME sref # NoRef PROVE Position(sref)' = StartOf(saved + 1)'
    <3>1. sref' = sref /\ slot'[sref.slot] = slot[sref.slot]
      BY <1>5, <2>3, SrefStays
    <3>2. saved + 1 \in 1..(Len(pkts) + 1)
      BY <2>3, SaverInWindow
    <3>3. ASSUME NEW n, n = saved + 1 PROVE StartOf(n)' = StartOf(n)
      BY <3>2, <3>3, Grows
    <3>4. slot[sref.slot].pread = StartOf(saved + 1)
      BY <2>3 DEF SaverAt, Position
    <3> QED
      BY <2>1, <3>1, <3>3, <3>4 DEF Position, StartOf
  <2>4. ASSUME sref = NoRef, sref' # NoRef PROVE Position(sref)' = StartOf(saved + 1)'
    <3>1. NewRef(TRUE) /\ sref' = MadeRef
      BY <2>4, SaverSteps DEF SaverNewRef
    <3>2. /\ slot' = [slot EXCEPT ![MadeRef.slot] =
                        [num |-> refNum + 1, strong |-> TRUE, pread |-> pread]]
          /\ MadeRef.slot \in Slots
      BY <3>1, NewRefIs
    <3>3. slot'[sref'.slot].pread = pread
      BY <3>1, <3>2 DEF TypeOK
    <3>4. pread = 0 /\ saved + 1 = 1
      BY <2>4, SMT DEF Unborn
    <3>5. StartOf(1)' = 0
      BY LayoutStep DEF Layout
    <3> QED
      BY <2>1, <3>3, <3>4, <3>5 DEF Position, StartOf
  <2> QED
    BY <1>3, <2>2, <2>3, <2>4 DEF SaverAt
<1> QED
  BY <1>4, <1>5

\* A walsender that steps over a packet, or changes its reference's strength.
PassesOver(w, h) ==
  /\ CheckScan(w) => Passed(w, h) /\ checked' = [checked EXCEPT ![w] = @ \/ Reaches(w, h)]
  /\ RawDataPop(w) => Poppable(h) /\ sent' = [sent EXCEPT ![w] = h.pkt]
LEMMA SenderPasses ==
  ASSUME TypeOK, StrongRefsStay, NEW w \in Senders, CheckScan(w) \/ RawDataPop(w)
  PROVE  /\ RefMatch(wref[w])
         /\ \E h \in HeadersAt(wref[w]) :
              /\ LooksReady(h) /\ h.pkt \in 0..MaxRecords /\ h.body \in Nat
              /\ slot'[wref[w].slot].pread = slot[wref[w].slot].pread + 1 + h.body
              /\ PassesOver(w, h)
         /\ slot'[wref[w].slot].num = slot[wref[w].slot].num
         /\ slot'[wref[w].slot].strong = slot[wref[w].slot].strong
<1>1. RefMatch(wref[w]) /\ Uses(wref[w].slot)
  BY DEF StrongRefsStay, Uses, Holds, Sending, CheckScan, RawDataPop
<1>2. PICK h \in HeadersAt(wref[w]) :
        LooksReady(h) /\ UpdateRef(wref[w], h.body) /\ PassesOver(w, h)
  <2>1. CASE CheckScan(w)
    <3>1. PICK h \in HeadersAt(wref[w]) :
            /\ Passed(w, h) /\ ReadOn(w, h)
            /\ checked' = [checked EXCEPT ![w] = @ \/ Reaches(w, h)]
      BY <2>1 DEF CheckScan
    <3>2. ~RawDataPop(w)
      BY <2>1 DEF CheckScan, RawDataPop
    <3> QED
      BY <3>1, <3>2 DEF Passed, LooksReady, ReadOn, PassesOver
  <2>2. CASE RawDataPop(w)
    <3>1. PICK h \in HeadersAt(wref[w]) :
            Poppable(h) /\ sent' = [sent EXCEPT ![w] = h.pkt] /\ ReadOn(w, h)
      BY <2>2 DEF RawDataPop
    <3>2. ~CheckScan(w)
      BY <2>2 DEF CheckScan, RawDataPop
    <3> QED
      BY <3>1, <3>2 DEF Poppable, ReadOn, PassesOver
  <2> QED
    BY <2>1, <2>2
<1>3. h.body \in Nat /\ h.pkt \in 0..MaxRecords
  BY <1>1, <1>2, RefPosition, HeaderTypes DEF HeadersAt
<1>4. /\ slot'[wref[w].slot].pread = slot[wref[w].slot].pread + 1 + h.body
      /\ slot'[wref[w].slot].num = slot[wref[w].slot].num
      /\ slot'[wref[w].slot].strong = slot[wref[w].slot].strong
  BY <1>1, <1>2, <1>3, UpdateRefIs
<1> QED
  BY <1>1, <1>2, <1>3, <1>4

\* Promoting and demoting a reference does not move it.
LEMMA SenderStrength ==
  ASSUME TypeOK, StrongRefsStay, NEW w \in Senders,
         CheckPromote(w) \/ CheckEnd(w) \/ SendEnd(w) \/ (SendPromote(w) /\ RefMatch(wref[w]))
  PROVE  /\ RefMatch(wref[w])
         /\ slot'[wref[w].slot].pread = slot[wref[w].slot].pread
         /\ slot'[wref[w].slot].num = slot[wref[w].slot].num
         /\ CheckPromote(w) \/ SendPromote(w) => slot'[wref[w].slot].strong = TRUE
<1>1. RefMatch(wref[w]) /\ Uses(wref[w].slot)
  BY DEF StrongRefsStay, Uses, Holds, Sending, CheckPromote, CheckEnd, SendEnd
<1>2. SetStrong(wref[w], TRUE) \/ SetStrong(wref[w], FALSE)
  BY DEF CheckPromote, CheckEnd, SendEnd, SendPromote
<1>3. /\ slot'[wref[w].slot].pread = slot[wref[w].slot].pread
      /\ slot'[wref[w].slot].num = slot[wref[w].slot].num
  BY <1>1, <1>2, SetStrongIs
<1>4. ASSUME CheckPromote(w) \/ SendPromote(w) PROVE slot'[wref[w].slot].strong = TRUE
  <2>1. SetStrong(wref[w], TRUE)
    BY <1>1, <1>4 DEF CheckPromote, SendPromote
  <2> QED
    BY <1>1, <2>1, SetStrongIs
<1> QED
  BY <1>1, <1>3, <1>4

\* Eviction takes weak references only, and a slot is freed or moved by the
\* owner of the reference it matches.
LEMMA StrongStep ==
  ASSUME TypeOK, Layout, Space, RefsHeld, StrongRefsStay, SlotsAhead, SaverAt, Cells, [Next]_vars
  PROVE  StrongRefsStay'
<1>0. slot \in [Slots -> SlotRecord] /\ wref \in [Senders -> Refs] /\ refNum \in Nat
      /\ wpc \in [Senders -> {"off", "check", "scan", "send", "raw", "more"}]
  BY DEF TypeOK, SlotRecord
<1>n. ASSUME NewRef(TRUE)
      PROVE  /\ MadeRef.slot \in Slots /\ slot'[MadeRef.slot].num = MadeRef.num
             /\ slot'[MadeRef.slot].strong
  <2>1. /\ MadeRef.slot \in Slots /\ MadeRef.num = refNum + 1
        /\ slot' = [slot EXCEPT ![MadeRef.slot] = [num |-> refNum + 1, strong |-> TRUE,
                                                   pread |-> pread]]
    BY <1>n, NewRefIs
  <2> QED
    BY <1>0, <2>1
<1>1. ASSUME sref' # NoRef PROVE RefMatch(sref)' /\ slot'[sref'.slot].strong
  <2>1. CASE sref = NoRef
    <3>1. NewRef(TRUE) /\ sref' = MadeRef
      BY <1>1, <2>1, SaverSteps DEF SaverNewRef
    <3> QED
      BY <1>n, <3>1 DEF RefMatch
  <2>2. CASE sref # NoRef
    <3>1. sref' = sref /\ (SendQueuePop \/ slot'[sref.slot] = slot[sref.slot])
      BY <2>2, SrefStays
    <3>2. RefMatch(sref) /\ slot[sref.slot].strong
      BY <2>2 DEF StrongRefsStay
    <3>3. /\ slot'[sref.slot].num = slot[sref.slot].num
          /\ slot'[sref.slot].strong = slot[sref.slot].strong
      BY <3>1, PopIs
    <3> QED
      BY <3>1, <3>2, <3>3 DEF RefMatch
  <2> QED
    BY <2>1, <2>2
<1>2. ASSUME kref' # NoRef PROVE RefMatch(kref)' /\ slot'[kref'.slot].strong
  <2>1. CASE kref = NoRef
    <3>1. NewRef(TRUE) /\ kref' = MadeRef
      BY <1>2, <2>1, SaverSteps DEF KeepNewRef
    <3> QED
      BY <1>n, <3>1 DEF RefMatch
  <2>2. CASE kref # NoRef
    <3>1. kref' = kref /\ (KeepJump \/ KeepStep \/ slot'[kref.slot] = slot[kref.slot])
      BY <2>2, KrefStays
    <3>2. RefMatch(kref) /\ slot[kref.slot].strong /\ kref.slot \in Slots
      BY <2>2 DEF StrongRefsStay, RefMatch
    <3>3. ASSUME KeepStep
          PROVE  /\ slot'[kref.slot].num = slot[kref.slot].num
                 /\ slot'[kref.slot].strong = slot[kref.slot].strong
      <4>1. Uses(kref.slot)
        BY <3>2, <3>3 DEF Uses, Holds
      <4>2. PICK h \in HeadersAt(kref) : UpdateRef(kref, h.body)
        BY <3>3 DEF KeepStep
      <4>3. h.body \in Nat
        BY <3>2, <4>2, RefPosition, HeaderTypes DEF HeadersAt
      <4> QED
        BY <3>2, <4>1, <4>2, <4>3, UpdateRefIs
    <3>4. ASSUME KeepJump
          PROVE  /\ slot'[kref.slot].num = slot[kref.slot].num
                 /\ slot'[kref.slot].strong = slot[kref.slot].strong
      <4> DEFINE e == [slot[kref.slot] EXCEPT !.pread = newPread]
      <4>1. slot' = slot \/ slot' = [slot EXCEPT ![kref.slot] = e]
        BY <3>4 DEF KeepJump
      <4>2. slot[kref.slot] \in SlotRecord
        BY <1>0, <3>2
      <4>3. e.num = slot[kref.slot].num /\ e.strong = slot[kref.slot].strong
        BY <4>2 DEF SlotRecord
      <4> HIDE DEF e
      <4>4. slot'[kref.slot] = slot[kref.slot] \/ slot'[kref.slot] = e
        BY <1>0, <3>2, <4>1
      <4> QED
        BY <4>3, <4>4
    <3> QED
      BY <3>1, <3>2, <3>3, <3>4 DEF RefMatch
  <2> QED
    BY <2>1, <2>2
<1>3. ASSUME NEW w \in Senders, wpc'[w] \in {"scan", "raw", "more"}
      PROVE  RefMatch(wref[w])' /\ slot'[wref'[w].slot].strong
  <2>1. CASE ~SenderStep(w)
    <3>1. wpc'[w] = wpc[w] /\ wref'[w] = wref[w]
      BY <2>1, SenderStays DEF SenderSame
    <3>2. RefMatch(wref[w]) /\ slot[wref[w].slot].strong
      BY <1>3, <3>1 DEF StrongRefsStay
    <3>3. RefMatch(wref[w])' /\ slot'[wref[w].slot] = slot[wref[w].slot]
      BY <2>1, <3>2, WrefStays
    <3> QED
      BY <3>1, <3>2, <3>3
  <2>2. CASE SenderStep(w)
    <3>1. /\ CheckPromote(w) \/ CheckScan(w) \/ RawDataPop(w) \/ (SendPromote(w) /\ RefMatch(wref[w]))
          /\ wref' = wref
      <4>1. ASSUME WalSndStart(w) \/ WalSndExit(w) \/ CheckNewRef(w) \/ CheckEnd(w)
                     \/ SendEnd(w) \/ (SendPromote(w) /\ ~RefMatch(wref[w]))
            PROVE  FALSE
        <5>1. wpc'[w] \in {"check", "off", "send"}
          BY <1>0, <4>1 DEF WalSndStart, WalSndExit, CheckNewRef, CheckEnd,
             SendEnd, SendPromote, WGoto, SendFromFile
        <5> QED
          BY <1>3, <5>1
      <4> QED
        BY <2>2, <4>1 DEF SenderStep, Sending, CheckPromote, CheckScan, RawDataPop, SendPromote
    <3>2. CASE CheckPromote(w) \/ (SendPromote(w) /\ RefMatch(wref[w]))
      <4>1. /\ RefMatch(wref[w]) /\ slot'[wref[w].slot].num = slot[wref[w].slot].num
            /\ slot'[wref[w].slot].strong = TRUE
        BY <3>2, SenderStrength
      <4> QED
        BY <3>1, <4>1 DEF RefMatch
    <3>3. CASE CheckScan(w) \/ RawDataPop(w)
      <4>1. /\ RefMatch(wref[w]) /\ slot'[wref[w].slot].num = slot[wref[w].slot].num
            /\ slot'[wref[w].slot].strong = slot[wref[w].slot].strong
        BY <3>3, SenderPasses
      <4>2. slot[wref[w].slot].strong
        BY <3>3 DEF StrongRefsStay, CheckScan, RawDataPop
      <4> QED
        BY <3>1, <4>1, <4>2 DEF RefMatch
    <3> QED
      BY <3>1, <3>2, <3>3
  <2> QED
    BY <2>1, <2>2
<1> QED
  BY <1>1, <1>2, <1>3 DEF StrongRefsStay
=============================================================================
