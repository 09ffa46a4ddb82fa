-------------------------- MODULE XlogQueueProofs ---------------------------
(***************************************************************************)
(* What the WAL meta queue promises, for a ring of any size, any number of *)
(* slots, inserters, walsenders and records: TypeOK, StrongRefsStay,       *)
(* PacketsIntact, NothingSkipped and the refinement of MetaQueue.          *)
(*                                                                         *)
(* The argument. In the lap that starts at pread the cells hold the pushed *)
(* packets, and no other cell looks ready (Cells): inserters write only    *)
(* the space they reserved, which ends before that lap does, and clearing  *)
(* goes only to the least position a reference is at. So whoever reads at  *)
(* the start of a packet reads that packet or nothing (AtStart). The saver *)
(* is always there (SaverAt). A walsender's reference may be weak and may  *)
(* be evicted at any time; once the check has succeeded, and unless the    *)
(* reference was made between packets, it is at a packet that continues    *)
(* what was sent whenever the walsender reads (Readers).                   *)
(***************************************************************************)
EXTENDS XlogQueueSteps

\* A leaf that names no prover is for Zenon.
USE Zenon

-----------------------------------------------------------------------------
(* The cells. *)

\* The lap that starts at pread.
Window == pread..(pread + Size - 1)

\* Two positions of the window have two cells.
LEMMA OneCellEach ==
  ASSUME TypeOK, NEW p \in Window, NEW q \in Window, p # q
  PROVE  p % Size # q % Size
<1>1. p \in Nat /\ q \in Nat /\ ((p < q /\ q < p + Size) \/ (q < p /\ p < q + Size))
  BY RingBufAssumption, SMT DEF TypeOK, Window
<1> QED
  BY <1>1, Apart

\* Packets do not overlap.
LEMMA Disjoint ==
  ASSUME TypeOK, Layout, NEW j \in DOMAIN pkts, NEW k \in DOMAIN pkts, j # k, NEW p \in Nat,
         Covers(j, p)
  PROVE  ~Covers(k, p)
<1>1. /\ j \in Nat /\ k \in Nat /\ pkts[j].start \in Nat /\ pkts[k].start \in Nat
      /\ End(j) \in Nat /\ End(k) \in Nat
  BY PacketTypes
<1>2. /\ j < k => End(j) <= pkts[k].start
      /\ k < j => End(k) <= pkts[j].start
  BY DEF Layout
<1> QED
  BY <1>1, <1>2, SMT DEF Covers

\* A packet that was pushed ends in the lap.
LEMMA PushedEnds ==
  ASSUME TypeOK, Space, NEW k \in Published, NEW p \in Nat, Covers(k, p), p >= pread
  PROVE  p \in Window
<1>1. k \in DOMAIN pkts /\ pkts[k].at = "ready"
  BY DEF Published, InFlight
<1>2. End(k) <= pread + Size - 1 /\ End(k) \in Nat
  BY <1>1, PacketTypes DEF Space
<1> QED
  BY <1>2, RingBufAssumption, SMT DEF Covers, Window, TypeOK

\* A packet covers its header and its body.
LEMMA Inside ==
  ASSUME TypeOK, NEW k \in DOMAIN pkts
  PROVE  /\ pkts[k].start \in Nat /\ Covers(k, pkts[k].start)
         /\ \A j \in 1..Body[k] : pkts[k].start + j \in Nat /\ Covers(k, pkts[k].start + j)
         /\ \A p \in Nat : Covers(k, p) =>
              p = pkts[k].start \/ \E j \in 1..Body[k] : p = pkts[k].start + j
<1>1. pkts[k].start \in Nat /\ Body[k] \in Nat
  BY PacketTypes
<1>2. ASSUME NEW p \in Nat, Covers(k, p)
      PROVE  p = pkts[k].start \/ \E j \in 1..Body[k] : p = pkts[k].start + j
  <2>1. p = pkts[k].start \/ (p - pkts[k].start \in 1..Body[k] /\ p = pkts[k].start + (p - pkts[k].start))
    BY <1>1, <1>2, SMT DEF Covers, End
  <2> QED
    BY <2>1
<1>3. /\ Covers(k, pkts[k].start)
      /\ \A j \in 1..Body[k] : pkts[k].start + j \in Nat /\ Covers(k, pkts[k].start + j)
  BY <1>1, SMT DEF Covers, End
<1> QED
  BY <1>1, <1>2, <1>3

\* A packet that was not pushed is ahead of the saver, and so of pread.
LEMMA UnpushedAhead ==
  ASSUME TypeOK, Layout, Space, RefsHeld, StrongRefsStay, SlotsAhead, Unborn, SaverAt,
         NEW k \in InFlight
  PROVE  pread <= pkts[k].start
<1>0. /\ k \in DOMAIN pkts /\ k \notin Published /\ pkts[k].start \in Nat /\ k \in Nat
      /\ DOMAIN pkts = 1..Len(pkts) /\ Len(pkts) \in Nat /\ saved \in Nat /\ pread \in Nat
  BY PacketTypes, SMT DEF InFlight, Published, TypeOK
<1>1. CASE sref = NoRef
  BY <1>0, <1>1, SMT DEF Unborn
<1>2. CASE sref # NoRef
  <2>1. pread <= StartOf(saved + 1)
    BY <1>2, SaverInWindow DEF SaverAt
  <2>2. ~(k \in 1..saved)
    BY <1>0 DEF SaverAt
  <2>3. saved + 1 \in DOMAIN pkts /\ (saved + 1 = k \/ saved + 1 < k)
    BY <1>0, <2>2, SMT
  <2>4. StartOf(saved + 1) = pkts[saved + 1].start
    BY <2>3 DEF StartOf
  <2>5. /\ pkts[saved + 1].start \in Nat /\ End(saved + 1) \in Nat
        /\ End(saved + 1) > pkts[saved + 1].start
    BY <2>3, PacketTypes
  <2>6. saved + 1 < k => End(saved + 1) <= pkts[k].start
    BY <1>0, <2>3 DEF Layout
  <2> QED
    BY <1>0, <2>1, <2>3, <2>4, <2>5, <2>6, SMT
<1> QED
  BY <1>1, <1>2

\* What a cell of the lap is after polar_ringbuf_set_pkt_length, and after the
\* packet is written.
LEMMA SetLenIs ==
  ASSUME TypeOK, NEW k \in InFlight, pkts[k].start \in Window, SetPktLen(k)
  PROVE  /\ cell' \in [0..(Size - 1) -> CellRecord]
         /\ ~Written(cell'[pkts[k].start % Size])
         /\ \A p \in Window : p # pkts[k].start => cell'[p % Size] = cell[p % Size]
<1>0. /\ cell \in [0..(Size - 1) -> CellRecord] /\ pread \in Nat
      /\ k \in DOMAIN pkts /\ pkts[k].start \in Nat /\ Body[k] \in 0..MaxBody
  <2>1. k \in DOMAIN pkts
    BY DEF InFlight
  <2>2. pkts[k].start \in Nat /\ Body[k] \in Nat /\ Body[k] <= MaxBody /\ MaxBody \in Nat
    BY <2>1, PacketTypes, RingBufAssumption
  <2>3. cell \in [0..(Size - 1) -> CellRecord] /\ pread \in Nat
    BY DEF TypeOK, CellRecord
  <2> QED
    BY <2>1, <2>2, <2>3, SMT
<1> DEFINE o == pkts[k].start % Size
           e == [[cell[o] EXCEPT !.body = Body[k]] EXCEPT !.state = "len"]
<1>1. o \in 0..(Size - 1)
  BY <1>0, DivMod
<1>2. cell[o] \in CellRecord
  BY <1>0, <1>1
<1>3. e \in CellRecord /\ e.state = "len"
  BY <1>0, <1>2 DEF CellRecord
<1>4. cell' = [cell EXCEPT ![o] = e]
  <2>1. cell' = [cell EXCEPT ![o].body = Body[k], ![o].state = "len"]
    BY DEF SetPktLen, SetPktLength
  <2> QED
    BY <1>0, <1>1, <2>1
<1> HIDE DEF e
<1>5. cell' \in [0..(Size - 1) -> CellRecord] /\ cell'[o] = e
  BY <1>0, <1>1, <1>3, <1>4
<1>6. ASSUME NEW p \in Window, p # pkts[k].start PROVE cell'[p % Size] = cell[p % Size]
  <2>1. p % Size # o /\ p % Size \in 0..(Size - 1)
    <3>1. p \in Nat
      BY <1>0, RingBufAssumption, SMT DEF Window
    <3> QED
      BY <1>6, <3>1, OneCellEach, DivMod
  <2> QED
    BY <1>0, <1>4, <2>1
<1>7. ~Written(cell'[o])
  BY <1>3, <1>5 DEF Written
<1> QED
  BY <1>5, <1>6, <1>7

\* A push writes the cells of its packet, header and body, and no other.
LEMMA WriteIs ==
  ASSUME TypeOK, NEW k \in InFlight, SendQueuePush(k),
         \A p \in Nat : Covers(k, p) => p \in Window
  PROVE  /\ cell' \in [0..(Size - 1) -> CellRecord]
         /\ cell'[pkts[k].start % Size] = Header(k)
         /\ \A j \in 1..Body[k] : cell'[(pkts[k].start + j) % Size] = BodyCell(k)
         /\ \A p \in Window : ~Covers(k, p) => cell'[p % Size] = cell[p % Size]
<1>0. k \in DOMAIN pkts /\ cell \in [0..(Size - 1) -> CellRecord] /\ pread \in Nat
  BY DEF InFlight, TypeOK, CellRecord
<1>i. /\ pkts[k].start \in Nat /\ pkts[k].start \in Window
      /\ \A j \in 1..Body[k] : pkts[k].start + j \in Window
  BY <1>0, Inside
<1>w. \A p \in Window : p \in Nat /\ p % Size \in 0..(Size - 1)
  BY <1>0, DivMod, RingBufAssumption, SMT DEF Window
<1> DEFINE o == pkts[k].start % Size
           B == {(pkts[k].start + j) % Size : j \in 1..Body[k]}
<1>1. cell' = [i \in 0..(Size - 1) |->
                 IF i = o THEN Header(k) ELSE IF i \in B THEN BodyCell(k) ELSE cell[i]]
  BY DEF SendQueuePush, WritePkt, Header, BodyCell
<1>2. Header(k) \in CellRecord /\ BodyCell(k) \in CellRecord
  <2>1. k \in 0..MaxRecords /\ Body[k] \in 0..MaxBody /\ 0 \in 0..MaxBody
    <3>1. /\ k \in Nat /\ Len(pkts) \in Nat /\ DOMAIN pkts = 1..Len(pkts)
          /\ Body[k] \in Nat /\ Body[k] <= MaxBody
      BY <1>0, PacketTypes
    <3>2. Len(pkts) <= MaxRecords /\ MaxRecords \in Nat /\ MaxBody \in Nat
      BY RingBufAssumption, XlogQueueAssumption DEF TypeOK
    <3> QED
      BY <1>0, <3>1, <3>2, SMT
  <2> QED
    BY <2>1 DEF Header, BodyCell, CellRecord
<1>3. cell' \in [0..(Size - 1) -> CellRecord]
  BY <1>0, <1>1, <1>2
<1>4. cell'[o] = Header(k)
  BY <1>1, <1>i, <1>w
<1>5. ASSUME NEW j \in 1..Body[k] PROVE cell'[(pkts[k].start + j) % Size] = BodyCell(k)
  <2>1. /\ pkts[k].start + j \in Window /\ pkts[k].start + j # pkts[k].start
        /\ pkts[k].start + j \in Nat
    BY <1>i, <1>w, SMT
  <2>2. (pkts[k].start + j) % Size # o /\ (pkts[k].start + j) % Size \in 0..(Size - 1)
    BY <1>i, <1>w, <2>1, OneCellEach
  <2>3. (pkts[k].start + j) % Size \in B
    OBVIOUS
  <2> HIDE DEF B, o
  <2> QED
    BY <1>1, <2>2, <2>3
<1>6. ASSUME NEW p \in Window, ~Covers(k, p) PROVE cell'[p % Size] = cell[p % Size]
  <2>1. p # pkts[k].start /\ \A j \in 1..Body[k] : p # pkts[k].start + j
    BY <1>0, <1>6, Inside
  <2>2. p % Size # o /\ p % Size \in 0..(Size - 1)
    BY <1>i, <1>w, <2>1, OneCellEach
  <2>3. \A j \in 1..Body[k] : p % Size # (pkts[k].start + j) % Size
    BY <1>i, <2>1, OneCellEach
  <2>4. p % Size \notin B
    BY <2>3
  <2> HIDE DEF B, o
  <2> QED
    BY <1>1, <2>2, <2>4
<1> QED
  BY <1>3, <1>4, <1>5, <1>6

\* The cells of the window hold the pushed packets after every step: clearing
\* and writing never touch a packet that somebody may still read.
LEMMA CellsStep ==
  ASSUME TypeOK, Layout, Space, RefsHeld, StrongRefsStay, SlotsAhead, Unborn, SaverAt, Cells,
         [Next]_vars
  PROVE  Cells' /\ cell' \in [0..(Size - 1) -> CellRecord]
<1> DEFINE Holding(c, k, from) ==
             /\ pkts[k].start >= from => c[pkts[k].start % Size] = Header(k)
             /\ \A j \in 1..Body[k] :
                  pkts[k].start + j >= from => c[(pkts[k].start + j) % Size] = BodyCell(k)
           Quiet(c, from, P) ==
             \A p \in from..(from + Size - 1) :
               (\A k \in P : ~Covers(k, p)) => ~Written(c[p % Size])
<1>0. /\ pread \in Nat /\ pread' \in Nat /\ Size \in Nat
      /\ cell \in [0..(Size - 1) -> CellRecord]
  BY PreadSteps, RingBufAssumption DEF TypeOK, CellRecord
<1>n. pread \in Nat /\ pread' \in Nat /\ Size \in Nat /\ pread <= pread'
  BY PreadSteps, RingBufAssumption DEF TypeOK
<1>1. (\A k \in Published : Holding(cell, k, pread)) /\ Quiet(cell, pread, Published)
  BY DEF Cells, CellAt
<1>2. Published \subseteq DOMAIN pkts /\ InFlight \subseteq DOMAIN pkts
  BY DEF Published, InFlight
<1>3. ASSUME NEW P \in SUBSET DOMAIN pkts, Published' = P,
             \A k \in P : Holding(cell', k, pread'), Quiet(cell', pread', P)
      PROVE  Cells'
  <2>1. \A k \in P : /\ pkts'[k].start = pkts[k].start
                     /\ \A p : Covers(k, p)' <=> Covers(k, p)
    <3> SUFFICES ASSUME NEW k \in P
                 PROVE  /\ pkts'[k].start = pkts[k].start
                        /\ \A p : Covers(k, p)' <=> Covers(k, p)
      OBVIOUS
    <3>1. pkts'[k].start = pkts[k].start /\ End(k)' = End(k)
      BY Grows
    <3> QED
      BY <3>1 DEF Covers
  <2> QED
    BY <1>3, <2>1 DEF Cells, CellAt, Header, BodyCell
<1>4. ASSUME NEW p \in Nat, p >= pread, NEW m \in Published, Covers(m, p) PROVE p \in Window
  BY <1>4, PushedEnds
<1>5. CASE UNCHANGED <<pread, cell>> /\ Published' = Published
  BY <1>0, <1>1, <1>2, <1>3, <1>5
<1>6. CASE Clears
  <2>0. /\ pread <= pread' /\ pread' <= pread + Size - 1 /\ UNCHANGED pkts
        /\ \A p \in pread'..(pread + Size - 1) : cell'[p % Size] = cell[p % Size]
        /\ \A p \in (pread + Size)..(pread' + Size - 1) : cell'[p % Size] = FreeCell
        /\ cell' \in [0..(Size - 1) -> CellRecord]
    BY <1>6, PreadSteps DEF Clears
  <2>1. Published' = Published
    BY <2>0 DEF Published, InFlight
  <2>2. ASSUME NEW k \in Published PROVE Holding(cell', k, pread')
    <3>1. ASSUME NEW p \in Nat, Covers(k, p), p >= pread'
          PROVE  p >= pread /\ cell'[p % Size] = cell[p % Size]
      <4>1. p >= pread
        BY <1>0, <2>0, <3>1, SMT
      <4>2. p \in Window
        BY <1>4, <3>1, <4>1
      <4>3. p \in pread'..(pread + Size - 1)
        BY <1>0, <3>1, <4>2, SMT DEF Window
      <4> QED
        BY <2>0, <4>1, <4>3
    <3>2. /\ pkts[k].start \in Nat /\ Covers(k, pkts[k].start)
          /\ \A j \in 1..Body[k] : pkts[k].start + j \in Nat /\ Covers(k, pkts[k].start + j)
      BY <1>2, Inside
    <3> QED
      BY <1>1, <3>1, <3>2
  <2>b. PICK b \in Nat : b = pread' /\ pread <= b
    BY <1>n
  <2>3. ASSUME NEW p \in b..(b + Size - 1), \A k \in Published : ~Covers(k, p)
        PROVE  ~Written(cell'[p % Size])
    <3>1. CASE p <= pread + Size - 1
      <4>1. p \in b..(pread + Size - 1) /\ p \in pread..(pread + Size - 1)
        BY <1>n, <2>b, <3>1, SMT
      <4>2. ~Written(cell[p % Size]) /\ cell'[p % Size] = cell[p % Size]
        BY <1>1, <2>0, <2>b, <2>3, <4>1
      <4> QED
        BY <4>2
    <3>2. CASE ~(p <= pread + Size - 1)
      <4>1. p \in (pread + Size)..(b + Size - 1)
        BY <1>n, <3>2, SMT
      <4>2. cell'[p % Size] = FreeCell
        BY <2>0, <2>b, <4>1
      <4> QED
        BY <4>2, SMT DEF FreeCell, Written
    <3> QED
      BY <3>1, <3>2
  <2> QED
    BY <1>2, <1>3, <2>0, <2>1, <2>2, <2>b, <2>3
<1>7. ASSUME NEW k \in InFlight, UNCHANGED pread, SetPktLen(k) \/ SendQueuePush(k)
      PROVE  \A p \in Nat : Covers(k, p) => p \in Window
  <2>1. pread <= pkts[k].start /\ k \in DOMAIN pkts
    BY <1>2, UnpushedAhead
  <2>2. End(k) \in Nat /\ pkts[k].start \in Nat /\ Body[k] \in Nat
    BY <2>1, PacketTypes
  <2>3. End(k) <= pread + Size - 1
    <3>1. CASE SetPktLen(k)
      <4>1. pkts[k].start + 1 + Body[k] - pread <= Size - 1
        BY <3>1 DEF SetPktLen, SpaceFor
      <4> QED
        BY <1>n, <2>2, <4>1, SMT DEF End
    <3>2. CASE SendQueuePush(k)
      BY <2>1, <3>2 DEF SendQueuePush, Space
    <3> QED
      BY <1>7, <3>1, <3>2
  <2> QED
    BY <1>0, <2>1, <2>2, <2>3, SMT DEF Covers, Window
<1>8. ASSUME NEW k \in InFlight, UNCHANGED pread, SetPktLen(k)
      PROVE  Cells' /\ cell' \in [0..(Size - 1) -> CellRecord]
  <2>0. k \in DOMAIN pkts /\ k \notin Published
    BY <1>2 DEF Published
  <2>1. pkts[k].start \in Window /\ Covers(k, pkts[k].start)
    BY <1>7, <1>8, <2>0, Inside
  <2>2. /\ cell' \in [0..(Size - 1) -> CellRecord]
        /\ ~Written(cell'[pkts[k].start % Size])
        /\ \A p \in Window : p # pkts[k].start => cell'[p % Size] = cell[p % Size]
    BY <1>8, <2>1, SetLenIs
  <2>3. Published' = Published
    <3>1. InsertStep(k, "push")
      BY <1>8 DEF SetPktLen
    <3>2. /\ DOMAIN pkts' = DOMAIN pkts
          /\ \A j \in DOMAIN pkts : pkts'[j].at = IF j = k THEN "push" ELSE pkts[j].at
      BY <2>0, <3>1, InsertStepIs
    <3>3. pkts[k].at # "ready"
      BY DEF InFlight
    <3> QED
      BY <3>2, <3>3 DEF Published, InFlight
  <2>4. ASSUME NEW m \in Published PROVE Holding(cell', m, pread')
    <3>1. ASSUME NEW p \in Nat, Covers(m, p), p >= pread PROVE cell'[p % Size] = cell[p % Size]
      <4>0. m \in DOMAIN pkts /\ m # k
        BY <1>2, <2>0
      <4>1. p \in Window /\ p # pkts[k].start
        BY <1>4, <2>0, <2>1, <3>1, <4>0, Disjoint
      <4> QED
        BY <2>2, <4>1
    <3>2. /\ pkts[m].start \in Nat /\ Covers(m, pkts[m].start)
          /\ \A j \in 1..Body[m] : pkts[m].start + j \in Nat /\ Covers(m, pkts[m].start + j)
      BY <1>2, Inside
    <3> QED
      BY <1>1, <1>8, <3>1, <3>2
  <2>5. ASSUME NEW p \in pread..(pread + Size - 1), \A m \in Published : ~Covers(m, p)
        PROVE  ~Written(cell'[p % Size])
    <3>1. p \in Window /\ ~Written(cell[p % Size])
      BY <1>1, <2>5 DEF Window
    <3> QED
      BY <2>2, <3>1
  <2> QED
    BY <1>2, <1>3, <1>8, <2>2, <2>3, <2>4, <2>5
<1>9. ASSUME NEW k \in InFlight, UNCHANGED pread, SendQueuePush(k)
      PROVE  Cells' /\ cell' \in [0..(Size - 1) -> CellRecord]
  <2>0. k \in DOMAIN pkts /\ k \notin Published
    BY <1>2 DEF Published
  <2>1. \A p \in Nat : Covers(k, p) => p \in Window
    BY <1>7, <1>9
  <2>2. /\ cell' \in [0..(Size - 1) -> CellRecord]
        /\ cell'[pkts[k].start % Size] = Header(k)
        /\ \A j \in 1..Body[k] : cell'[(pkts[k].start + j) % Size] = BodyCell(k)
        /\ \A p \in Window : ~Covers(k, p) => cell'[p % Size] = cell[p % Size]
    BY <1>9, <2>1, WriteIs
  <2>3. Published' = Published \cup {k}
    <3>1. InsertStep(k, "ready")
      BY <1>9 DEF SendQueuePush
    <3>2. /\ DOMAIN pkts' = DOMAIN pkts
          /\ \A j \in DOMAIN pkts : pkts'[j].at = IF j = k THEN "ready" ELSE pkts[j].at
      BY <2>0, <3>1, InsertStepIs
    <3> QED
      BY <2>0, <3>2 DEF Published, InFlight
  <2>4. ASSUME NEW m \in Published PROVE Holding(cell', m, pread')
    <3>1. ASSUME NEW p \in Nat, Covers(m, p), p >= pread PROVE cell'[p % Size] = cell[p % Size]
      <4>1. p \in Window /\ ~Covers(k, p)
        BY <1>2, <1>4, <2>0, <3>1, Disjoint
      <4> QED
        BY <2>2, <4>1
    <3>2. /\ pkts[m].start \in Nat /\ Covers(m, pkts[m].start)
          /\ \A j \in 1..Body[m] : pkts[m].start + j \in Nat /\ Covers(m, pkts[m].start + j)
      BY <1>2, Inside
    <3> QED
      BY <1>1, <1>9, <3>1, <3>2
  <2>5. \A m \in Published \cup {k} : Holding(cell', m, pread')
    <3>1. Holding(cell', k, pread')
      BY <2>2
    <3> HIDE DEF Holding
    <3> QED
      BY <2>4, <3>1
  <2>6. ASSUME NEW p \in pread..(pread + Size - 1), \A m \in Published \cup {k} : ~Covers(m, p)
        PROVE  ~Written(cell'[p % Size])
    <3>1. p \in Window /\ ~Written(cell[p % Size]) /\ ~Covers(k, p)
      BY <1>1, <2>6 DEF Window
    <3> QED
      BY <2>2, <3>1
  <2>7. Published \cup {k} \in SUBSET DOMAIN pkts
    BY <1>2, <2>0
  <2>8. Quiet(cell', pread', Published \cup {k})
    BY <1>9, <2>6
  <2> HIDE DEF Quiet, Holding
  <2> QED
    BY <1>3, <2>2, <2>3, <2>5, <2>7, <2>8
<1>10. ASSUME NEW k \in InFlight, SendQueuePush(k) PROVE UNCHANGED pread
  BY <1>10 DEF SendQueuePush
<1> QED
  BY <1>5, <1>6, <1>8, <1>9, <1>10, PreadSteps, PublishedSteps

-----------------------------------------------------------------------------
(* The walsenders. *)

\* Where a walsender is, unless it is astray or its reference is gone.
LEMMA ReaderAt ==
  ASSUME TypeOK, Layout, RefsHeld, SlotsAhead, Readers, NEW w \in Senders,
         w \notin astray, RefMatch(wref[w])
  PROVE  /\ Position(wref[w]) \in Nat /\ pread <= Position(wref[w])
         /\ Position(wref[w]) <= pread + Size - 1
         /\ \E j \in 1..(Len(pkts) + 1) :
              Position(wref[w]) = StartOf(j) /\ (Settled(w) => j <= sent[w] + 1)
<1>1. /\ Position(wref[w]) <= pread + Size - 1
      /\ \E j \in 1..(Len(pkts) + 1) :
           Position(wref[w]) = StartOf(j) /\ (Settled(w) => j <= sent[w] + 1)
  BY DEF Readers, Placed
<1>2. Position(wref[w]) \in Nat /\ wref[w].slot \in Slots
  BY RefPosition
<1>3. Holds(wref[w], wref[w].slot)
  BY DEF Holds
<1>4. slot[wref[w].slot].num # 0
  BY <1>2, <1>3, OneOwner, SMT
<1>5. pread <= Position(wref[w])
  BY <1>2, <1>4 DEF SlotsAhead, Position
<1> QED
  BY <1>1, <1>2, <1>5

\* What it reads there is the packet that starts there, and it is pushed.
LEMMA ReaderReads ==
  ASSUME TypeOK, Layout, Space, RefsHeld, SlotsAhead, Readers, Cells, NEW w \in Senders,
         w \notin astray, RefMatch(wref[w]), NEW h \in HeadersAt(wref[w]), LooksReady(h)
  PROVE  \E j \in Published :
           /\ h.state = "ready" /\ h.pkt = j /\ j \in Nat /\ j + 1 \in 1..(Len(pkts) + 1)
           /\ Settled(w) => j <= sent[w] + 1
           /\ Position(wref[w]) + 1 + h.body = StartOf(j + 1)
           /\ StartOf(j + 1) <= pread + Size - 1
<1>0. /\ Position(wref[w]) \in Nat /\ pread <= Position(wref[w])
      /\ Position(wref[w]) <= pread + Size - 1
  BY ReaderAt
<1>1. PICK j \in 1..(Len(pkts) + 1) :
        Position(wref[w]) = StartOf(j) /\ (Settled(w) => j <= sent[w] + 1)
  BY ReaderAt
<1>w. Written(CellAt(Position(wref[w])))
  BY <1>0, HeaderTypes DEF HeadersAt
<1>2. /\ j \in Published /\ Position(wref[w]) + 1 + Body[j] = StartOf(j + 1)
      /\ \A x \in Headers(CellAt(Position(wref[w]))) :
           x.state = "ready" /\ x.pkt = j /\ x.body = Body[j]
  BY <1>0, <1>1, <1>w, AtStart
<1>3. h.state = "ready" /\ h.pkt = j /\ h.body = Body[j]
  BY <1>2 DEF HeadersAt
<1>4. j \in DOMAIN pkts /\ pkts[j].at = "ready"
  BY <1>2 DEF Published, InFlight
<1>5. j \in Nat /\ j + 1 \in 1..(Len(pkts) + 1)
  BY <1>4, PacketTypes, SMT
<1>6. End(j) = StartOf(j + 1) /\ End(j) <= pread + Size - 1
  BY <1>4, PacketTypes DEF Layout, Space
<1> QED
  BY <1>1, <1>2, <1>3, <1>5, <1>6

\* A position where a packet starts, or the end of them all.
LEMMA OnPacketIs ==
  ASSUME TypeOK, NEW p, OnPacket(p)
  PROVE  \E j \in 1..(Len(pkts) + 1) : p = StartOf(j)
<1>1. CASE p = pwrite
  <2>1. /\ Len(pkts) + 1 \notin DOMAIN pkts
        /\ Len(pkts) + 1 \in 1..(Len(pkts) + 1)
    BY PacketTypes, SMT
  <2> QED
    BY <1>1, <2>1 DEF StartOf
<1>2. ASSUME NEW k \in DOMAIN pkts, pkts[k].start = p
      PROVE  k \in 1..(Len(pkts) + 1) /\ p = StartOf(k)
  BY <1>2, PacketTypes, SMT DEF StartOf
<1> QED
  BY <1>1, <1>2 DEF OnPacket

\* A walsender that is at packet j after a step.
LEMMA Arrives ==
  ASSUME TypeOK, [Next]_vars, UNCHANGED pread, NEW w \in Senders,
         Position(wref[w])' <= pread + Size - 1,
         NEW j \in 1..(Len(pkts) + 1), Position(wref[w])' = StartOf(j),
         Settled(w)' => j <= sent'[w] + 1
  PROVE  Placed(w)'
<1>1. StartOf(j)' = StartOf(j) /\ j \in 1..(Len(pkts') + 1)
  BY Grows, PacketTypes, SMT
<1> QED
  BY <1>1 DEF Placed

\* A walsender that is off has no reference, and one that is to check has
\* not succeeded yet.
LEMMA IdleStep ==
  ASSUME TypeOK, Readers, [Next]_vars, NEW w \in Senders
  PROVE  Idle(w)'
<1>0. /\ wpc \in [Senders -> {"off", "check", "scan", "send", "raw", "more"}]
      /\ wref \in [Senders -> Refs] /\ checked \in [Senders -> BOOLEAN]
  BY DEF TypeOK
<1>i. Idle(w)
  BY DEF Readers
<1>1. CASE ~SenderStep(w)
  <2>1. wpc'[w] = wpc[w] /\ wref'[w] = wref[w] /\ checked'[w] = checked[w]
    BY <1>1, SenderStays DEF SenderSame
  <2> QED
    BY <1>i, <2>1 DEF Idle
<1>2. CASE WalSndStart(w) \/ CheckNewRef(w)
  <2>1. wpc'[w] = "check" /\ ~checked'[w]
    BY <1>0, <1>i, <1>2 DEF WalSndStart, CheckNewRef, WGoto, Idle
  <2> QED
    BY <2>1 DEF Idle
<1>3. CASE WalSndExit(w)
  <2>1. wref'[w] = NoRef /\ ~checked'[w]
    BY <1>0, <1>3 DEF WalSndExit
  <2> QED
    BY <2>1 DEF Idle
<1>4. CASE CheckPromote(w) \/ CheckScan(w) \/ RawDataPop(w) \/ SendEnd(w)
  <2>1. wpc'[w] \in {"scan", "send", "more"}
    BY <1>0, <1>4 DEF CheckPromote, CheckScan, RawDataPop, SendEnd, WGoto
  <2> QED
    BY <2>1 DEF Idle
<1>5. CASE CheckEnd(w) \/ SendPromote(w)
  <2>1. wpc'[w] \in {"send", "raw"} \/ (wpc'[w] = "check" /\ ~checked'[w])
    BY <1>0, <1>5 DEF CheckEnd, SendPromote, WGoto, SendFromFile
  <2> QED
    BY <2>1 DEF Idle
<1> QED
  BY <1>1, <1>2, <1>3, <1>4, <1>5 DEF SenderStep, Sending

\* While others step, a walsender stays where it is.
LEMMA PlacedRests ==
  ASSUME TypeOK, Layout, Space, RefsHeld, StrongRefsStay, SlotsAhead, Unborn, SaverAt, Readers,
         [Next]_vars, NEW w \in Senders, ~SenderStep(w)
  PROVE  Placed(w)'
<1>0. /\ pread \in Nat /\ pread' \in Nat /\ Size \in Nat /\ pread <= pread'
  BY PreadSteps, RingBufAssumption DEF TypeOK
<1>1. /\ wpc'[w] = wpc[w] /\ wref'[w] = wref[w] /\ sent'[w] = sent[w]
      /\ checked'[w] = checked[w] /\ (w \in astray' <=> w \in astray)
  BY SenderStays DEF SenderSame
<1> SUFFICES ASSUME w \notin astray, RefMatch(wref[w])' PROVE Placed(w)'
  BY <1>1 DEF Placed
<1>2. RefMatch(wref[w]) /\ Position(wref[w])' = Position(wref[w]) /\ Position(wref[w]) \in Nat
  BY <1>1, WrefStays, RefPosition DEF Position
<1>3. PICK j \in 1..(Len(pkts) + 1) :
        Position(wref[w]) = StartOf(j) /\ (Settled(w) => j <= sent[w] + 1)
  BY <1>2, ReaderAt
<1>4. Position(wref[w])' <= pread' + Size - 1
  <2>1. Position(wref[w]) <= pread + Size - 1
    BY <1>2, ReaderAt
  <2> QED
    BY <1>0, <1>2, <2>1, SMT
<1>5. StartOf(j)' = StartOf(j) /\ j \in 1..(Len(pkts') + 1)
  BY Grows, PacketTypes, SMT
<1>6. Settled(w)' => j <= sent'[w] + 1
  BY <1>1, <1>3 DEF Settled
<1> QED
  BY <1>2, <1>3, <1>4, <1>5, <1>6 DEF Placed

\* A walsender's own steps, from packet to packet.
LEMMA PlacedMoves ==
  ASSUME TypeOK, Layout, Space, RefsHeld, StrongRefsStay, SlotsAhead, Unborn, SaverAt, Cells,
         Readers, [Next]_vars, NEW w \in Senders, SenderStep(w)
  PROVE  Placed(w)'
<1>0. /\ pread \in Nat /\ Size \in Nat /\ Size >= 1 /\ sent[w] \in Nat
      /\ wpc \in [Senders -> {"off", "check", "scan", "send", "raw", "more"}]
      /\ wref \in [Senders -> Refs] /\ sent \in [Senders -> 0..MaxRecords]
      /\ checked \in [Senders -> BOOLEAN] /\ slot \in [Slots -> SlotRecord]
  <2>1. /\ pread \in Nat /\ sent \in [Senders -> 0..MaxRecords]
        /\ wpc \in [Senders -> {"off", "check", "scan", "send", "raw", "more"}]
        /\ wref \in [Senders -> Refs] /\ checked \in [Senders -> BOOLEAN]
        /\ slot \in [Slots -> SlotRecord]
    BY DEF TypeOK, SlotRecord
  <2> QED
    BY <2>1, RingBufAssumption, XlogQueueAssumption, SMT
<1>i. Idle(w)
  BY DEF Readers
<1> SUFFICES ASSUME w \notin astray', RefMatch(wref[w])' PROVE Placed(w)'
  BY DEF Placed
<1>1. CASE WalSndStart(w) \/ CheckNewRef(w)
  <2>1. /\ NewRef(FALSE) /\ wref' = [wref EXCEPT ![w] = MadeRef]
        /\ wpc[w] \in {"off", "check"} /\ checked' = checked /\ UNCHANGED pread
        /\ astray' = IF OnPacket(pread) THEN astray \ {w} ELSE astray \cup {w}
    BY <1>1 DEF WalSndStart, CheckNewRef, SenderNewRef
  <2>2. wpc'[w] = "check" /\ ~checked'[w]
    BY <1>0, <1>1, <1>i, <2>1 DEF WalSndStart, CheckNewRef, WGoto, Idle
  <2>3. wref'[w] = MadeRef
    BY <1>0, <2>1
  <2>4. slot' = [slot EXCEPT ![MadeRef.slot] = [num |-> refNum + 1, strong |-> FALSE,
                                                pread |-> pread]]
        /\ MadeRef.slot \in Slots
    BY <2>1, NewRefIs
  <2>5. Position(wref[w])' = pread
    BY <1>0, <2>3, <2>4 DEF Position
  <2>6. OnPacket(pread)
    BY <2>1
  <2>7. PICK j \in 1..(Len(pkts) + 1) : pread = StartOf(j)
    BY <2>6, OnPacketIs
  <2>8. pread <= pread + Size - 1
    BY <1>0, SMT
  <2>9. ~Settled(w)'
    BY <2>2 DEF Settled
  <2> QED
    BY <2>1, <2>5, <2>7, <2>8, <2>9, Arrives
<1>2. CASE WalSndExit(w)
  <2>1. wref'[w] = NoRef
    BY <1>0, <1>2 DEF WalSndExit
  <2>2. NoRef.slot \notin Slots
    BY RingBufAssumption, SMT DEF NoRef, Slots
  <2> QED
    BY <2>1, <2>2 DEF RefMatch
<1>3. CASE SendPromote(w) /\ ~RefMatch(wref[w])
  <2>1. UNCHANGED <<slot, wref>>
    BY <1>3 DEF SendPromote
  <2> QED
    BY <1>3, <2>1 DEF RefMatch
<1>4. CASE CheckPromote(w) \/ SendEnd(w) \/ (SendPromote(w) /\ RefMatch(wref[w]))
  <2>1. UNCHANGED <<pread, wref, sent, checked, astray>>
    BY <1>4 DEF CheckPromote, SendPromote, SendEnd
  <2>2. RefMatch(wref[w]) /\ slot'[wref[w].slot].pread = slot[wref[w].slot].pread
    BY <1>4, SenderStrength
  <2>3. /\ Position(wref[w]) <= pread + Size - 1 /\ Position(wref[w])' = Position(wref[w])
    BY <2>1, <2>2, ReaderAt DEF Position
  <2>4. PICK j \in 1..(Len(pkts) + 1) :
          Position(wref[w]) = StartOf(j) /\ (Settled(w) => j <= sent[w] + 1)
    BY <2>1, <2>2, ReaderAt
  <2>5. Settled(w)' => Settled(w)
    <3>1. CASE CheckPromote(w)
      BY <1>0, <2>1, <3>1 DEF CheckPromote, WGoto, Settled
    <3>2. CASE SendEnd(w) \/ SendPromote(w)
      BY <3>2 DEF SendEnd, SendPromote, Settled
    <3> QED
      BY <1>4, <3>1, <3>2
  <2> QED
    BY <2>1, <2>3, <2>4, <2>5, Arrives
<1>5. CASE CheckScan(w) \/ RawDataPop(w)
  <2>1. UNCHANGED <<pread, wref, astray>>
    BY <1>5 DEF CheckScan, RawDataPop
  <2>2. RefMatch(wref[w])
    BY <1>5, SenderPasses
  <2>3. PICK h \in HeadersAt(wref[w]) :
          /\ LooksReady(h) /\ PassesOver(w, h)
          /\ slot'[wref[w].slot].pread = slot[wref[w].slot].pread + 1 + h.body
    BY <1>5, SenderPasses
  <2>4. PICK j \in Published :
          /\ h.state = "ready" /\ h.pkt = j /\ j \in Nat /\ j + 1 \in 1..(Len(pkts) + 1)
          /\ Position(wref[w]) + 1 + h.body = StartOf(j + 1)
          /\ StartOf(j + 1) <= pread + Size - 1
    BY <2>1, <2>2, <2>3, ReaderReads
  <2>5. Position(wref[w])' = StartOf(j + 1)
    BY <2>1, <2>3, <2>4 DEF Position
  <2>6. j + 1 <= sent'[w] + 1
    <3>1. CASE CheckScan(w)
      <4>1. h.pkt - 1 < sent[w] /\ sent' = sent
        BY <2>3, <2>4, <3>1 DEF PassesOver, Passed, CheckScan
      <4> QED
        BY <1>0, <2>4, <4>1, SMT
    <3>2. CASE RawDataPop(w)
      <4>1. sent'[w] = j
        BY <1>0, <2>3, <2>4, <3>2 DEF PassesOver
      <4> QED
        BY <2>4, <4>1, SMT
    <3> QED
      BY <1>5, <3>1, <3>2
  <2> QED
    BY <2>1, <2>4, <2>5, <2>6, Arrives
<1>6. CASE CheckEnd(w)
  <2>1. UNCHANGED <<pread, wref, astray>> /\ wpc[w] = "scan"
    BY <1>6 DEF CheckEnd
  <2>2. RefMatch(wref[w]) /\ slot'[wref[w].slot].pread = slot[wref[w].slot].pread
    BY <1>6, SenderStrength
  <2>3. /\ Position(wref[w]) <= pread + Size - 1 /\ Position(wref[w])' = Position(wref[w])
    BY <2>1, <2>2, ReaderAt DEF Position
  <2>4. PICK j \in 1..(Len(pkts) + 1) :
          Position(wref[w]) = StartOf(j) /\ (Settled(w) => j <= sent[w] + 1)
    BY <2>1, <2>2, ReaderAt
  <2>5. PICK h \in HeadersAt(wref[w]) :
          \/ ~(checked[w] \/ Reaches(w, h)) /\ wpc'[w] = "check" /\ ~checked'[w]
          \/ (checked[w] \/ Reaches(w, h)) /\ sent' = sent
    BY <1>0, <1>6 DEF CheckEnd, WGoto, SendFromFile
  <2>6. Settled(w)' => j <= sent'[w] + 1
    <3>1. CASE wpc'[w] = "check" /\ ~checked'[w]
      BY <3>1 DEF Settled
    <3>2. CASE checked[w] /\ sent' = sent
      BY <2>4, <3>2 DEF Settled
    <3>3. CASE Reaches(w, h) /\ sent' = sent
      <4>1. h.state = "ready" /\ h.pkt - 1 <= sent[w]
        BY <3>3 DEF Reaches
      <4>2. Written(CellAt(Position(wref[w]))) /\ Position(wref[w]) \in Nat
            /\ pread <= Position(wref[w])
        BY <2>1, <2>2, <2>5, <4>1, ReaderAt, HeaderTypes DEF HeadersAt, LooksReady
      <4>3. /\ j \in Published
            /\ \A x \in Headers(CellAt(Position(wref[w]))) :
                 x.state = "ready" /\ x.pkt = j /\ x.body = Body[j]
        BY <2>3, <2>4, <4>2, AtStart
      <4>4. h.pkt = j /\ j \in Nat
        BY <2>5, <4>3, PacketTypes DEF HeadersAt, Published
      <4> QED
        BY <1>0, <3>3, <4>1, <4>4, SMT
    <3> QED
      BY <2>5, <3>1, <3>2, <3>3
  <2> QED
    BY <2>1, <2>3, <2>4, <2>6, Arrives
<1> QED
  BY <1>1, <1>2, <1>3, <1>4, <1>5, <1>6 DEF SenderStep, Sending

\* All walsenders keep their places.
LEMMA ReadersStep ==
  ASSUME TypeOK, Layout, Space, RefsHeld, StrongRefsStay, SlotsAhead, Unborn, SaverAt, Cells,
         Readers, [Next]_vars
  PROVE  Readers'
BY IdleStep, PlacedRests, PlacedMoves DEF Readers

-----------------------------------------------------------------------------
(* Types, and the invariant. *)

\* What is flushed and what is asked for are among the records.
LEMMA FlushTyped ==
  ASSUME TypeOK, [Next]_vars
  PROVE  flushed' \in 0..Len(pkts') /\ request' \in flushed'..Len(pkts')
<1>0. /\ flushed \in 0..Len(pkts) /\ request \in flushed..Len(pkts) /\ Len(pkts) \in Nat
      /\ Len(pkts') \in Nat /\ Len(pkts) <= Len(pkts')
  BY PacketTypes, Grows DEF TypeOK
<1>1. CASE UNCHANGED flushVars
  BY <1>0, <1>1, SMT DEF flushVars
<1>2. CASE FlushRequest
  BY <1>0, <1>2, SMT DEF FlushRequest
<1>3. CASE XLogWrite
  BY <1>0, <1>3, SMT DEF XLogWrite
<1>4. UNCHANGED flushVars \/ XLogFlush
  <2>1. ASSUME Reserve \/ PrimarySave PROVE UNCHANGED flushVars
    BY <2>1 DEF Reserve, PrimarySave, SaverNewRef, SendQueuePop, SendQueueEmpty, KeepNewRef,
       KeepJump, KeepStep, KeepDone
  <2>2. ASSUME NEW k \in InFlight, XLogInsertRecord(k) PROVE UNCHANGED flushVars
    BY <2>2 DEF XLogInsertRecord, ReleaseInsertLock, WaitForSpace, SetPktLen, SendQueuePush
  <2>3. ASSUME NEW w \in Senders, SenderStep(w) PROVE UNCHANGED flushVars
    BY <2>3 DEF SenderStep, WalSndStart, WalSndExit, Sending, CheckPromote, CheckNewRef,
       CheckScan, CheckEnd, SendPromote, RawDataPop, SendEnd
  <2> QED
    BY <2>1, <2>2, <2>3 DEF Next, Inserting, vars, SenderStep
<1> QED
  BY <1>1, <1>2, <1>3, <1>4 DEF XLogFlush

\* A new reference has its type.
LEMMA MadeRefTyped ==
  ASSUME TypeOK, NEW strong \in BOOLEAN, NewRef(strong)
  PROVE  MadeRef \in Refs
<1>1. MadeRef.slot \in Slots /\ refNum \in Nat
  BY NewRefIs DEF TypeOK
<1>2. LeastFreeSlot \in 0..NumSlots
  BY <1>1, RingBufAssumption, SMT DEF MadeRef, Slots
<1> QED
  BY <1>1, <1>2, SMT DEF MadeRef, Refs

\* The slots keep their type.
LEMMA SlotTyped ==
  ASSUME TypeOK, StrongRefsStay, SaverAt, [Next]_vars
  PROVE  slot' \in [Slots -> SlotRecord]
<1>0. slot \in [Slots -> SlotRecord]
  BY DEF TypeOK, SlotRecord
<1>1. ASSUME NEW i \in Slots, NEW e \in SlotRecord, SlotStep(i, e)
      PROVE  slot' \in [Slots -> SlotRecord]
  <2>1. slot' = [slot EXCEPT ![i] = e]
    BY <1>1 DEF SlotStep
  <2> QED
    BY <1>0, <2>1
<1> QED
  BY <1>0, <1>1, SlotSteps

\* The variables of the saver keep their types.
LEMMA SaverTyped ==
  ASSUME TypeOK, StrongRefsStay, SaverAt, [Next]_vars
  PROVE  /\ saved' \in 0..MaxRecords /\ spc' \in {"pop", "keep", "step"}
         /\ sref' \in Refs /\ kref' \in Refs
         /\ popCount' \in 0..(KeepEvery - 1) /\ newPread' \in Nat
         /\ needUpdate' \in BOOLEAN /\ moved' \in BOOLEAN
<1> DEFINE G == /\ saved' \in 0..MaxRecords /\ spc' \in {"pop", "keep", "step"}
                /\ sref' \in Refs /\ kref' \in Refs
                /\ popCount' \in 0..(KeepEvery - 1) /\ newPread' \in Nat
                /\ needUpdate' \in BOOLEAN /\ moved' \in BOOLEAN
<1>0. /\ saved \in 0..MaxRecords /\ spc \in {"pop", "keep", "step"}
      /\ sref \in Refs /\ kref \in Refs
      /\ popCount \in 0..(KeepEvery - 1) /\ newPread \in Nat
      /\ needUpdate \in BOOLEAN /\ moved \in BOOLEAN
  BY DEF TypeOK
<1>k. KeepEvery \in Nat /\ KeepEvery >= 1 /\ 0 \in 0..(KeepEvery - 1)
  BY XlogQueueAssumption, SMT
<1>1. CASE UNCHANGED <<saverVars, keepVars>>
  BY <1>0, <1>1 DEF saverVars, keepVars
<1>2. CASE SaverNewRef
  <2>1. MadeRef \in Refs
    BY <1>2, MadeRefTyped DEF SaverNewRef
  <2> QED
    BY <1>0, <1>2, <2>1 DEF SaverNewRef, keepVars
<1>3. CASE SendQueuePop
  <2>1. RefMatch(sref)
    BY <1>3 DEF SendQueuePop, StrongRefsStay
  <2>2. PICK h \in HeadersAt(sref) : saved' = h.pkt
    BY <1>3 DEF SendQueuePop
  <2>3. saved' \in 0..MaxRecords
    BY <2>1, <2>2, RefPosition, HeaderTypes DEF HeadersAt
  <2>4. slot'[sref.slot].pread \in Nat
    BY <2>1, SlotTyped DEF SlotRecord, RefMatch
  <2>5. newPread' \in Nat /\ spc' \in {"pop", "keep", "step"}
    BY <1>0, <1>3, <2>4 DEF SendQueuePop
  <2>6. popCount' \in 0..(KeepEvery - 1)
    <3>1. popCount' = 0 \/ (popCount' = popCount + 1 /\ popCount + 1 # KeepEvery)
      BY <1>3 DEF SendQueuePop
    <3> QED
      BY <1>0, <1>k, <3>1, SMT
  <2>7. UNCHANGED <<sref, kref, needUpdate, moved>>
    BY <1>3 DEF SendQueuePop
  <2> QED
    BY <1>0, <2>3, <2>5, <2>6, <2>7
<1>4. CASE SendQueueEmpty
  BY <1>0, <1>k, <1>4 DEF SendQueueEmpty
<1>5. CASE KeepNewRef
  <2>1. MadeRef \in Refs
    BY <1>5, MadeRefTyped DEF KeepNewRef
  <2> QED
    BY <1>0, <1>5, <2>1 DEF KeepNewRef, saverVars
<1>6. CASE KeepJump
  <2>1. (pwrite > newPread + KeepSize) \in BOOLEAN
    BY SMT
  <2>2. needUpdate' \in BOOLEAN /\ moved' \in BOOLEAN
    BY <1>0, <1>6, <2>1 DEF KeepJump
  <2>3. spc' = "step" /\ UNCHANGED <<saved, sref, kref, popCount, newPread>>
    BY <1>6 DEF KeepJump
  <2> QED
    BY <1>0, <2>2, <2>3
<1>7. CASE KeepStep
  BY <1>0, <1>7 DEF KeepStep, saverVars
<1>8. CASE KeepDone
  BY <1>0, <1>8 DEF KeepDone
<1>9. UNCHANGED <<saverVars, keepVars>> \/ PrimarySave
  <2>1. ASSUME Reserve \/ XLogFlush PROVE UNCHANGED <<saverVars, keepVars>>
    BY <2>1 DEF Reserve, XLogFlush, FlushRequest, XLogWrite
  <2>2. ASSUME NEW k \in InFlight, XLogInsertRecord(k) PROVE UNCHANGED <<saverVars, keepVars>>
    BY <2>2 DEF XLogInsertRecord, ReleaseInsertLock, WaitForSpace, SetPktLen, SendQueuePush
  <2>3. ASSUME NEW w \in Senders, SenderStep(w) PROVE UNCHANGED <<saverVars, keepVars>>
    BY <2>3 DEF SenderStep, WalSndStart, WalSndExit, Sending, CheckPromote, CheckNewRef,
       CheckScan, CheckEnd, SendPromote, RawDataPop, SendEnd
  <2> QED
    BY <2>1, <2>2, <2>3 DEF Next, Inserting, vars, SenderStep
<1> QED
  BY <1>1, <1>2, <1>3, <1>4, <1>5, <1>6, <1>7, <1>8, <1>9 DEF PrimarySave

\* The variables of the walsenders keep their types.
LEMMA SenderTyped ==
  ASSUME TypeOK, StrongRefsStay, [Next]_vars
  PROVE  /\ wpc' \in [Senders -> {"off", "check", "scan", "send", "raw", "more"}]
         /\ wref' \in [Senders -> Refs] /\ sent' \in [Senders -> 0..MaxRecords]
         /\ checked' \in [Senders -> BOOLEAN] /\ astray' \subseteq Senders
<1>0. /\ wpc \in [Senders -> {"off", "check", "scan", "send", "raw", "more"}]
      /\ wref \in [Senders -> Refs] /\ sent \in [Senders -> 0..MaxRecords]
      /\ checked \in [Senders -> BOOLEAN] /\ astray \subseteq Senders
  BY DEF TypeOK
<1>1. CASE UNCHANGED senderVars
  BY <1>0, <1>1 DEF senderVars
<1>2. ASSUME NEW w \in Senders, SenderStep(w)
      PROVE  /\ wpc' \in [Senders -> {"off", "check", "scan", "send", "raw", "more"}]
             /\ wref' \in [Senders -> Refs] /\ sent' \in [Senders -> 0..MaxRecords]
             /\ checked' \in [Senders -> BOOLEAN] /\ astray' \subseteq Senders
  <2>1. wpc' = wpc \/ \E x \in {"off", "check", "scan", "send", "raw", "more"} :
          wpc' = [wpc EXCEPT ![w] = x]
    BY <1>2 DEF SenderStep, WalSndStart, WalSndExit, Sending, CheckPromote, CheckNewRef,
       CheckScan, CheckEnd, SendPromote, RawDataPop, SendEnd, WGoto, SendFromFile
  <2>2. wref' = wref \/ \E x \in Refs : wref' = [wref EXCEPT ![w] = x]
    <3>1. NoRef \in Refs
      BY RingBufAssumption, SMT DEF NoRef, Refs
    <3>2. NewRef(FALSE) => MadeRef \in Refs
      BY MadeRefTyped
    <3> QED
      BY <1>2, <3>1, <3>2 DEF SenderStep, WalSndStart, WalSndExit, Sending, CheckPromote,
         CheckNewRef, SenderNewRef, CheckScan, CheckEnd, SendPromote, RawDataPop, SendEnd
  <2>3. sent' = sent \/ \E x \in 0..MaxRecords : sent' = [sent EXCEPT ![w] = x]
    <3>0. /\ flushed \in 0..MaxRecords /\ 0 \in 0..MaxRecords /\ sent[w] \in 0..MaxRecords
          /\ MaxRecords \in Nat
      <4>1. flushed \in 0..Len(pkts) /\ Len(pkts) <= MaxRecords
        BY DEF TypeOK
      <4>2. MaxRecords \in Nat /\ Len(pkts) \in Nat
        BY PacketTypes, XlogQueueAssumption
      <4>3. sent[w] \in 0..MaxRecords
        BY <1>0
      <4> QED
        BY <4>1, <4>2, <4>3, SMT
    <3>1. ASSUME RawDataPop(w) PROVE \E x \in 0..MaxRecords : sent' = [sent EXCEPT ![w] = x]
      BY <3>1, SenderPasses DEF PassesOver
    <3>2. /\ \A n \in sent[w]..flushed : n \in 0..MaxRecords
          /\ \A n \in 0..flushed : n \in 0..MaxRecords
      BY <3>0, SMT
    <3> QED
      BY <1>2, <3>0, <3>1, <3>2 DEF SenderStep, WalSndStart, WalSndExit, Sending,
         CheckPromote, CheckNewRef, CheckScan, CheckEnd, SendPromote,
         SendEnd, SendFromFile
  <2>4. checked' = checked \/ \E x \in BOOLEAN : checked' = [checked EXCEPT ![w] = x]
    <3>1. checked[w] \in BOOLEAN
      BY <1>0
    <3>2. \A c : (checked[w] \/ Reaches(w, c)) \in BOOLEAN
      BY DEF Reaches
    <3> QED
      BY <1>2, <3>1, <3>2 DEF SenderStep, WalSndStart, WalSndExit, Sending, CheckPromote,
         CheckNewRef, CheckScan, CheckEnd, SendPromote, RawDataPop, SendEnd
  <2>5. wpc' \in [Senders -> {"off", "check", "scan", "send", "raw", "more"}]
    BY <1>0, <2>1
  <2>6. wref' \in [Senders -> Refs] /\ sent' \in [Senders -> 0..MaxRecords]
    BY <1>0, <2>2, <2>3
  <2>7. checked' \in [Senders -> BOOLEAN]
    BY <1>0, <2>4
  <2>8. astray' = astray \/ astray' = astray \ {w} \/ astray' = astray \cup {w}
    BY <1>2 DEF SenderStep, WalSndStart, WalSndExit, Sending, CheckPromote, CheckNewRef,
       SenderNewRef, CheckScan, CheckEnd, SendPromote, RawDataPop, SendEnd
  <2>9. astray' \subseteq Senders
    BY <1>0, <2>8
  <2> QED
    BY <2>5, <2>6, <2>7, <2>9
<1>3. UNCHANGED senderVars \/ \E w \in Senders : SenderStep(w)
  <2>1. ASSUME Reserve \/ XLogFlush \/ PrimarySave PROVE UNCHANGED senderVars
    BY <2>1 DEF Reserve, XLogFlush, FlushRequest, XLogWrite, PrimarySave, SaverNewRef,
       SendQueuePop, SendQueueEmpty, KeepNewRef, KeepJump, KeepStep, KeepDone
  <2>2. ASSUME NEW k \in InFlight, XLogInsertRecord(k) PROVE UNCHANGED senderVars
    BY <2>2 DEF XLogInsertRecord, ReleaseInsertLock, WaitForSpace, SetPktLen, SendQueuePush
  <2> QED
    BY <2>1, <2>2 DEF Next, Inserting, vars, SenderStep
<1> QED
  BY <1>1, <1>2, <1>3

\* All variables keep their types.
LEMMA TypeStep ==
  ASSUME TypeOK, Layout, Space, RefsHeld, StrongRefsStay, SlotsAhead, Unborn, SaverAt, Cells,
         [Next]_vars
  PROVE  TypeOK'
<1>1. pread' \in Nat /\ pwrite' \in Nat /\ refNum' \in Nat
  BY PreadSteps, PacketsTyped, RefsHeldStep
<1>2. /\ slot' \in [Slots -> SlotRecord] /\ cell' \in [0..(Size - 1) -> CellRecord]
      /\ pkts' \in Seq(Packet) /\ Len(pkts') <= MaxRecords
  BY SlotTyped, CellsStep, PacketsTyped
<1>3. flushed' \in 0..Len(pkts') /\ request' \in flushed'..Len(pkts')
  BY FlushTyped
<1>4. /\ saved' \in 0..MaxRecords /\ spc' \in {"pop", "keep", "step"}
      /\ sref' \in Refs /\ kref' \in Refs
      /\ popCount' \in 0..(KeepEvery - 1) /\ newPread' \in Nat
      /\ needUpdate' \in BOOLEAN /\ moved' \in BOOLEAN
  BY SaverTyped
<1>5. /\ wpc' \in [Senders -> {"off", "check", "scan", "send", "raw", "more"}]
      /\ wref' \in [Senders -> Refs] /\ sent' \in [Senders -> 0..MaxRecords]
      /\ checked' \in [Senders -> BOOLEAN] /\ astray' \subseteq Senders
  BY SenderTyped
<1> QED
  BY <1>1, <1>2, <1>3, <1>4, <1>5 DEF TypeOK, SlotRecord, CellRecord, Packet

\* The inductive invariant.
QInv ==
  /\ TypeOK /\ Layout /\ Space /\ RefsHeld /\ StrongRefsStay /\ SlotsAhead
  /\ Unborn /\ SaverAt /\ Cells /\ Readers

\* It holds of the empty queue,
LEMMA QInvInit == Init => QInv
<1> SUFFICES ASSUME Init PROVE QInv
  OBVIOUS
<1>0. /\ pread = 0 /\ pwrite = 0 /\ refNum = 0
      /\ slot = [i \in Slots |-> FreeSlot] /\ cell = [i \in 0..(Size - 1) |-> FreeCell]
      /\ pkts = <<>> /\ flushed = 0 /\ request = 0
      /\ saved = 0 /\ spc = "pop" /\ sref = NoRef
      /\ kref = NoRef /\ popCount = 0 /\ newPread = 0 /\ needUpdate = TRUE /\ moved = FALSE
      /\ wpc = [w \in Senders |-> "off"] /\ wref = [w \in Senders |-> NoRef]
      /\ sent = [w \in Senders |-> 0] /\ checked = [w \in Senders |-> FALSE]
      /\ astray = {}
  BY DEF Init, RingInit
<1>1. /\ Len(pkts) = 0 /\ DOMAIN pkts = {} /\ pkts \in Seq(Packet)
      /\ Published = {} /\ InFlight = {}
  BY <1>0, SMT DEF Published, InFlight
<1>2. /\ \A i \in Slots : slot[i] = FreeSlot /\ slot[i].num = 0
      /\ FreeSlot \in SlotRecord /\ FreeCell \in CellRecord /\ NoRef \in Refs
  BY <1>0, RingBufAssumption, XlogQueueAssumption, SMT
     DEF FreeSlot, SlotRecord, FreeCell, CellRecord, NoRef, Refs
<1>3. TypeOK
  <2>1. slot \in [Slots -> SlotRecord] /\ cell \in [0..(Size - 1) -> CellRecord]
    BY <1>0, <1>2
  <2>2. /\ wpc \in [Senders -> {"off", "check", "scan", "send", "raw", "more"}]
        /\ wref \in [Senders -> Refs] /\ checked \in [Senders -> BOOLEAN]
        /\ astray \subseteq Senders
    BY <1>0, <1>2
  <2>3. /\ 0 \in 0..MaxRecords /\ 0 \in 0..(KeepEvery - 1) /\ 0 \in 0..0 /\ 0 <= MaxRecords
    BY XlogQueueAssumption, SMT
  <2>4. sent \in [Senders -> 0..MaxRecords]
    BY <1>0, <2>3
  <2>5. /\ flushed \in 0..Len(pkts) /\ request \in flushed..Len(pkts) /\ Len(pkts) <= MaxRecords
        /\ pread \in Nat /\ pwrite \in Nat /\ refNum \in Nat /\ newPread \in Nat
        /\ saved \in 0..MaxRecords /\ popCount \in 0..(KeepEvery - 1)
    BY <1>0, <1>1, <2>3
  <2> QED
    BY <1>0, <1>1, <1>2, <2>1, <2>2, <2>4, <2>5 DEF TypeOK, SlotRecord, CellRecord, Packet
<1>4. Layout /\ Space
  BY <1>0, <1>1 DEF Layout, Space, StartOf
<1>5. RefsHeld /\ SlotsAhead /\ Unborn
  BY <1>0, <1>2 DEF RefsHeld, HeldRef, SlotsAhead, Unborn
<1>6. StrongRefsStay
  BY <1>0 DEF StrongRefsStay
<1>7. SaverAt
  BY <1>0, SMT DEF SaverAt
<1>8. Cells
  <2>1. ASSUME NEW p \in pread..(pread + Size - 1) PROVE ~Written(CellAt(p))
    <3>1. p \in Nat
      BY <1>0, RingBufAssumption, SMT
    <3>2. CellAt(p) = FreeCell
      BY <1>0, <3>1, DivMod DEF CellAt
    <3> QED
      BY <3>2, SMT DEF FreeCell, Written
  <2> QED
    BY <1>1, <2>1 DEF Cells
<1>9. Readers
  <2>1. NoRef.slot \notin Slots
    BY RingBufAssumption, SMT DEF NoRef, Slots
  <2> QED
    BY <1>0, <2>1 DEF Readers, Idle, Placed, RefMatch
<1> QED
  BY <1>3, <1>4, <1>5, <1>6, <1>7, <1>8, <1>9 DEF QInv

\* every step keeps it,
LEMMA QInvStep == QInv /\ [Next]_vars => QInv'
<1> SUFFICES ASSUME QInv, [Next]_vars PROVE QInv'
  OBVIOUS
<1>1. /\ TypeOK /\ Layout /\ Space /\ RefsHeld /\ StrongRefsStay /\ SlotsAhead
      /\ Unborn /\ SaverAt /\ Cells /\ Readers
  BY DEF QInv
<1>2. TypeOK' /\ Layout' /\ Space' /\ RefsHeld' /\ StrongRefsStay'
  BY <1>1, TypeStep, LayoutStep, SpaceStep, RefsHeldStep, StrongStep
<1>3. SlotsAhead' /\ Unborn' /\ SaverAt' /\ Cells' /\ Readers'
  BY <1>1, SlotsAheadStep, UnbornStep, SaverAtStep, CellsStep, ReadersStep
<1> QED
  BY <1>2, <1>3 DEF QInv

\* and so it always holds.
LEMMA QInvAlways == Spec => []QInv
BY QInvInit, QInvStep, PTL DEF Spec

-----------------------------------------------------------------------------
(* What holds of the queue. *)

\* Every variable keeps its type: in particular pread is always a position,
\* never POLAR_RINGBUF_INVALID_PREAD.
THEOREM QueueTypes == Spec => []TypeOK
<1>1. QInv => TypeOK
  BY DEF QInv
<1> QED
  BY <1>1, QInvAlways, PTL

\* A reference that is read through is never evicted
\* (polar_ringbuf_evict_ref), nor its slot given to somebody else.
THEOREM QueueStrongRefs == Spec => []StrongRefsStay
<1>1. QInv => StrongRefsStay
  BY DEF QInv
<1> QED
  BY <1>1, QInvAlways, PTL

\* What a reference has still to read is in the ring, whole: the space that
\* inserters are given (polar_ringbuf_wait_for_space) and the space that is
\* cleared (polar_ringbuf_update_pread) is never a packet's.
THEOREM QueueIntact == Spec => []PacketsIntact
<1>1. QInv => PacketsIntact
  <2> SUFFICES ASSUME QInv, NEW i \in Occupied(slot), NEW k \in Published,
                      pkts[k].start >= slot[i].pread
               PROVE  /\ CellAt(pkts[k].start) = Header(k)
                      /\ \A j \in 1..Body[k] : CellAt(pkts[k].start + j) = BodyCell(k)
    BY DEF PacketsIntact, Header, BodyCell
  <2>0. TypeOK /\ SlotsAhead /\ Cells
    BY DEF QInv
  <2>1. i \in Slots /\ slot[i].num # 0 /\ k \in DOMAIN pkts
    BY DEF Occupied, Published
  <2>2. pread \in Nat /\ slot[i].pread \in Nat /\ pkts[k].start \in Nat /\ Body[k] \in Nat
    BY <2>0, <2>1, PacketTypes DEF TypeOK
  <2>3. pread <= slot[i].pread
    BY <2>0, <2>1 DEF SlotsAhead
  <2>4. /\ pkts[k].start >= pread
        /\ \A j \in 1..Body[k] : pkts[k].start + j >= pread
    BY <2>2, <2>3, SMT
  <2> QED
    BY <2>0, <2>4 DEF Cells
<1> QED
  BY <1>1, QInvAlways, PTL

\* A walsender whose reference was made at the start of a packet sends the
\* next record or one that it has sent (polar_xlog_send_queue_check,
\* polar_xlog_send_queue_raw_data_pop), whatever happens to the reference
\* between the check and the sending.  It says nothing of a reference that
\* was made between packets.
THEOREM QueueNothingSkipped == Spec => NothingSkipped
<1>1. ASSUME QInv, [Next]_vars, NEW w \in Senders \ astray, wpc[w] \in {"raw", "more"}
      PROVE  sent'[w] <= sent[w] + 1
  <2>0. /\ TypeOK /\ Layout /\ Space /\ RefsHeld /\ StrongRefsStay /\ SlotsAhead
        /\ Unborn /\ SaverAt /\ Cells /\ Readers
    BY <1>1 DEF QInv
  <2>t. sent \in [Senders -> 0..MaxRecords] /\ sent[w] \in Nat
    BY <2>0, XlogQueueAssumption, SMT DEF TypeOK
  <2>1. CASE sent'[w] = sent[w]
    BY <2>t, <2>1, SMT
  <2>2. CASE RawDataPop(w)
    <3>1. RefMatch(wref[w]) /\ Settled(w)
      BY <1>1, <2>0, <2>2, SenderPasses DEF Settled
    <3>2. PICK h \in HeadersAt(wref[w]) : LooksReady(h) /\ sent' = [sent EXCEPT ![w] = h.pkt]
      BY <2>0, <2>2, SenderPasses DEF PassesOver
    <3>3. h.pkt <= sent[w] + 1
      BY <2>0, <3>1, <3>2, ReaderReads
    <3> QED
      BY <2>t, <3>2, <3>3
  <2>3. SenderStep(w) => RawDataPop(w) \/ sent' = sent
    <3>1. ~WalSndStart(w) /\ ~WalSndExit(w) /\ ~CheckEnd(w) /\ ~SendPromote(w)
      BY <1>1 DEF WalSndStart, WalSndExit, CheckEnd, SendPromote
    <3> QED
      BY <3>1 DEF SenderStep, Sending, CheckPromote, CheckNewRef, CheckScan, SendEnd
  <2> QED
    BY <1>1, <2>0, <2>1, <2>2, <2>3, SenderStays DEF SenderSame
<1>2. QInv /\ [Next]_vars =>
        [\A w \in Senders \ astray :
           wpc[w] \in {"raw", "more"} => sent'[w] <= sent[w] + 1]_vars
  BY <1>1
<1> QED
  BY <1>2, QInvAlways, PTL DEF Spec, NothingSkipped

\* The logindex writer takes the packets one by one, in WAL order, each
\* published and flushed before: the ring with its inserters, eviction, the
\* keep reference and the walsenders implements the queue.
THEOREM QueueRefinement == Spec => SavedInOrder
<1>1. Init => Queue!Init
  <2> SUFFICES ASSUME Init PROVE Queue!Init
    OBVIOUS
  <2>1. pkts = <<>> /\ flushed = 0 /\ saved = 0
    BY DEF Init
  <2>2. Len(pkts) = 0 /\ Published = {}
    BY <2>1, SMT DEF Published
  <2> QED
    BY <2>1, <2>2 DEF Queue!Init
<1>2. QInv /\ [Next]_vars => [Queue!Next]_(Queue!vars)
  <2> SUFFICES ASSUME QInv, [Next]_vars PROVE [Queue!Next]_(Queue!vars)
    OBVIOUS
  <2>0. /\ TypeOK /\ Layout /\ Space /\ RefsHeld /\ StrongRefsStay /\ SlotsAhead
        /\ Unborn /\ SaverAt /\ Cells /\ Readers
    BY DEF QInv
  <2>1. CASE Reserve
    <3>1. Len(pkts') = Len(pkts) + 1 /\ Published' = Published
      BY <2>0, <2>1, ReserveIs, PacketTypes, SMT DEF Published, InFlight
    <3>2. flushed' = flushed /\ saved' = saved
      BY <2>1 DEF Reserve, flushVars, saverVars
    <3> QED
      BY <3>1, <3>2 DEF Queue!Next, Queue!Reserve
  <2>2. ASSUME NEW k \in InFlight, XLogInsertRecord(k), ~SendQueuePush(k)
        PROVE  UNCHANGED Queue!vars
    <3>1. flushed' = flushed /\ saved' = saved
      BY <2>2 DEF XLogInsertRecord, ReleaseInsertLock, WaitForSpace, SetPktLen, flushVars,
         saverVars
    <3>2. Len(pkts') = Len(pkts) /\ Published' = Published
      <4>0. k \in DOMAIN pkts /\ pkts[k].at # "ready"
        BY DEF InFlight
      <4>1. pkts' = pkts \/ InsertStep(k, "wait") \/ InsertStep(k, "push")
        BY <2>2 DEF XLogInsertRecord, ReleaseInsertLock, WaitForSpace, SetPktLen
      <4>2. CASE pkts' = pkts
        BY <4>2 DEF Published, InFlight
      <4>3. ASSUME NEW at \in {"wait", "push"}, InsertStep(k, at)
            PROVE  Len(pkts') = Len(pkts) /\ Published' = Published
        <5>1. /\ Len(pkts') = Len(pkts) /\ DOMAIN pkts' = DOMAIN pkts
              /\ \A j \in DOMAIN pkts : pkts'[j].at = IF j = k THEN at ELSE pkts[j].at
          BY <2>0, <4>0, <4>3, InsertStepIs
        <5> QED
          BY <4>0, <5>1 DEF Published, InFlight
      <4> QED
        BY <4>1, <4>2, <4>3
    <3> QED
      BY <3>1, <3>2 DEF Queue!vars
  <2>3. ASSUME NEW k \in InFlight, SendQueuePush(k) PROVE Queue!Publish
    <3>1. flushed' = flushed /\ saved' = saved
      BY <2>3 DEF SendQueuePush, flushVars, saverVars
    <3>0. k \in DOMAIN pkts /\ k \notin Published /\ DOMAIN pkts = 1..Len(pkts)
      BY <2>0, PacketTypes DEF InFlight, Published
    <3>2. InsertStep(k, "ready")
      BY <2>3 DEF SendQueuePush
    <3>3. /\ Len(pkts') = Len(pkts) /\ DOMAIN pkts' = DOMAIN pkts
          /\ \A j \in DOMAIN pkts : pkts'[j].at = IF j = k THEN "ready" ELSE pkts[j].at
      BY <2>0, <3>0, <3>2, InsertStepIs
    <3>4. Published' = Published \cup {k} /\ k \in (1..Len(pkts)) \ Published
      BY <3>0, <3>3 DEF Published, InFlight
    <3> QED
      BY <3>1, <3>3, <3>4 DEF Queue!Publish
  <2>4. CASE XLogWrite
    <3>1. /\ flushed' \in (flushed + 1)..Len(pkts) /\ saved' = saved /\ pkts' = pkts
      BY <2>0, <2>4, PacketTypes, SMT DEF XLogWrite, saverVars, TypeOK
    <3>2. Len(pkts') = Len(pkts) /\ Published' = Published
      BY <3>1 DEF Published, InFlight
    <3> QED
      BY <3>1, <3>2 DEF Queue!Next, Queue!Flush
  <2>5. CASE SendQueuePop
    <3>1. saved + 1 \in Published /\ saved' = saved + 1 /\ saved + 1 <= flushed
      BY <2>0, <2>5, PopIs
    <3>2. flushed' = flushed /\ pkts' = pkts
      BY <2>5 DEF SendQueuePop, flushVars
    <3>3. Len(pkts') = Len(pkts) /\ Published' = Published
      BY <3>2 DEF Published, InFlight
    <3> QED
      BY <3>1, <3>2, <3>3 DEF Queue!Next, Queue!Take
  <2>6. ASSUME UNCHANGED <<pkts, flushed, saved>> PROVE UNCHANGED Queue!vars
    <3>1. Len(pkts') = Len(pkts) /\ Published' = Published
      BY <2>6 DEF Published, InFlight
    <3> QED
      BY <2>6, <3>1 DEF Queue!vars
  <2>7. ASSUME FlushRequest \/ (PrimarySave /\ ~SendQueuePop)
        PROVE  UNCHANGED <<pkts, flushed, saved>>
    BY <2>7 DEF FlushRequest, PrimarySave, SaverNewRef, SendQueueEmpty, KeepNewRef, KeepJump,
       KeepStep, KeepDone, flushVars, saverVars
  <2>8. ASSUME NEW w \in Senders, SenderStep(w) PROVE UNCHANGED <<pkts, flushed, saved>>
    BY <2>8 DEF SenderStep, WalSndStart, WalSndExit, Sending, CheckPromote, CheckNewRef,
       CheckScan, CheckEnd, SendPromote, RawDataPop, SendEnd, flushVars, saverVars
  <2>9. ASSUME UNCHANGED vars PROVE UNCHANGED <<pkts, flushed, saved>>
    BY <2>9 DEF vars, flushVars, saverVars
  <2>10. ASSUME NEW k \in InFlight, SendQueuePush(k) PROVE Queue!Next
    BY <2>3, <2>10 DEF Queue!Next
  <2> QED
    BY <2>1, <2>2, <2>4, <2>5, <2>6, <2>7, <2>8, <2>9, <2>10
       DEF Next, Inserting, XLogFlush, SenderStep
<1> QED
  BY <1>1, <1>2, QInvAlways, PTL DEF Spec, SavedInOrder, Queue!Spec
=============================================================================
