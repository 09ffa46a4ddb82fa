------------------------------ MODULE RingBuf ------------------------------
(***************************************************************************)
(* The shared-memory ring buffer of packets (polar_ringbuf.c and .h).      *)
(*                                                                         *)
(* Positions grow without bound; position p is stored at offset p % Size.  *)
(* A packet is a header cell followed by its body cells.  The header cell  *)
(* stands for the flag byte and the four length bytes; the contents of a   *)
(* packet are its number.  Each reference owns a slot with a read          *)
(* position; pread, the least of them as last computed, bounds what may be *)
(* written.                                                                *)
(*                                                                         *)
(* The operators are the functions of polar_ringbuf.c.  The processes that *)
(* call them are in XlogQueue.                                             *)
(***************************************************************************)
EXTENDS Integers, FiniteSets, FiniteSetsExt

CONSTANTS Size,      \* rbuf->size, in cells
          NumSlots,  \* POLAR_RINGBUF_MAX_SLOT
          MaxBody    \* the longest packet body, in cells

ASSUME RingBufAssumption ==
  /\ Size \in Nat \ {0} /\ NumSlots \in Nat \ {0}
  /\ MaxBody \in Nat /\ MaxBody + 1 <= Size - 1

VARIABLES pread,   \* rbuf->pread
          pwrite,  \* rbuf->pwrite
          refNum,  \* rbuf->ref_num, the number of references made so far
          slot,    \* rbuf->slot[]; num = 0 in a slot that is not occupied
          cell     \* rbuf->data[]

Slots == 1..NumSlots

(* What MemSet(..., POLAR_RINGBUF_PKT_FREE, ...) leaves: the flag is not    *)
(* READY and the length is zero.                                           *)
FreeCell == [state |-> "free", pkt |-> 0, body |-> 0]

FreeSlot == [num |-> 0, strong |-> FALSE, pread |-> 0]

(* POLAR_RINGBUF_INVALID_PREAD, UINT64_MAX.                                *)
InvalidPread == -1

(* A polar_ringbuf_ref_t that was never used.                              *)
NoRef == [slot |-> 0, num |-> 0]

RingInit ==
  /\ pread = 0 /\ pwrite = 0 /\ refNum = 0
  /\ slot = [i \in Slots |-> FreeSlot]
  /\ cell = [i \in 0..(Size - 1) |-> FreeCell]

CellAt(p) == cell[p % Size]

Occupied(sl) == {i \in Slots : sl[i].num # 0}

(* Mutant: the slot is in use, by whomever.                                *)
RefMatchSlot(ref) == ref.slot \in Occupied(slot)

(* RINGBUF_REF_MATCH: the slot still belongs to this reference.            *)
RefMatch(ref) == ref.slot \in Slots /\ slot[ref.slot].num = ref.num

Position(ref) == slot[ref.slot].pread

-----------------------------------------------------------------------------
(* polar_ringbuf_update_pread with the slots sl: the region that every     *)
(* reference has passed is cleared and then given up.                      *)
LeastPread(sl) ==
  IF Occupied(sl) = {} THEN InvalidPread
                       ELSE Min({sl[i].pread : i \in Occupied(sl)})

(* Mutant: with no reference, UINT64_MAX is taken for a position.          *)
PreadMovesUnchecked(sl) == LeastPread(sl) # pread

PreadMoves(sl) == LeastPread(sl) \notin {InvalidPread, pread}

Freed(from, to) ==
  IF from < to THEN from..(to - 1) ELSE (from..(Size - 1)) \cup (0..(to - 1))

(* Mutant: the region is given up but not cleared.                         *)
UpdatePreadOnly(sl) ==
  /\ pread' = IF PreadMoves(sl) THEN LeastPread(sl) ELSE pread
  /\ UNCHANGED cell

UpdatePread(sl) ==
  IF PreadMoves(sl)
  THEN LET freed == Freed(pread % Size, LeastPread(sl) % Size)
       IN  /\ cell' = [i \in 0..(Size - 1) |->
                         IF i \in freed THEN FreeCell ELSE cell[i]]
           /\ pread' = LeastPread(sl)
  ELSE UNCHANGED <<cell, pread>>

(* polar_ringbuf_evict_ref: the weak reference that is furthest behind,    *)
(* when it is the one that holds pread back.                               *)
(* Mutant: any reference may be evicted.                                   *)
EvictableStrong ==
  {i \in Occupied(slot) :
     /\ slot[i].pread = pread
     /\ \A j \in Occupied(slot) : slot[j].pread = pread => i <= j}

Evictable ==
  {i \in Occupied(slot) :
     /\ ~slot[i].strong /\ slot[i].pread = pread
     /\ \A j \in Occupied(slot) :
          ~slot[j].strong /\ slot[j].pread = pread => i <= j}

(* polar_ringbuf_new_ref: the least free slot, at the current pread.       *)
LeastFreeSlot == Min(Slots \ Occupied(slot))

NewRef(strong) ==
  /\ Slots # Occupied(slot)
  /\ refNum' = refNum + 1
  /\ slot' = [slot EXCEPT ![LeastFreeSlot] =
                [num |-> refNum + 1, strong |-> strong, pread |-> pread]]

MadeRef == [slot |-> LeastFreeSlot, num |-> refNum + 1]

(* polar_ringbuf_set_ref_strong_property on a reference that matches.      *)
SetStrong(ref, strong) == slot' = [slot EXCEPT ![ref.slot].strong = strong]

(* polar_ringbuf_release_ref.                                              *)
ReleaseRef(ref) ==
  IF RefMatch(ref)
  THEN /\ slot' = [slot EXCEPT ![ref.slot] = FreeSlot]
       /\ UpdatePread(slot')
  ELSE UNCHANGED <<slot, pread, cell>>

-----------------------------------------------------------------------------
(* polar_ringbuf_update_ref past a packet with a body of that many cells.  *)
UpdateRef(ref, body) ==
  slot' = [slot EXCEPT ![ref.slot].pread = @ + 1 + body]

(* Writing.  SpaceFor is the condition polar_ringbuf_wait_for_space waits  *)
(* for, FreeUp one turn of its loop; the last two are                      *)
(* polar_ringbuf_set_pkt_length, and the packet's contents with its READY  *)
(* flag.                                                                   *)
(* Mutant: the length of the packet is forgotten.                          *)
SpaceForStart(start, body) == start - pread <= Size - 1

SpaceFor(start, body) == start + 1 + body - pread <= Size - 1

FreeUp ==
  \/ PreadMoves(slot) /\ UpdatePread(slot) /\ UNCHANGED slot
  \/ /\ ~PreadMoves(slot)
     /\ \E i \in Evictable : slot' = [slot EXCEPT ![i] = FreeSlot]
     /\ UNCHANGED <<pread, cell>>

SetPktLength(start, body) ==
  cell' = [cell EXCEPT ![start % Size].body = body, ![start % Size].state = "len"]

WritePkt(start, body, k) ==
  cell' = [i \in 0..(Size - 1) |->
             IF i = start % Size
             THEN [state |-> "ready", pkt |-> k, body |-> body]
             ELSE IF i \in {(start + j) % Size : j \in 1..body}
                  THEN [state |-> "body", pkt |-> k, body |-> 0]
                  ELSE cell[i]]
=============================================================================
