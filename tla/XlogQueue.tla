----------------------------- MODULE XlogQueue -----------------------------
(***************************************************************************)
(* The WAL meta queue of a primary: backends insert WAL records and push a *)
(* packet for each into the ring buffer, the logindex writer takes them    *)
(* out to index them and keeps some for new readers, walsenders read them  *)
(* through weak references that may be evicted.                            *)
(*                                                                         *)
(* WAL records are numbered in WAL order, so an LSN is the number of       *)
(* records that end at or before it.                                       *)
(***************************************************************************)
EXTENDS RingBuf, Sequences

CONSTANTS MaxInserters, \* backends that insert WAL at a time
          Senders,    \* walsenders to replicas
          KeepSize,   \* size * polar_xlog_queue_data_keep_ratio, in cells
          KeepEvery,  \* POLAR_UPDATE_DATA_KEEP_REF_COUNT
          MaxRecords, \* bound: WAL records
          Body,       \* the length of the body of each record's packet
          MaxRefs,    \* bound: references ever made by walsenders
          MaxPosition \* bound: how far a walsender reads

ASSUME XlogQueueAssumption ==
  /\ KeepSize \in 0..(Size - 1) /\ KeepEvery \in Nat \ {0}
  /\ MaxRecords \in Nat /\ Body \in [1..MaxRecords -> 0..MaxBody]

VARIABLES pkts,       \* record k's packet: its position, the length of its
                      \* body, and how far its inserter is
          flushed,    \* records flushed to disk
          request,    \* records the walwriter is about to flush
          saved,      \* the last packet the saver took
          spc, sref,  \* the logindex writer's step and its reference
          kref,       \* polar_data_ref
          popCount, newPread, needUpdate,  \* statics of primary_save
          moved,      \* "updated" in polar_ringbuf_ref_keep_data
          wpc, wref,  \* a walsender's step and its reference
          sent,       \* its sentPtr
          checked,    \* check_succeed, and "ret" while it is computed
          astray      \* history: the walsenders whose reference was made
                      \* between packets

ringVars == <<pread, pwrite, refNum, slot, cell>>
flushVars == <<flushed, request>>
keepVars == <<kref, popCount, newPread, needUpdate, moved>>
saverVars == <<saved, spc, sref>>
senderVars == <<wpc, wref, sent, checked, astray>>
vars == <<ringVars, pkts, flushVars, saverVars, keepVars, senderVars>>

Init ==
  /\ RingInit
  /\ pkts = <<>>
  /\ flushed = 0 /\ request = 0
  /\ saved = 0 /\ spc = "pop" /\ sref = NoRef
  /\ kref = NoRef /\ popCount = 0 /\ newPread = 0
  /\ needUpdate = TRUE /\ moved = FALSE
  /\ wpc = [w \in Senders |-> "off"] /\ wref = [w \in Senders |-> NoRef]
  /\ sent = [w \in Senders |-> 0] /\ checked = [w \in Senders |-> FALSE]
  /\ astray = {}

-----------------------------------------------------------------------------
(* ReserveXLogInsertLocation: the WAL position and the queue position are  *)
(* advanced under insertpos_lck, with no check for free space.  The        *)
(* inserter holds a WAL insertion lock.                                    *)
InFlight == {k \in DOMAIN pkts : pkts[k].at # "ready"}

Reserve ==
  /\ Len(pkts) < MaxRecords /\ Cardinality(InFlight) < MaxInserters
  /\ pkts' = Append(pkts, [start |-> pwrite, at |-> "copy"])
  /\ pwrite' = pwrite + 1 + Body[Len(pkts) + 1]
  /\ UNCHANGED <<pread, refNum, slot, cell, flushVars, saverVars, keepVars, senderVars>>

(* CopyXLogRecordToWAL and WALInsertLockRelease.                           *)
InsertStep(k, at) == pkts' = [pkts EXCEPT ![k].at = at]

ReleaseInsertLock(k) ==
  /\ pkts[k].at = "copy"
  /\ InsertStep(k, "wait")
  /\ UNCHANGED <<ringVars, flushVars, saverVars, keepVars, senderVars>>

(* polar_ringbuf_wait_for_space, with no insertion lock held: one turn of  *)
(* its loop, or the end of the wait and the packet's length.  Once there   *)
(* is space it stays, for pread never moves back.                          *)
WaitForSpace(k) ==
  /\ pkts[k].at = "wait" /\ ~SpaceFor(pkts[k].start, Body[k])
  /\ FreeUp
  /\ UNCHANGED <<pwrite, refNum, pkts, flushVars, saverVars, keepVars, senderVars>>

SetPktLen(k) ==
  /\ pkts[k].at = "wait" /\ SpaceFor(pkts[k].start, Body[k])
  /\ SetPktLength(pkts[k].start, Body[k])
  /\ InsertStep(k, "push")
  /\ UNCHANGED <<pread, pwrite, refNum, slot, flushVars, saverVars, keepVars, senderVars>>

(* polar_xlog_send_queue_push.                                             *)
SendQueuePush(k) ==
  /\ pkts[k].at = "push"
  /\ WritePkt(pkts[k].start, Body[k], k)
  /\ InsertStep(k, "ready")
  /\ UNCHANGED <<pread, pwrite, refNum, slot, flushVars, saverVars, keepVars, senderVars>>

XLogInsertRecord(k) ==
  ReleaseInsertLock(k) \/ WaitForSpace(k) \/ SetPktLen(k) \/ SendQueuePush(k)

Inserting == \E k \in InFlight : XLogInsertRecord(k)

(* XLogBackgroundFlush picks a position to flush to, and writes once every *)
(* inserter below it has released its lock (WaitXLogInsertionsToFinish).   *)
(* It backs off to the last completed page; the rest is flushed by its     *)
(* asyncXactLSN branch or by the XLogFlush of a commit, so any position is *)
(* one that somebody flushes to.                                           *)
FlushRequest ==
  /\ request = flushed
  /\ request' \in (flushed + 1)..Len(pkts)
  /\ UNCHANGED <<ringVars, pkts, flushed, saverVars, keepVars, senderVars>>

(* Mutant: a WAL insertion lock is held until the packet is in the queue.  *)
WaitPacketsPushed == (1..request) \cap InFlight = {}

WaitXLogInsertionsToFinish == \A k \in 1..request : pkts[k].at # "copy"

XLogWrite ==
  /\ request > flushed /\ WaitXLogInsertionsToFinish
  /\ flushed' = request
  /\ UNCHANGED <<ringVars, pkts, request, saverVars, keepVars, senderVars>>

XLogFlush == FlushRequest \/ XLogWrite

-----------------------------------------------------------------------------
(* What a reader finds: polar_ringbuf_next_pkt_type and                    *)
(* polar_ringbuf_read_next_pkt take the bytes at the read position for a   *)
(* packet.  A body cell holds any bytes: taken for a header it is READY or *)
(* not, of type WAL_META or another, and gives any LSN and any length.     *)
AnyHeader ==
  [state : {"free", "ready", "other"}, pkt : 0..MaxRecords, body : 0..MaxBody]
Headers(c) == IF c.state = "body" THEN AnyHeader ELSE {c}
HeadersAt(ref) == Headers(CellAt(Position(ref)))

LooksReady(h) == h.state \in {"ready", "other"}

(* polar_logindex_primary_save.  polar_xlog_send_queue_pop makes the       *)
(* saver's reference the first time; a packet is taken when it is READY    *)
(* and its record is flushed.                                              *)
SaverNewRef ==
  /\ spc = "pop" /\ sref = NoRef
  /\ NewRef(TRUE) /\ sref' = MadeRef
  /\ UNCHANGED <<pread, pwrite, cell, pkts, flushVars, saved, spc, keepVars, senderVars>>

Poppable(h) == LooksReady(h) /\ h.pkt <= flushed

SendQueuePop ==
  /\ spc = "pop" /\ sref # NoRef
  /\ \E h \in HeadersAt(sref) :
       Poppable(h) /\ saved' = h.pkt /\ UpdateRef(sref, h.body)
  /\ IF popCount + 1 = KeepEvery
     THEN /\ popCount' = 0 /\ spc' = "keep"
          /\ newPread' = IF needUpdate THEN slot'[sref.slot].pread ELSE newPread
     ELSE popCount' = popCount + 1 /\ UNCHANGED <<spc, newPread>>
  /\ UNCHANGED <<pread, pwrite, refNum, cell, pkts, flushVars, sref, kref,
                 needUpdate, moved, senderVars>>

SendQueueEmpty ==
  /\ spc = "pop" /\ sref # NoRef
  /\ \E h \in HeadersAt(sref) : ~Poppable(h)
  /\ popCount' = 0 /\ spc' = "keep"
  /\ UNCHANGED <<ringVars, pkts, flushVars, saved, sref, kref, newPread,
                 needUpdate, moved, senderVars>>

(* polar_xlog_send_queue_keep_data makes the keep reference the first time. *)
KeepNewRef ==
  /\ spc = "keep" /\ kref = NoRef
  /\ NewRef(TRUE) /\ kref' = MadeRef
  /\ UNCHANGED <<pread, pwrite, cell, pkts, flushVars, saverVars, popCount,
                 newPread, needUpdate, moved, senderVars>>

(* polar_ringbuf_ref_keep_data: jump to a position the saver has reached,  *)
(* when that leaves KeepSize behind pwrite ...                             *)
KeepJump ==
  /\ spc = "keep" /\ kref # NoRef
  /\ LET far == pwrite > newPread + KeepSize IN
       IF newPread <= Position(kref)
       THEN needUpdate' = TRUE /\ UNCHANGED <<slot, moved>>
       ELSE /\ needUpdate' = far /\ moved' = far
            /\ slot' = IF far THEN [slot EXCEPT ![kref.slot].pread = newPread]
                              ELSE slot
  /\ spc' = "step"
  /\ UNCHANGED <<pread, pwrite, refNum, cell, pkts, flushVars, saved, sref,
                 kref, popCount, newPread, senderVars>>

(* ... then step over packets by their length, whatever their state ...    *)
KeepBehind == pwrite > Position(kref) + KeepSize

KeepStep ==
  /\ spc = "step" /\ KeepBehind
  /\ \E h \in HeadersAt(kref) : UpdateRef(kref, h.body)
  /\ moved' = TRUE
  /\ UNCHANGED <<pread, pwrite, refNum, cell, pkts, flushVars, saverVars, kref,
                 popCount, newPread, needUpdate, senderVars>>

(* ... and give up the space.                                              *)
KeepDone ==
  /\ spc = "step" /\ ~KeepBehind
  /\ IF moved THEN UpdatePread(slot) ELSE UNCHANGED <<pread, cell>>
  /\ moved' = FALSE /\ spc' = "pop"
  /\ UNCHANGED <<pwrite, refNum, slot, pkts, flushVars, saved, sref, kref,
                 popCount, newPread, needUpdate, senderVars>>

PrimarySave ==
  SaverNewRef \/ SendQueuePop \/ SendQueueEmpty
    \/ KeepNewRef \/ KeepJump \/ KeepStep \/ KeepDone

-----------------------------------------------------------------------------
(* A walsender to a replica.  Its reference is weak, and strong only while *)
(* it reads.                                                               *)
WGoto(w, step) == wpc' = [wpc EXCEPT ![w] = step]

(* POLAR_XLOG_QUEUE_NEW_REF: a weak reference at pread.  pread is between  *)
(* packets when the keep reference stepped over one before its length was  *)
(* set.  Nothing notices that; astray records it.                          *)
OnPacket(p) == p = pwrite \/ \E k \in DOMAIN pkts : pkts[k].start = p
SenderNewRef(w) ==
  /\ refNum < MaxRefs /\ NewRef(FALSE)
  /\ wref' = [wref EXCEPT ![w] = MadeRef]
  /\ astray' = IF OnPacket(pread) THEN astray \ {w} ELSE astray \cup {w}

(* XLogSendPhysicalExt: some WAL from the files, unless all that is        *)
(* flushed was sent.                                                       *)
SendFromFile(w) ==
  /\ \E n \in sent[w]..flushed :
       /\ n = sent[w] => n = flushed
       /\ sent' = [sent EXCEPT ![w] = n]
  /\ WGoto(w, "check")

(* WalSndLoop starts, at a record the replica asked for.  Assumed: the     *)
(* saver has made its reference by then, for without it pread follows the  *)
(* walsenders and packets are lost to the logindex.                        *)
WalSndStart(w) ==
  /\ wpc[w] = "off" /\ sref # NoRef /\ SenderNewRef(w)
  /\ \E n \in 0..flushed : sent' = [sent EXCEPT ![w] = n]
  /\ WGoto(w, "check")
  /\ UNCHANGED <<pread, pwrite, cell, pkts, flushVars, saverVars, keepVars, checked>>

(* polar_ringbuf_auto_release at process exit.                             *)
WalSndExit(w) ==
  /\ wpc[w] \in {"check", "send"}
  /\ ReleaseRef(wref[w]) /\ WGoto(w, "off")
  /\ wref' = [wref EXCEPT ![w] = NoRef] /\ sent' = [sent EXCEPT ![w] = 0]
  /\ checked' = [checked EXCEPT ![w] = FALSE] /\ astray' = astray \ {w}
  /\ UNCHANGED <<pwrite, refNum, pkts, flushVars, saverVars, keepVars>>

(* polar_xlog_send_queue_check: promote the reference, or make a new one   *)
(* when it was evicted, and look for the record to send next.              *)
CheckPromote(w) ==
  /\ wpc[w] = "check" /\ RefMatch(wref[w])
  /\ SetStrong(wref[w], TRUE) /\ WGoto(w, "scan")
  /\ UNCHANGED <<pread, pwrite, refNum, cell, pkts, flushVars, saverVars,
                 keepVars, wref, sent, checked, astray>>

CheckNewRef(w) ==
  /\ wpc[w] = "check" /\ ~RefMatch(wref[w]) /\ SenderNewRef(w)
  /\ UNCHANGED <<pread, pwrite, cell, pkts, flushVars, saverVars, keepVars,
                 wpc, sent, checked>>

(* Record k starts where record k - 1 ends; a packet that starts at or     *)
(* before sentPtr shows that the queue has what comes next.                *)
(* A packet of another type is passed unread.  (One too short for an LSN,  *)
(* which only the bytes of a body can look like, makes the check PANIC;    *)
(* the restart that follows is left out.)                                  *)
Passed(w, h) == h.state = "other" \/ (h.state = "ready" /\ h.pkt - 1 < sent[w])
Reaches(w, h) == h.state = "ready" /\ h.pkt - 1 <= sent[w]

ReadOn(w, h) == Position(wref[w]) < MaxPosition /\ UpdateRef(wref[w], h.body)

CheckScan(w) ==
  /\ wpc[w] = "scan"
  /\ \E h \in HeadersAt(wref[w]) :
       /\ Passed(w, h) /\ ReadOn(w, h)
       /\ checked' = [checked EXCEPT ![w] = @ \/ Reaches(w, h)]
  /\ UNCHANGED <<pread, pwrite, refNum, cell, pkts, flushVars, saverVars,
                 keepVars, wpc, wref, sent, astray>>

CheckEnd(w) ==
  /\ wpc[w] = "scan"
  /\ \E h \in HeadersAt(wref[w]) :
       LET ok == checked[w] \/ Reaches(w, h) IN
         /\ ~Passed(w, h) /\ checked' = [checked EXCEPT ![w] = ok]
         /\ IF ok THEN WGoto(w, "send") /\ UNCHANGED sent ELSE SendFromFile(w)
  /\ SetStrong(wref[w], FALSE)
  /\ UNCHANGED <<pread, pwrite, refNum, cell, pkts, flushVars, saverVars,
                 keepVars, wref, astray>>

(* polar_send_physical_by_queue.                                           *)
SendPromote(w) ==
  /\ wpc[w] = "send"
  /\ IF RefMatch(wref[w])
     THEN /\ SetStrong(wref[w], TRUE) /\ WGoto(w, "raw")
          /\ UNCHANGED <<sent, checked>>
     ELSE /\ checked' = [checked EXCEPT ![w] = FALSE]
          /\ SendFromFile(w) /\ UNCHANGED slot
  /\ UNCHANGED <<pread, pwrite, refNum, cell, pkts, flushVars, saverVars,
                 keepVars, wref, astray>>

(* One packet of polar_xlog_send_queue_raw_data_pop.                       *)
RawDataPop(w) ==
  /\ wpc[w] \in {"raw", "more"}
  /\ \E h \in HeadersAt(wref[w]) :
       Poppable(h) /\ sent' = [sent EXCEPT ![w] = h.pkt] /\ ReadOn(w, h)
  /\ WGoto(w, "more")
  /\ UNCHANGED <<pread, pwrite, refNum, cell, pkts, flushVars, saverVars,
                 keepVars, wref, checked, astray>>

(* There is nothing to send, or at least one packet was sent and the       *)
(* message may be full.  (The shortcut of last_flush_ptr only puts off     *)
(* packets that were sent before.)                                         *)
SendEnd(w) ==
  /\ \/ wpc[w] = "more"
     \/ wpc[w] = "raw" /\ \E h \in HeadersAt(wref[w]) : ~Poppable(h)
  /\ SetStrong(wref[w], FALSE) /\ WGoto(w, "send")
  /\ UNCHANGED <<pread, pwrite, refNum, cell, pkts, flushVars, saverVars,
                 keepVars, wref, sent, checked, astray>>

Sending(w) ==
  CheckPromote(w) \/ CheckNewRef(w) \/ CheckScan(w) \/ CheckEnd(w)
    \/ SendPromote(w) \/ RawDataPop(w) \/ SendEnd(w)

Next ==
  \/ Reserve \/ Inserting
  \/ XLogFlush \/ PrimarySave
  \/ \E w \in Senders : WalSndStart(w) \/ Sending(w) \/ WalSndExit(w)

(* Processes that can go on do.  An inserter that waits for space looks    *)
(* every 10 microseconds whether the slowest reference is weak, and a      *)
(* walsender that finds nothing to send sleeps with its reference weak: it *)
(* cannot be missed forever, hence strong fairness.                        *)
Fairness ==
  /\ SF_vars(Inserting) /\ WF_vars(XLogFlush) /\ WF_vars(PrimarySave)
  /\ \A w \in Senders : WF_vars(Sending(w))

Spec == Init /\ [][Next]_vars /\ Fairness
-----------------------------------------------------------------------------
Refs == [slot : 0..NumSlots, num : Nat]

(* Every variable has its type, a reference is in a slot of the ring, and  *)
(* pread is a position: with no reference left, the least read position    *)
(* POLAR_RINGBUF_INVALID_PREAD must not get into it.                       *)
TypeOK ==
  /\ pread \in Nat /\ pwrite \in Nat /\ refNum \in Nat
  /\ slot \in [Slots -> [num : Nat, strong : BOOLEAN, pread : Nat]]
  /\ cell \in [0..(Size - 1) ->
       [state : {"free", "len", "ready", "body"}, pkt : 0..MaxRecords,
        body : 0..MaxBody]]
  /\ pkts \in Seq([start : Nat, at : {"copy", "wait", "push", "ready"}])
  /\ Len(pkts) <= MaxRecords
  /\ flushed \in 0..Len(pkts) /\ request \in flushed..Len(pkts)
  /\ saved \in 0..MaxRecords /\ spc \in {"pop", "keep", "step"}
  /\ sref \in Refs /\ kref \in Refs
  /\ popCount \in 0..(KeepEvery - 1) /\ newPread \in Nat
  /\ needUpdate \in BOOLEAN /\ moved \in BOOLEAN
  /\ wpc \in [Senders -> {"off", "check", "scan", "send", "raw", "more"}]
  /\ wref \in [Senders -> Refs] /\ sent \in [Senders -> 0..MaxRecords]
  /\ checked \in [Senders -> BOOLEAN] /\ astray \subseteq Senders

Published == DOMAIN pkts \ InFlight

(* A packet that was pushed is whole in the ring, header and body, as long *)
(* as some reference has still to read it: no inserter that was given      *)
(* space, and no clearing of the region that was given up, touches it,     *)
(* though pwrite may be more than a lap ahead of pread.                    *)
PacketsIntact ==
  \A i \in Occupied(slot), k \in Published :
    pkts[k].start >= slot[i].pread =>
      /\ CellAt(pkts[k].start) = [state |-> "ready", pkt |-> k, body |-> Body[k]]
      /\ \A j \in 1..Body[k] :
           CellAt(pkts[k].start + j) = [state |-> "body", pkt |-> k, body |-> 0]

(* A reference that is being read through is never taken away: the saver's *)
(* and the keep reference for good, a walsender's from the moment it was   *)
(* made strong until it is made weak again.  polar_send_physical_by_queue  *)
(* PANICs otherwise, and polar_ringbuf_update_ref moves the read position  *)
(* of whoever got the slot.                                                *)
StrongRefsStay ==
  /\ sref # NoRef => RefMatch(sref) /\ slot[sref.slot].strong
  /\ kref # NoRef => RefMatch(kref) /\ slot[kref.slot].strong
  /\ \A w \in Senders : wpc[w] \in {"scan", "raw", "more"} =>
       RefMatch(wref[w]) /\ slot[wref[w].slot].strong

Queue == INSTANCE MetaQueue WITH reserved <- Len(pkts), published <- Published

(* The saver takes the packet of every WAL record once, in WAL order, and  *)
(* only when the record is flushed (polar_xlog_send_queue_pop), whatever   *)
(* the keep reference and the walsenders do to the ring meanwhile.         *)
SavedInOrder == Queue!Spec

(* The saver catches up again and again: inserters that wait for space     *)
(* without an insertion lock, the walwriter that waits for them, the saver *)
(* that waits for the flush never wait for each other in a circle (the     *)
(* deadlock that the comments of polar_ringbuf_wait_for_space describe),   *)
(* and no weak reference holds them up for good, a walsender's that is     *)
(* astray included.  That all is flushed in the end rests on FlushRequest  *)
(* standing for every flusher.                                             *)
SaverCatchesUp == []<>(saved = Len(pkts))

(* What a walsender sends from the queue continues what it has sent:       *)
(* no record is left out when it changes from the files to the queue, nor  *)
(* after its reference was evicted and made again, when that was at the    *)
(* start of a packet.  Nothing is claimed of a walsender that is astray,   *)
(* for it takes the bytes of a body for LSNs and sends from there (see     *)
(* SenderNewRef); the claim holds again once its reference is made anew.   *)
NothingSkipped ==
  [][\A w \in Senders \ astray : wpc[w] \in {"raw", "more"} =>
       sent'[w] <= sent[w] + 1]_vars
=============================================================================
