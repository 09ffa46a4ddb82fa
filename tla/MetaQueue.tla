----------------------------- MODULE MetaQueue -----------------------------
(***************************************************************************)
(* What the WAL meta queue promises the logindex saver: the packets of the *)
(* WAL records come out one by one in WAL order, each after it was put in  *)
(* and its record flushed, none lost and none twice.                       *)
(***************************************************************************)
EXTENDS Integers

VARIABLES reserved,   \* the number of records with a reserved packet
          published,  \* the packets that are ready to be read
          flushed,    \* the number of records that are on disk
          saved       \* the number of packets the saver has taken

vars == <<reserved, published, flushed, saved>>

Init == reserved = 0 /\ published = {} /\ flushed = 0 /\ saved = 0

Reserve == reserved' = reserved + 1 /\ UNCHANGED <<published, flushed, saved>>

Publish ==
  /\ \E k \in (1..reserved) \ published : published' = published \cup {k}
  /\ UNCHANGED <<reserved, flushed, saved>>

Flush ==
  /\ flushed' \in (flushed + 1)..reserved
  /\ UNCHANGED <<reserved, published, saved>>

Take ==
  /\ saved + 1 \in published /\ saved + 1 <= flushed
  /\ saved' = saved + 1
  /\ UNCHANGED <<reserved, published, flushed>>

Next == Reserve \/ Publish \/ Flush \/ Take

Spec == Init /\ [][Next]_vars
=============================================================================
