--------------------------- MODULE MCCsnSnapshot ---------------------------
(* A small instance of CsnSnapshot. *)
EXTENDS CsnSnapshot, TLC

CONSTANTS w1, w2, r1

WriterSymmetry == Permutations(Writers)

\* Two transactions, one with a subtransaction, are met by snapshots without a
\* list of xids and by checks that have not filled the single-item cache yet; a
\* checkpoint meets two transactions and a reader that takes snapshots
\* (LookupsInLog speaks of the checkpoint and of the lookups apart).
Focus ==
    LET subs == {x \in Xids : parent[x] # InvalidXid}
        list == \E r \in Readers : snap[r].isList
        cached == \E r \in Readers : cache[r].xid # InvalidXid
        checks == cached \/ \E r \in Readers : asked[r] # InvalidXid
    IN  /\ list \/ cached => nextXid - 1 - Cardinality(subs) <= 1 \/ subs = {}
        /\ ckpt.count > 0 => subs = {} /\ ~list /\ ~checks
=============================================================================
