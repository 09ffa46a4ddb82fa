-------------------------- MODULE MCConsistentLsn --------------------------
(* Small instances of ConsistentLsn. *)
EXTENDS ConsistentLsn, TLC

CONSTANTS p1, p2, b1, b2, r1

OnePartition == [b \in Buffers |-> 1]
OwnPartition == (b1 :> 1) @@ (b2 :> 2)

\* Without hints and crashes nothing depends on the redo point.
NoCheckpoint == ~ckptRunning

ProcSymmetry == Permutations(Procs)
=============================================================================
