---------------------------- MODULE MCFlushList ----------------------------
EXTENDS FlushList, TLC

CONSTANTS w1, w2

BgwriterSymmetry == Permutations(Bgwriters)
=============================================================================
