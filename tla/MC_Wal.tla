------------------------------- MODULE MC_Wal -------------------------------
(* Two clients, one head and two blobs.                                    *)
EXTENDS Wal, TLC

CONSTANTS w1, w2

WriterSymmetry == Permutations({w1, w2})
=============================================================================
