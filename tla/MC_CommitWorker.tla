-------------------------- MODULE MC_CommitWorker --------------------------
(* Small instances of CommitWorker.                                        *)
EXTENDS CommitWorker, TLC

MC_Label == Ids \X (0 .. MaxStamp)

\* One change per entry and, should an entry be applied twice, one more.
MC_Commit == UNION {[1 .. k -> MC_Label] : k \in 1 .. MaxQueueId + 1}

MC_CommitT == [c \in Commit |-> Len(c)]

MC_IndexT == [x \in IndexRoot |-> 1]

MC_Snapshot == [head : Commit, index : {None}]

\* Owners that cannot lead are alike.
MC_Symmetry == Permutations(Owner \ Candidate)

=============================================================================
