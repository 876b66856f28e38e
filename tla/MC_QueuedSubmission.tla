------------------------ MODULE MC_QueuedSubmission ------------------------
(* Two submissions through one node.                                       *)
EXTENDS QueuedSubmission

CONSTANTS s1, s2, k1, x, y, c1, c2

mc_CommitT == [c \in Commit |-> c]
mc_IndexT == [i \in {} |-> 1]
mc_Commit == 1 .. MaxQueueId
mc_Snapshot == {[head |-> None, index |-> None]}

Asks(key, body, cid) == [key |-> key, body |-> body, cid |-> cid]

\* A request and its retry under one key.
mc_Retried == {[s \in Sub |-> IF s = s1 THEN Asks(k1, x, c1) ELSE Asks(k1, x, c2)]}

\* The same; a key used for two bodies; two keyless requests with the same
\* envelope (a merge, revert or rebase has no timestamp in it).
mc_Workload ==
    mc_Retried \union
    {[s \in Sub |-> IF s = s1 THEN Asks(k1, x, c1) ELSE Asks(k1, y, c2)],
     [s \in Sub |-> Asks(None, x, c1)]}
=============================================================================
