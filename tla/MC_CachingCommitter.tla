------------------------ MODULE MC_CachingCommitter ------------------------
(* One key on one ledger with two bodies, anonymous requests on two.       *)
EXTENDS CachingCommitter, TLC

CONSTANTS l1, l2, k1

MC_Request ==
    {[ledger |-> l1, key |-> k1, body |-> "b1"], [ledger |-> l1, key |-> k1, body |-> "b2"],
     [ledger |-> l1, key |-> NoKey, body |-> "b1"], [ledger |-> l2, key |-> NoKey, body |-> "b1"]}

MC_Symmetry == Permutations(Submission)
=============================================================================
