------------------------ MODULE MC_NameServiceState ------------------------
(* Small instances of NameServiceState.                                    *)
EXTENDS NameServiceState, TLC

CONSTANTS c1, c2, c3, x1, x2, x3

\* Commit times: c1 and c2 are rivals at t = 1, c3 follows at t = 2.
MC_CommitT == [c \in Commit |-> IF c = c3 THEN 2 ELSE 1]

\* x1 and x2 are rival roots over t = 1, x3 covers t = 2.
MC_IndexT == [x \in IndexRoot |-> IF x = x3 THEN 2 ELSE 1]

\* Rollbacks to a born record, with and without an index.
MC_Rollbacks ==
    {s \in ResetHeadSnapshot :
        s.head # None /\ (s.index # None => MC_IndexT[s.index] <= MC_CommitT[s.head])}

MC_Unborn == {[head |-> None, index |-> None]}

MC_AllSnapshots == MC_Rollbacks \union MC_Unborn

\* No branch is special to the state machine.
BranchSymmetry == Permutations(Branch)

\* The commands of NameServiceState range over all branches, keys and clock readings
\* at once, and the product of the three is out of reach.  MC_Spec keeps to the
\* states in which they are combined as far as a property can tell.
Touched(b) ==
    \/ b \in branches \/ refs[b] # None \/ recently_cleared[b] # None
    \/ \E k \in Key : idempotency[b][k] # None

\* Requests without keys, the clock at 0, no rival commits and no index.
Plain ==
    /\ \A b \in Branch, k \in Key : idempotency[b][k] = None
    /\ \A b \in Branch :
          /\ refs[b] # None => refs[b].head # c2 /\ refs[b].index = None
          /\ recently_cleared[b] # None => recently_cleared[b].applied_at = 0
          /\ \A i \in 1 .. Len(queues[b]) : queues[b][i].key = None

\* One branch with everything; the lineage of all branches; the caps of two.
Scope ==
    LET touched == Cardinality({b \in Branch : Touched(b)}) IN
    \/ touched <= 1 /\ next_queue_id <= 3
    \/ Plain /\ next_queue_id <= 1
    \/ Plain /\ touched <= 2 /\ \A b \in Branch : refs[b] = None /\ recently_cleared[b] = None

MC_Spec == Init /\ [][Next /\ Scope']_vars

=============================================================================
