----------------------- MODULE NameServiceState_proofs -----------------------
(***************************************************************************)
(* Safety theorems of NameServiceState, for any sets of branches, keys,    *)
(* commits and snapshots, any caps and any number of submissions.          *)
(***************************************************************************)
EXTENDS NameServiceState, TLAPS

\* Ordering releases keeps the ledger of releases well formed.
LEMMA ReleaseType ==
    ASSUME NEW S, released \in [0 .. MaxQueueId - 1 -> Nat], Release(S)
    PROVE  released' \in [0 .. MaxQueueId - 1 -> Nat]
BY DEF Release

\* An admin clear keeps the types of what it touches.
LEMMA ClearType ==
    ASSUME TypeOK, NEW b \in Branch, NEW reason \in ClearReason, NEW at \in Millis,
           clear_queue_for_admin(b, reason, at)
    PROVE  /\ queues' \in [Branch -> Seq(QueueEntry)]
           /\ next_queue_id' \in 0 .. MaxQueueId
           /\ recently_cleared' \in [Branch -> ClearMarker \union {None}]
           /\ released' \in [0 .. MaxQueueId - 1 -> Nat]
<1>1. at \in Nat
  BY ConstantsAssumption
<1>2. [reason |-> reason, applied_at |-> at] \in ClearMarker
  BY <1>1 DEF ClearMarker
<1>3. queues' \in [Branch -> Seq(QueueEntry)]
  <2>1. <<>> \in Seq(QueueEntry)
    OBVIOUS
  <2> QED
    BY <2>1 DEF TypeOK, clear_queue_for_admin
<1>4. recently_cleared' \in [Branch -> ClearMarker \union {None}]
  BY <1>2 DEF TypeOK, clear_queue_for_admin
<1>5. released' \in [0 .. MaxQueueId - 1 -> Nat]
  BY ReleaseType DEF TypeOK, clear_queue_for_admin
<1> QED
  BY <1>3, <1>4, <1>5 DEF TypeOK, clear_queue_for_admin

\* Removing a branch keeps the types of the registry.
LEMMA RemoveBranchType ==
    ASSUME TypeOK, NEW b \in Branch, RemoveBranch(b)
    PROVE  /\ branches' \subseteq Branch
           /\ refs' \in [Branch -> RefEntry \union {None}]
           /\ retracted' \subseteq Branch
<1> DEFINE r == [refs EXCEPT ![b] = None]
           p == IF refs[b] = None THEN None ELSE refs[b].source_branch
<1>1. r \in [Branch -> RefEntry \union {None}]
  BY DEF TypeOK
<1>2. p \in Branch \union {None}
  BY DEF TypeOK, RefEntry
<1>3. refs' = decrement_child_count(r, p)
  BY DEF RemoveBranch
<1> HIDE DEF r, p
<1>4. decrement_child_count(r, p) \in [Branch -> RefEntry \union {None}]
  <2>1. CASE p = None \/ r[p] = None
    BY <1>1, <2>1 DEF decrement_child_count
  <2>2. CASE ~(p = None \/ r[p] = None)
    <3>1. p \in Branch /\ r[p] \in RefEntry
      BY <1>1, <1>2, <2>2
    <3> DEFINE n == IF r[p].branches = 0 THEN 0 ELSE r[p].branches - 1
    <3>2. n \in Nat
      BY <3>1 DEF RefEntry
    <3>3. [r[p] EXCEPT !.branches = n] \in RefEntry
      BY <3>1, <3>2 DEF RefEntry
    <3>4. decrement_child_count(r, p) = [r EXCEPT ![p] = [r[p] EXCEPT !.branches = n]]
      BY <2>2, <3>1, <1>1 DEF decrement_child_count
    <3> QED
      BY <3>1, <3>3, <3>4, <1>1
  <2> QED
    BY <2>1, <2>2
<1> QED
  BY <1>3, <1>4 DEF TypeOK, RemoveBranch

\* Consuming the front of a queue keeps the types.
LEMMA PopFrontType ==
    ASSUME TypeOK, NEW b \in Branch, NEW kind \in {"Applied", "Failed"},
           NEW c \in Commit \union {None}, NEW at \in Millis,
           queues[b] # <<>>, PopFront(b, kind, c, at)
    PROVE  /\ idempotency' \in [Branch -> [Key -> ApplyOutcome \union {None}]]
           /\ queues' \in [Branch -> Seq(QueueEntry)]
           /\ next_queue_id' \in 0 .. MaxQueueId
           /\ recently_cleared' \in [Branch -> ClearMarker \union {None}]
           /\ released' \in [0 .. MaxQueueId - 1 -> Nat]
<1> DEFINE entry == Head(queues[b])
<1>0. queues[b] \in Seq(QueueEntry)
  BY DEF TypeOK
<1>1. entry \in QueueEntry /\ Tail(queues[b]) \in Seq(QueueEntry)
  BY <1>0
<1>2. at \in Nat
  BY ConstantsAssumption
<1>3. queues' \in [Branch -> Seq(QueueEntry)]
  BY <1>1 DEF TypeOK, PopFront
<1>4. CASE entry.key = None
  <2>1. released' \in [0 .. MaxQueueId - 1 -> Nat]
    BY <1>4, ReleaseType DEF TypeOK, PopFront
  <2> QED
    BY <1>3, <1>4, <2>1 DEF TypeOK, PopFront
<1>5. CASE entry.key # None
  <2> DEFINE rec == [kind |-> kind, request_cid |-> entry.queue_id, body |-> entry.body,
                     recorded_at |-> at, head |-> c]
  <2>1. rec \in ApplyOutcome
    BY <1>1, <1>2 DEF ApplyOutcome, QueueEntry
  <2>2. entry.key \in Key
    BY <1>1, <1>5 DEF QueueEntry
  <2>3. idempotency' = [idempotency EXCEPT ![b] = [idempotency[b] EXCEPT ![entry.key] = rec]]
    BY <1>5 DEF PopFront, TypeOK
  <2> HIDE DEF rec, entry
  <2>4. idempotency' \in [Branch -> [Key -> ApplyOutcome \union {None}]]
    BY <2>1, <2>2, <2>3 DEF TypeOK
  <2> USE DEF entry
  <2> QED
    BY <1>3, <1>5, <2>4 DEF TypeOK, PopFront
<1> QED
  BY <1>4, <1>5

\* An enqueue is accepted only on a live branch, with room, for a key that is
\* neither recorded nor queued.
LEMMA EnqueuedWhen ==
    ASSUME NEW b \in Branch, NEW key, NEW body,
           EnqueueResponse(b, key, body) = "Enqueued"
    PROVE  /\ b \in branches /\ b \notin retracted
           /\ ~Recorded(b, key)
           /\ InFlight(b, key) = {}
<1>1. CASE b \notin branches
  BY <1>1 DEF EnqueueResponse
<1>2. CASE b \in branches /\ b \in retracted
  BY <1>2 DEF EnqueueResponse
<1>3. CASE b \in branches \ retracted /\ Recorded(b, key)
  BY <1>3 DEF EnqueueResponse
<1>4. CASE b \in branches \ retracted /\ ~Recorded(b, key) /\ InFlight(b, key) # {}
  BY <1>4 DEF EnqueueResponse
<1>5. CASE b \in branches \ retracted /\ ~Recorded(b, key) /\ InFlight(b, key) = {}
  BY <1>5
<1> QED
  BY <1>1, <1>2, <1>3, <1>4, <1>5

\* The front of a queue is consumed only if there is one.
LEMMA FrontOk ==
    ASSUME NEW b, NEW id, FrontCheck(b, id) = "Ok"
    PROVE  recently_cleared[b] = None /\ queues[b] # <<>>
BY DEF FrontCheck

LEMMA HeadAppliedWhen ==
    ASSUME NEW b, NEW id, NEW c, HeadResponse(b, id, c) = "HeadApplied"
    PROVE  b \notin retracted /\ FrontCheck(b, id) = "Ok"
BY DEF HeadResponse, FrontCheck

\* Every command keeps the types.
LEMMA TypeStep ==
    ASSUME TypeOK, [Next]_vars
    PROVE  TypeOK'
<1>1. ASSUME NEW b \in Branch, create_ledger(b) PROVE TypeOK'
  BY <1>1 DEF TypeOK, create_ledger, queueVars
<1>2. ASSUME NEW b \in Branch, NEW at \in Millis, retract_ledger(b, at) PROVE TypeOK'
  <2>1. clear_queue_for_admin(b, "BranchRetracted", at)
    BY <1>2 DEF retract_ledger
  <2> QED
    BY <1>2, <2>1, ClearType DEF TypeOK, retract_ledger, ClearReason
<1>3. ASSUME NEW b \in Branch, NEW at \in Millis, purge_branch(b, at) PROVE TypeOK'
  <2>1. clear_queue_for_admin(b, "BranchPurged", at) /\ RemoveBranch(b)
    BY <1>3 DEF purge_branch
  <2> QED
    BY <1>3, <2>1, ClearType, RemoveBranchType DEF TypeOK, purge_branch, ClearReason
<1>4. ASSUME NEW b \in Branch, NEW at \in Millis, drop_branch(b, at) PROVE TypeOK'
  <2>1. clear_queue_for_admin(b, "BranchDropped", at) /\ RemoveBranch(b)
    BY <1>4 DEF drop_branch
  <2> QED
    BY <1>4, <2>1, ClearType, RemoveBranchType DEF TypeOK, drop_branch, ClearReason
<1>5. ASSUME NEW b \in Branch, NEW src \in Branch, NEW c \in Commit \union {None},
             create_branch(b, src, c)
      PROVE  TypeOK'
  <2> DEFINE e == [head |-> IF c = None THEN refs[src].head ELSE c,
                   index |-> None, source_branch |-> src, branches |-> 0]
             f == [refs[src] EXCEPT !.branches = @ + 1]
  <2>1. refs[src] \in RefEntry
    BY <1>5 DEF TypeOK, create_branch
  <2>2. e \in RefEntry /\ f \in RefEntry
    BY <2>1 DEF RefEntry
  <2>3. refs' = [[refs EXCEPT ![src] = f] EXCEPT ![b] = e]
    BY <1>5 DEF create_branch, TypeOK
  <2> HIDE DEF e, f
  <2>4. refs' \in [Branch -> RefEntry \union {None}]
    BY <2>2, <2>3 DEF TypeOK
  <2> QED
    BY <1>5, <2>4 DEF TypeOK, create_branch, queueVars
<1>6. ASSUME NEW b \in Branch, NEW s \in Snapshot, NEW at \in Millis,
             reset_head(b, s, at)
      PROVE  TypeOK'
  <2>1. clear_queue_for_admin(b, "BranchHeadReset", at)
    BY <1>6 DEF reset_head
  <2>2. s \in ResetHeadSnapshot
    BY ConstantsAssumption
  <2>3. ResetRef(refs[b], s) \in RefEntry \union {None}
    <3>1. refs[b] \in RefEntry \union {None}
      BY DEF TypeOK
    <3> QED
      BY <3>1, <2>2 DEF ResetRef, RefEntry, ResetHeadSnapshot
  <2>4. refs' \in [Branch -> RefEntry \union {None}]
    BY <1>6, <2>3 DEF reset_head, TypeOK
  <2> QED
    BY <1>6, <2>1, <2>4, ClearType DEF TypeOK, reset_head, ClearReason
<1>7. ASSUME NEW b \in Branch, NEW x \in IndexRoot \union {None},
             refs[b] # None, refs' = [refs EXCEPT ![b].index = x],
             UNCHANGED <<branches, retracted, idempotency, queueVars, released>>
      PROVE  TypeOK'
  <2>1. [refs[b] EXCEPT !.index = x] \in RefEntry
    BY <1>7 DEF TypeOK, RefEntry
  <2>2. refs' \in [Branch -> RefEntry \union {None}]
    BY <1>7, <2>1 DEF TypeOK
  <2> QED
    BY <1>7, <2>2 DEF TypeOK, queueVars
<1>8. ASSUME NEW b \in Branch, NEW x \in IndexRoot,
             advance_index_head(b, x) \/ rewrite_index_head(b, x)
      PROVE  TypeOK'
  BY <1>7, <1>8 DEF advance_index_head, rewrite_index_head, set_index_head
<1>9. ASSUME NEW b \in Branch, NEW c \in Commit, refs[b] # None
      PROVE  [refs[b] EXCEPT !.head = c] \in RefEntry
  BY <1>9 DEF TypeOK, RefEntry
<1>10. ASSUME NEW c \in Commit
       PROVE  [head |-> c, index |-> None, source_branch |-> None, branches |-> 0]
                \in RefEntry
  BY DEF RefEntry
<1>11. ASSUME NEW b \in Branch, NEW e \in Commit \union {None}, NEW c \in Commit,
              compare_and_set_commit(b, e, c)
       PROVE  TypeOK'
  <2>1. refs' \in [Branch -> RefEntry \union {None}]
    BY <1>9, <1>10, <1>11 DEF TypeOK, compare_and_set_commit
  <2> QED
    BY <1>11, <2>1 DEF TypeOK, compare_and_set_commit, queueVars
<1>12. ASSUME NEW b \in Branch, NEW e \in IndexRoot \union {None},
              NEW x \in IndexRoot \union {None}, NEW t, compare_and_set_index(b, e, x, t)
       PROVE  TypeOK'
  BY <1>7, <1>12 DEF compare_and_set_index
<1>13. ASSUME NEW b \in Branch, NEW k \in Key \union {None}, NEW body \in Body,
              apply_enqueue_command(b, k, body)
       PROVE  TypeOK'
  <2>1. [queue_id |-> next_queue_id, key |-> k, body |-> body] \in QueueEntry
    BY ConstantsAssumption DEF QueueEntry, TypeOK
  <2>2. queues' \in [Branch -> Seq(QueueEntry)]
    BY <1>13, <2>1 DEF TypeOK, apply_enqueue_command
  <2>3. next_queue_id' \in 0 .. MaxQueueId
    BY <1>13, ConstantsAssumption DEF TypeOK, apply_enqueue_command
  <2>4. recently_cleared' \in [Branch -> ClearMarker \union {None}]
    BY <1>13 DEF TypeOK, apply_enqueue_command
  <2> QED
    BY <1>13, <2>2, <2>3, <2>4 DEF TypeOK, apply_enqueue_command, registryVars
<1>14. ASSUME NEW b \in Branch, ConsumeMarker(b) PROVE TypeOK'
  <2>1. recently_cleared' \in [Branch -> ClearMarker \union {None}]
    BY <1>14 DEF TypeOK, ConsumeMarker
  <2> QED
    BY <1>14, <2>1 DEF TypeOK, ConsumeMarker, registryVars
<1>15. ASSUME NEW b \in Branch, NEW id \in IssuedIds, NEW c \in Commit, NEW at \in Millis,
              apply_head(b, id, c, at)
       PROVE  TypeOK'
  <2>1. CASE HeadResponse(b, id, c) = "HeadApplied" /\ PopFront(b, "Applied", c, at)
             /\ refs' = [refs EXCEPT ![b] = AdvancedRef(b, c)]
             /\ branches' = (IF branches = {} THEN branches ELSE branches \union {b})
             /\ UNCHANGED retracted
    <3>1. queues[b] # <<>>
      BY <2>1, HeadAppliedWhen, FrontOk
    <3>2. AdvancedRef(b, c) \in RefEntry
      BY <1>9, <1>10 DEF AdvancedRef
    <3>3. refs' \in [Branch -> RefEntry \union {None}]
      BY <2>1, <3>2 DEF TypeOK
    <3>4. branches' \subseteq Branch /\ retracted' \subseteq Branch
      BY <2>1 DEF TypeOK
    <3> QED
      BY <2>1, <3>1, <3>3, <3>4, PopFrontType DEF TypeOK
  <2>2. CASE ConsumeMarker(b)
    BY <1>14, <2>2
  <2> QED
    BY <1>15, <2>1, <2>2 DEF apply_head
<1>16. ASSUME NEW b \in Branch, NEW id \in IssuedIds, NEW at \in Millis,
              apply_poison_queue_entry(b, id, at)
       PROVE  TypeOK'
  <2>1. CASE FrontCheck(b, id) = "Ok" /\ PopFront(b, "Failed", None, at)
             /\ UNCHANGED registryVars
    <3>1. queues[b] # <<>>
      BY <2>1, FrontOk
    <3> QED
      BY <2>1, <3>1, PopFrontType DEF TypeOK, registryVars
  <2>2. CASE ConsumeMarker(b)
    BY <1>14, <2>2
  <2> QED
    BY <1>16, <2>1, <2>2 DEF apply_poison_queue_entry
<1>17. ASSUME NEW cutoff \in Millis, NEW marker_cutoff \in Millis,
              apply_evict_idempotency(cutoff, marker_cutoff)
       PROVE  TypeOK'
  <2>1. idempotency' \in [Branch -> [Key -> ApplyOutcome \union {None}]]
    BY <1>17 DEF TypeOK, apply_evict_idempotency
  <2>2. released' \in [0 .. MaxQueueId - 1 -> Nat]
    BY <1>17, ReleaseType DEF TypeOK, apply_evict_idempotency
  <2>3. recently_cleared' \in [Branch -> ClearMarker \union {None}]
    BY <1>17 DEF TypeOK, apply_evict_idempotency
  <2> QED
    BY <1>17, <2>1, <2>2, <2>3 DEF TypeOK, apply_evict_idempotency, registryVars
<1>18. CASE UNCHANGED vars
  BY <1>18 DEF vars, TypeOK
<1> QED
  BY <1>1, <1>2, <1>3, <1>4, <1>5, <1>6, <1>8, <1>11, <1>12, <1>13, <1>15, <1>16,
     <1>17, <1>18 DEF Next

\* Type correctness: every command keeps the state of NameServiceState well
\* formed.
THEOREM TypeCorrect == Spec => []TypeOK
<1>1. Init => TypeOK
  <2> SUFFICES ASSUME Init PROVE TypeOK
    OBVIOUS
  <2>1. queues \in [Branch -> Seq(QueueEntry)]
    BY DEF Init
  <2>2. released \in [0 .. MaxQueueId - 1 -> Nat]
    BY DEF Init
  <2>3. next_queue_id \in 0 .. MaxQueueId
    BY ConstantsAssumption DEF Init
  <2> QED
    BY <2>1, <2>2, <2>3 DEF Init, TypeOK
<1>2. TypeOK /\ [Next]_vars => TypeOK'
  BY TypeStep
<1> QED
  BY <1>1, <1>2, PTL DEF Spec

-----------------------------------------------------------------------------
(* The queue invariant.  Its three parts need each other nowhere, but they  *)
(* are disturbed by the same three operations on a queue: an admin clear,  *)
(* the pop of the front and the append of a fresh entry.                   *)

QueueInv == MarkerOnlyWhenIdle /\ QueueIdsOrdered /\ KeyLiveOnce

\* Commands that touch neither the queues nor the records keep QueueInv.
LEMMA QueueInvStutters ==
    ASSUME QueueInv, UNCHANGED <<queueVars, idempotency>>
    PROVE  QueueInv'
BY DEF QueueInv, MarkerOnlyWhenIdle, QueueIdsOrdered, KeyLiveOnce, queueVars

\* An admin clear keeps QueueInv.
LEMMA ClearKeepsQueueInv ==
    ASSUME TypeOK, QueueInv, NEW b \in Branch, NEW reason, NEW at,
           clear_queue_for_admin(b, reason, at), UNCHANGED idempotency
    PROVE  QueueInv'
<1>1. \A a \in Branch : queues'[a] = IF a = b THEN <<>> ELSE queues[a]
  BY DEF clear_queue_for_admin, TypeOK
<1>2. \A a \in Branch : a # b => recently_cleared'[a] = recently_cleared[a]
  BY DEF clear_queue_for_admin, TypeOK
<1>3. next_queue_id' = next_queue_id
  BY DEF clear_queue_for_admin
<1>4. MarkerOnlyWhenIdle'
  BY <1>1, <1>2 DEF QueueInv, MarkerOnlyWhenIdle
<1>5. QueueIdsOrdered'
  BY <1>1, <1>3 DEF QueueInv, QueueIdsOrdered
<1>6. KeyLiveOnce'
  BY <1>1 DEF QueueInv, KeyLiveOnce
<1> QED
  BY <1>4, <1>5, <1>6 DEF QueueInv

\* The pop of a front, with the record it leaves, keeps QueueInv.
LEMMA PopFrontKeepsQueueInv ==
    ASSUME TypeOK, QueueInv, NEW b \in Branch, NEW kind, NEW c, NEW at,
           queues[b] # <<>>, PopFront(b, kind, c, at)
    PROVE  QueueInv'
<1> DEFINE entry == Head(queues[b])
<1>0. queues[b] \in Seq(QueueEntry) /\ entry = queues[b][1] /\ 1 \in 1 .. Len(queues[b])
  BY DEF TypeOK
<1>1. \A a \in Branch : queues'[a] = IF a = b THEN Tail(queues[b]) ELSE queues[a]
  BY DEF PopFront, TypeOK
<1>2. /\ Len(Tail(queues[b])) = Len(queues[b]) - 1
      /\ \A i \in 1 .. Len(Tail(queues[b])) :
            /\ i + 1 \in 1 .. Len(queues[b])
            /\ Tail(queues[b])[i] = queues[b][i + 1]
  BY <1>0
<1>3. next_queue_id' = next_queue_id /\ recently_cleared' = recently_cleared
  BY DEF PopFront
<1>4. MarkerOnlyWhenIdle'
  BY <1>1, <1>3 DEF QueueInv, MarkerOnlyWhenIdle
<1>5. QueueIdsOrdered'
  <2>1. \A a \in Branch : \A i \in 1 .. Len(queues'[a]) :
           \E k \in 1 .. Len(queues[a]) :
              /\ queues'[a][i] = queues[a][k]
              /\ k = IF a = b THEN i + 1 ELSE i
    BY <1>1, <1>2
  <2>2. \A a \in Branch : \A i, j \in 1 .. Len(queues'[a]) :
           i < j => queues'[a][i].queue_id < queues'[a][j].queue_id
    <3> SUFFICES ASSUME NEW a \in Branch, NEW i \in 1 .. Len(queues'[a]),
                        NEW j \in 1 .. Len(queues'[a]), i < j
                 PROVE  queues'[a][i].queue_id < queues'[a][j].queue_id
      OBVIOUS
    <3>1. PICK k \in 1 .. Len(queues[a]) :
              queues'[a][i] = queues[a][k] /\ k = IF a = b THEN i + 1 ELSE i
      BY <2>1
    <3>2. PICK l \in 1 .. Len(queues[a]) :
              queues'[a][j] = queues[a][l] /\ l = IF a = b THEN j + 1 ELSE j
      BY <2>1
    <3>3. k < l
      BY <3>1, <3>2
    <3> QED
      BY <3>1, <3>2, <3>3 DEF QueueInv, QueueIdsOrdered
  <2>3. \A a \in Branch : \A i \in 1 .. Len(queues'[a]) :
           queues'[a][i].queue_id < next_queue_id'
    BY <1>3, <2>1 DEF QueueInv, QueueIdsOrdered
  <2>4. \A a, d \in Branch :
           \A i \in 1 .. Len(queues'[a]), j \in 1 .. Len(queues'[d]) :
              queues'[a][i].queue_id = queues'[d][j].queue_id => a = d
    <3> SUFFICES ASSUME NEW a \in Branch, NEW d \in Branch, NEW i \in 1 .. Len(queues'[a]),
                        NEW j \in 1 .. Len(queues'[d]),
                        queues'[a][i].queue_id = queues'[d][j].queue_id
                 PROVE  a = d
      OBVIOUS
    <3>1. PICK k \in 1 .. Len(queues[a]) : queues'[a][i] = queues[a][k]
      BY <2>1
    <3>2. PICK l \in 1 .. Len(queues[d]) : queues'[d][j] = queues[d][l]
      BY <2>1
    <3> QED
      BY <3>1, <3>2 DEF QueueInv, QueueIdsOrdered
  <2> QED
    BY <2>2, <2>3, <2>4 DEF QueueIdsOrdered
<1>6. \A a \in Branch, k \in Key :
         idempotency'[a][k] = idempotency[a][k] \/ (a = b /\ k = entry.key)
  <2>1. CASE entry.key = None
    BY <2>1 DEF PopFront
  <2>2. CASE entry.key # None
    BY <2>2 DEF PopFront, TypeOK
  <2> QED
    BY <2>1, <2>2
<1>7. KeyLiveOnce'
  <2> SUFFICES ASSUME NEW a \in Branch, NEW i \in 1 .. Len(queues'[a]),
                      NEW j \in 1 .. Len(queues'[a]), queues'[a][i].key # None
               PROVE  /\ queues'[a][i].key = queues'[a][j].key => i = j
                      /\ idempotency'[a][queues'[a][i].key] = None
    BY DEF KeyLiveOnce
  <2>1. CASE a # b
    <3>1. queues'[a] = queues[a]
      BY <1>1, <2>1
    <3>2. queues[a][i] \in QueueEntry
      BY <3>1 DEF TypeOK
    <3>3. queues[a][i].key \in Key
      BY <3>1, <3>2 DEF QueueEntry
    <3> QED
      BY <3>1, <3>3, <2>1, <1>6 DEF QueueInv, KeyLiveOnce
  <2>2. CASE a = b
    <3>1. /\ i + 1 \in 1 .. Len(queues[b]) /\ queues'[b][i] = queues[b][i + 1]
          /\ j + 1 \in 1 .. Len(queues[b]) /\ queues'[b][j] = queues[b][j + 1]
      BY <1>1, <1>2, <2>2
    <3>2. /\ queues[b][i + 1].key = queues[b][j + 1].key => i + 1 = j + 1
          /\ idempotency[b][queues[b][i + 1].key] = None
      BY <3>1, <2>2 DEF QueueInv, KeyLiveOnce
    <3>3. queues[b][i + 1].key # entry.key
      <4>1. queues[b][i + 1].key = queues[b][1].key => i + 1 = 1
        BY <3>1, <1>0, <2>2 DEF QueueInv, KeyLiveOnce
      <4>2. i + 1 # 1
        OBVIOUS
      <4> QED
        BY <4>1, <4>2, <1>0
    <3>4. queues[b][i + 1].key \in Key
      <4>1. queues[b][i + 1] \in QueueEntry
        BY <3>1, <1>0
      <4> QED
        BY <4>1, <3>1, <2>2 DEF QueueEntry
    <3>5. idempotency'[b][queues[b][i + 1].key] = None
      BY <3>2, <3>3, <3>4, <1>6
    <3> QED
      BY <3>1, <3>2, <3>5, <2>2
  <2> QED
    BY <2>1, <2>2
<1> QED
  BY <1>4, <1>5, <1>7 DEF QueueInv

\* The append of a fresh entry keeps QueueInv: its id is above every id in
\* use, its key is nowhere, and the marker goes.
LEMMA EnqueueKeepsQueueInv ==
    ASSUME TypeOK, QueueInv, NEW b \in Branch, NEW k \in Key \union {None}, NEW body \in Body,
           apply_enqueue_command(b, k, body)
    PROVE  QueueInv'
<1> DEFINE e == [queue_id |-> next_queue_id, key |-> k, body |-> body]
           q == queues[b]
<1>0. q \in Seq(QueueEntry) /\ next_queue_id \in Nat
  BY ConstantsAssumption DEF TypeOK
<1>1. \A a \in Branch : queues'[a] = IF a = b THEN Append(q, e) ELSE queues[a]
  BY DEF apply_enqueue_command, TypeOK
<1>2. /\ Len(Append(q, e)) = Len(q) + 1
      /\ \A i \in 1 .. Len(q) : Append(q, e)[i] = q[i]
      /\ Append(q, e)[Len(q) + 1] = e
  <2> HIDE DEF e, q
  <2> QED
    BY <1>0
<1>3. next_queue_id' = next_queue_id + 1
  BY DEF apply_enqueue_command
<1>4. /\ idempotency' = idempotency
      /\ ~Recorded(b, k)
      /\ InFlight(b, k) = {}
  BY EnqueuedWhen DEF apply_enqueue_command
<1>5. MarkerOnlyWhenIdle'
  <2>1. \A a \in Branch : recently_cleared'[a] = IF a = b THEN None ELSE recently_cleared[a]
    BY DEF apply_enqueue_command, TypeOK
  <2> QED
    BY <1>1, <2>1 DEF QueueInv, MarkerOnlyWhenIdle
<1>6. e.queue_id = next_queue_id /\ e.key = k
  OBVIOUS
<1>7. \A a \in Branch : \A i \in 1 .. Len(queues[a]) :
         /\ queues[a][i].queue_id \in Nat
         /\ queues[a][i].key \in Key \union {None}
         /\ queues[a][i].queue_id < next_queue_id
  <2>1. \A a \in Branch : \A i \in 1 .. Len(queues[a]) : queues[a][i] \in QueueEntry
    BY DEF TypeOK
  <2> QED
    BY <2>1 DEF QueueInv, QueueIdsOrdered, QueueEntry
\* Every entry of the new queues is an old one in its place, or the fresh one.
<1>8. \A a \in Branch : \A i \in 1 .. Len(queues'[a]) :
         \/ i \in 1 .. Len(queues[a]) /\ queues'[a][i] = queues[a][i]
         \/ a = b /\ i = Len(q) + 1 /\ queues'[a][i] = e
  <2> SUFFICES ASSUME NEW a \in Branch, NEW i \in 1 .. Len(queues'[a])
               PROVE  \/ i \in 1 .. Len(queues[a]) /\ queues'[a][i] = queues[a][i]
                      \/ a = b /\ i = Len(q) + 1 /\ queues'[a][i] = e
    OBVIOUS
  <2>0. a = b => queues[a] = q
    OBVIOUS
  <2> HIDE DEF e, q
  <2>1. CASE a # b
    BY <1>1, <2>1
  <2>2. CASE a = b
    <3>1. queues'[a] = Append(q, e)
      BY <1>1, <2>2, Zenon
    <3>0. Len(q) \in Nat
      BY <1>0
    <3>2. i \in 1 .. Len(q) \/ i = Len(q) + 1
      BY <1>2, <3>0, <3>1
    <3> QED
      BY <1>2, <2>0, <2>2, <3>1, <3>2
  <2> QED
    BY <2>1, <2>2
<1> HIDE DEF e, q
<1>9. QueueIdsOrdered'
  <2>1. \A a \in Branch : \A i, j \in 1 .. Len(queues'[a]) :
           i < j => queues'[a][i].queue_id < queues'[a][j].queue_id
    <3> SUFFICES ASSUME NEW a \in Branch, NEW i \in 1 .. Len(queues'[a]),
                        NEW j \in 1 .. Len(queues'[a]), i < j
                 PROVE  queues'[a][i].queue_id < queues'[a][j].queue_id
      OBVIOUS
    <3>1. Len(queues[a]) \in Nat /\ (a = b => queues[a] = q)
      BY DEF TypeOK, q
    <3>2. i \in 1 .. Len(queues[a]) /\ queues'[a][i] = queues[a][i]
      <4>1. CASE a = b
        <5>1. Len(queues'[a]) = Len(q) + 1
          BY <1>1, <1>2, <4>1
        <5> QED
          BY <1>8, <3>1, <4>1, <5>1
      <4>2. CASE a # b
        BY <1>8, <4>2
      <4> QED
        BY <4>1, <4>2
    <3>3. CASE j \in 1 .. Len(queues[a]) /\ queues'[a][j] = queues[a][j]
      BY <3>2, <3>3 DEF QueueInv, QueueIdsOrdered
    <3>4. CASE queues'[a][j] = e
      BY <3>2, <3>4, <1>6, <1>7
    <3> QED
      BY <1>8, <3>3, <3>4
  <2>2. \A a \in Branch : \A i \in 1 .. Len(queues'[a]) :
           queues'[a][i].queue_id < next_queue_id'
    BY <1>0, <1>3, <1>6, <1>7, <1>8
  <2>3. \A a, d \in Branch :
           \A i \in 1 .. Len(queues'[a]), j \in 1 .. Len(queues'[d]) :
              queues'[a][i].queue_id = queues'[d][j].queue_id => a = d
    <3> SUFFICES ASSUME NEW a \in Branch, NEW d \in Branch, NEW i \in 1 .. Len(queues'[a]),
                        NEW j \in 1 .. Len(queues'[d]),
                        queues'[a][i].queue_id = queues'[d][j].queue_id
                 PROVE  a = d
      OBVIOUS
    <3>1. CASE queues'[a][i] = queues[a][i] /\ i \in 1 .. Len(queues[a])
      <4>1. CASE queues'[d][j] = queues[d][j] /\ j \in 1 .. Len(queues[d])
        BY <3>1, <4>1 DEF QueueInv, QueueIdsOrdered
      <4>2. CASE queues'[d][j] = e
        BY <1>0, <3>1, <4>2, <1>6, <1>7
      <4> QED
        BY <4>1, <4>2, <1>8
    <3>2. CASE a = b /\ queues'[a][i] = e
      <4>1. CASE queues'[d][j] = queues[d][j] /\ j \in 1 .. Len(queues[d])
        BY <1>0, <3>2, <4>1, <1>6, <1>7
      <4>2. CASE d = b
        BY <3>2, <4>2
      <4> QED
        BY <4>1, <4>2, <1>8
    <3> QED
      BY <3>1, <3>2, <1>8
  <2> QED
    BY <2>1, <2>2, <2>3 DEF QueueIdsOrdered
<1>10. k # None => /\ idempotency[b][k] = None
                   /\ \A i \in 1 .. Len(q) : q[i].key # k
  <2>1. DOMAIN queues[b] = 1 .. Len(q)
    BY <1>0 DEF q
  <2> QED
    BY <1>4, <2>1 DEF Recorded, InFlight, q
<1>11. KeyLiveOnce'
  <2> SUFFICES ASSUME NEW a \in Branch, NEW i \in 1 .. Len(queues'[a]),
                      NEW j \in 1 .. Len(queues'[a]), queues'[a][i].key # None
               PROVE  /\ queues'[a][i].key = queues'[a][j].key => i = j
                      /\ idempotency'[a][queues'[a][i].key] = None
    BY DEF KeyLiveOnce
  <2>0. a = b => queues[a] = q
    BY DEF q
  <2>1. CASE i \in 1 .. Len(queues[a]) /\ queues'[a][i] = queues[a][i]
    <3>1. idempotency'[a][queues'[a][i].key] = None
      BY <2>1, <1>4 DEF QueueInv, KeyLiveOnce
    <3>2. CASE j \in 1 .. Len(queues[a]) /\ queues'[a][j] = queues[a][j]
      BY <2>1, <3>1, <3>2 DEF QueueInv, KeyLiveOnce
    <3>3. CASE a = b /\ queues'[a][j] = e
      BY <2>0, <2>1, <3>1, <3>3, <1>6, <1>10
    <3> QED
      BY <3>2, <3>3, <1>8
  <2>2. CASE a = b /\ i = Len(q) + 1 /\ queues'[a][i] = e
    <3>1. idempotency'[a][queues'[a][i].key] = None
      BY <2>2, <1>4, <1>6, <1>10
    <3>2. CASE j \in 1 .. Len(queues[a]) /\ queues'[a][j] = queues[a][j]
      BY <2>0, <2>2, <3>1, <3>2, <1>6, <1>10
    <3>3. CASE j = Len(q) + 1
      BY <2>2, <3>1, <3>3
    <3> QED
      BY <3>2, <3>3, <1>8
  <2> QED
    BY <2>1, <2>2, <1>8
<1> QED
  BY <1>5, <1>9, <1>11 DEF QueueInv

\* What the response to an admin-cleared claim and an eviction do to the
\* markers and the records.
LEMMA MarkerRemovalKeepsQueueInv ==
    ASSUME QueueInv, UNCHANGED <<queues, next_queue_id>>,
           \A b \in Branch : recently_cleared'[b] \in {recently_cleared[b], None},
           \A b \in Branch, k \in Key : idempotency'[b][k] \in {idempotency[b][k], None},
           TypeOK
    PROVE  QueueInv'
<1>1. MarkerOnlyWhenIdle'
  BY DEF QueueInv, MarkerOnlyWhenIdle
<1>2. QueueIdsOrdered'
  BY DEF QueueInv, QueueIdsOrdered
<1>3. KeyLiveOnce'
  <2>1. \A b \in Branch : \A i \in 1 .. Len(queues[b]) : queues[b][i] \in QueueEntry
    BY DEF TypeOK
  <2>2. \A b \in Branch : \A i \in 1 .. Len(queues[b]) :
           queues[b][i].key # None => queues[b][i].key \in Key
    BY <2>1 DEF QueueEntry
  <2> QED
    BY <2>2 DEF QueueInv, KeyLiveOnce
<1> QED
  BY <1>1, <1>2, <1>3 DEF QueueInv

\* Every command keeps QueueInv.
LEMMA QueueInvStep ==
    ASSUME TypeOK, QueueInv, [Next]_vars
    PROVE  QueueInv'
<1>1. ASSUME NEW b \in Branch, create_ledger(b) PROVE QueueInv'
  BY <1>1, QueueInvStutters DEF create_ledger
<1>2. ASSUME NEW b \in Branch, NEW at \in Millis, retract_ledger(b, at) PROVE QueueInv'
  BY <1>2, ClearKeepsQueueInv DEF retract_ledger
<1>3. ASSUME NEW b \in Branch, NEW at \in Millis, purge_branch(b, at) PROVE QueueInv'
  BY <1>3, ClearKeepsQueueInv DEF purge_branch
<1>4. ASSUME NEW b \in Branch, NEW at \in Millis, drop_branch(b, at) PROVE QueueInv'
  BY <1>4, ClearKeepsQueueInv DEF drop_branch
<1>5. ASSUME NEW b \in Branch, NEW src \in Branch, NEW c, create_branch(b, src, c)
      PROVE  QueueInv'
  BY <1>5, QueueInvStutters DEF create_branch
<1>6. ASSUME NEW b \in Branch, NEW s, NEW at \in Millis, reset_head(b, s, at) PROVE QueueInv'
  BY <1>6, ClearKeepsQueueInv DEF reset_head
<1>7. ASSUME NEW b \in Branch, NEW x, advance_index_head(b, x) \/ rewrite_index_head(b, x)
      PROVE  QueueInv'
  BY <1>7, QueueInvStutters DEF advance_index_head, rewrite_index_head, set_index_head
<1>8. ASSUME NEW b \in Branch, NEW e, NEW c, compare_and_set_commit(b, e, c) PROVE QueueInv'
  BY <1>8, QueueInvStutters DEF compare_and_set_commit
<1>9. ASSUME NEW b \in Branch, NEW e, NEW x, NEW t, compare_and_set_index(b, e, x, t)
      PROVE  QueueInv'
  BY <1>9, QueueInvStutters DEF compare_and_set_index
<1>10. ASSUME NEW b \in Branch, NEW k \in Key \union {None}, NEW body \in Body,
              apply_enqueue_command(b, k, body)
       PROVE  QueueInv'
  BY <1>10, EnqueueKeepsQueueInv
<1>11. ASSUME NEW b \in Branch, ConsumeMarker(b) PROVE QueueInv'
  <2>1. \A a \in Branch : recently_cleared'[a] \in {recently_cleared[a], None}
    BY <1>11 DEF ConsumeMarker, TypeOK
  <2> QED
    BY <1>11, <2>1, MarkerRemovalKeepsQueueInv DEF ConsumeMarker
<1>12. ASSUME NEW b \in Branch, NEW id, NEW c, NEW at, apply_head(b, id, c, at)
       PROVE  QueueInv'
  <2>1. CASE HeadResponse(b, id, c) = "HeadApplied" /\ PopFront(b, "Applied", c, at)
    BY <2>1, HeadAppliedWhen, FrontOk, PopFrontKeepsQueueInv
  <2>2. CASE ConsumeMarker(b)
    BY <1>11, <2>2
  <2> QED
    BY <1>12, <2>1, <2>2 DEF apply_head
<1>13. ASSUME NEW b \in Branch, NEW id, NEW at, apply_poison_queue_entry(b, id, at)
       PROVE  QueueInv'
  <2>1. CASE FrontCheck(b, id) = "Ok" /\ PopFront(b, "Failed", None, at)
    BY <2>1, FrontOk, PopFrontKeepsQueueInv
  <2>2. CASE ConsumeMarker(b)
    BY <1>11, <2>2
  <2> QED
    BY <1>13, <2>1, <2>2 DEF apply_poison_queue_entry
<1>14. ASSUME NEW cutoff, NEW marker_cutoff, apply_evict_idempotency(cutoff, marker_cutoff)
       PROVE  QueueInv'
  <2>1. \A a \in Branch : recently_cleared'[a] \in {recently_cleared[a], None}
    BY <1>14 DEF apply_evict_idempotency
  <2>2. \A a \in Branch, k \in Key : idempotency'[a][k] \in {idempotency[a][k], None}
    BY <1>14 DEF apply_evict_idempotency
  <2> QED
    BY <1>14, <2>1, <2>2, MarkerRemovalKeepsQueueInv DEF apply_evict_idempotency
<1>15. CASE UNCHANGED vars
  BY <1>15, QueueInvStutters DEF vars, queueVars
<1> QED
  BY <1>1, <1>2, <1>3, <1>4, <1>5, <1>6, <1>7, <1>8, <1>9, <1>10, <1>12, <1>13, <1>14,
     <1>15 DEF Next

\* The queues are sound: markers never meet entries, ids are ordered and name
\* one entry, and a key is live in one place (apply_enqueue_command,
\* pop_validated_front, clear_queue_for_admin).
THEOREM QueuesSound ==
    Spec => [](MarkerOnlyWhenIdle /\ QueueIdsOrdered /\ KeyLiveOnce)
<1>1. Init => QueueInv
  <2> SUFFICES ASSUME Init PROVE QueueInv
    OBVIOUS
  <2>1. \A b \in Branch : queues[b] = <<>> /\ recently_cleared[b] = None
    BY DEF Init
  <2> QED
    BY <2>1 DEF QueueInv, MarkerOnlyWhenIdle, QueueIdsOrdered, KeyLiveOnce
<1>2. TypeOK /\ QueueInv /\ [Next]_vars => QueueInv'
  BY QueueInvStep
<1>3. QueueInv => MarkerOnlyWhenIdle /\ QueueIdsOrdered /\ KeyLiveOnce
  BY DEF QueueInv
<1> QED
  BY <1>1, <1>2, <1>3, TypeCorrect, PTL DEF Spec

-----------------------------------------------------------------------------
(* The registry.                                                           *)

\* Setting a field of a branch that is registered cannot unsettle the registry.
LEMMA RegisteredRefUpdate ==
    ASSUME TypeOK, RegistryConsistent, NEW b \in branches, NEW e,
           refs' = [refs EXCEPT ![b] = e], UNCHANGED <<branches, retracted, queues>>
    PROVE  RegistryConsistent'
BY DEF TypeOK, RegistryConsistent

\* Lowering a child count gives no branch a ref.
LEMMA DecrementKeepsNone ==
    ASSUME NEW r \in [Branch -> RefEntry \union {None}], NEW p \in Branch \union {None},
           NEW a \in Branch, r[a] = None
    PROVE  decrement_child_count(r, p)[a] = None
BY DEF decrement_child_count

\* Removing a branch together with its queue keeps the registry consistent.
LEMMA RemoveKeepsRegistry ==
    ASSUME TypeOK, RegistryConsistent, NEW b \in Branch, NEW reason, NEW at,
           RemoveBranch(b), clear_queue_for_admin(b, reason, at)
    PROVE  RegistryConsistent'
<1> DEFINE r == [refs EXCEPT ![b] = None]
           p == IF refs[b] = None THEN None ELSE refs[b].source_branch
<1>1. r \in [Branch -> RefEntry \union {None}] /\ p \in Branch \union {None}
  BY DEF TypeOK, RefEntry
<1>2. refs' = decrement_child_count(r, p)
  BY DEF RemoveBranch
<1>3. \A a \in Branch : refs[a] = None \/ a = b => refs'[a] = None
  <2>1. \A a \in Branch : refs[a] = None \/ a = b => r[a] = None
    BY DEF TypeOK
  <2> HIDE DEF r, p
  <2> QED
    BY <1>1, <1>2, <2>1, DecrementKeepsNone
<1>4. \A a \in Branch : queues'[a] = IF a = b THEN <<>> ELSE queues[a]
  BY DEF clear_queue_for_admin, TypeOK
<1>5. branches' = branches \ {b} /\ retracted' = retracted \ {b}
  BY DEF RemoveBranch
<1> QED
  BY <1>3, <1>4, <1>5 DEF RegistryConsistent, TypeOK

\* Every command keeps the registry consistent.
LEMMA RegistryStep ==
    ASSUME TypeOK, RegistryConsistent, [Next]_vars
    PROVE  RegistryConsistent'
<1>1. ASSUME NEW b \in Branch, create_ledger(b) PROVE RegistryConsistent'
  BY <1>1 DEF create_ledger, queueVars, RegistryConsistent
<1>2. ASSUME NEW b \in Branch, NEW at, retract_ledger(b, at) PROVE RegistryConsistent'
  <2>1. \A a \in Branch : queues'[a] = IF a = b THEN <<>> ELSE queues[a]
    BY <1>2 DEF retract_ledger, clear_queue_for_admin, TypeOK
  <2> QED
    BY <1>2, <2>1 DEF retract_ledger, RegistryConsistent, TypeOK
<1>3. ASSUME NEW b \in Branch, NEW at, purge_branch(b, at) PROVE RegistryConsistent'
  BY <1>3, RemoveKeepsRegistry DEF purge_branch
<1>4. ASSUME NEW b \in Branch, NEW at, drop_branch(b, at) PROVE RegistryConsistent'
  BY <1>4, RemoveKeepsRegistry DEF drop_branch
<1>5. ASSUME NEW b \in Branch, NEW src \in Branch, NEW c, create_branch(b, src, c)
      PROVE  RegistryConsistent'
  <2>1. src \in branches
    BY <1>5 DEF create_branch, RegistryConsistent
  <2>2. \A a \in Branch : a # b /\ a # src => refs'[a] = refs[a]
    BY <1>5 DEF create_branch, TypeOK
  <2> QED
    BY <1>5, <2>1, <2>2 DEF create_branch, queueVars, RegistryConsistent
<1>6. ASSUME NEW b \in Branch, NEW s, NEW at, reset_head(b, s, at) PROVE RegistryConsistent'
  <2>1. \A a \in Branch : queues'[a] = IF a = b THEN <<>> ELSE queues[a]
    BY <1>6 DEF reset_head, clear_queue_for_admin, TypeOK
  <2>2. \A a \in Branch : a # b => refs'[a] = refs[a]
    BY <1>6 DEF reset_head, TypeOK
  <2> QED
    BY <1>6, <2>1, <2>2 DEF reset_head, RegistryConsistent, TypeOK
<1>7. ASSUME NEW b \in Branch, NEW x, advance_index_head(b, x) \/ rewrite_index_head(b, x)
      PROVE  RegistryConsistent'
  <2>1. b \in branches /\ refs' = [refs EXCEPT ![b] = [refs[b] EXCEPT !.index = x]]
    BY <1>7 DEF advance_index_head, rewrite_index_head, set_index_head, RegistryConsistent, TypeOK
  <2>2. UNCHANGED <<branches, retracted, queues>>
    BY <1>7 DEF advance_index_head, rewrite_index_head, set_index_head, queueVars
  <2> QED
    BY <2>1, <2>2, RegisteredRefUpdate
<1>8. ASSUME NEW b \in Branch, NEW e, NEW c, compare_and_set_commit(b, e, c)
      PROVE  RegistryConsistent'
  BY <1>8, RegisteredRefUpdate DEF compare_and_set_commit, queueVars
<1>9. ASSUME NEW b \in Branch, NEW e, NEW x, NEW t, compare_and_set_index(b, e, x, t)
      PROVE  RegistryConsistent'
  <2>1. b \in branches /\ refs' = [refs EXCEPT ![b] = [refs[b] EXCEPT !.index = x]]
    BY <1>9 DEF compare_and_set_index, TypeOK
  <2>2. UNCHANGED <<branches, retracted, queues>>
    BY <1>9 DEF compare_and_set_index, queueVars
  <2> QED
    BY <2>1, <2>2, RegisteredRefUpdate
<1>10. ASSUME NEW b \in Branch, NEW k, NEW body, apply_enqueue_command(b, k, body)
       PROVE  RegistryConsistent'
  <2>1. b \in branches /\ b \notin retracted
    BY <1>10, EnqueuedWhen DEF apply_enqueue_command
  <2>2. \A a \in Branch : a # b => queues'[a] = queues[a]
    BY <1>10 DEF apply_enqueue_command, TypeOK
  <2> QED
    BY <1>10, <2>1, <2>2 DEF apply_enqueue_command, registryVars, RegistryConsistent, TypeOK
<1>11. ASSUME NEW b \in Branch, ConsumeMarker(b) PROVE RegistryConsistent'
  BY <1>11 DEF ConsumeMarker, registryVars, RegistryConsistent
\* A branch with an entry in its queue is registered and not retracted.
<1>12. ASSUME NEW b \in Branch, NEW kind, NEW c, NEW at,
              queues[b] # <<>>, PopFront(b, kind, c, at)
       PROVE  /\ b \in branches /\ b \notin retracted
              /\ \A a \in Branch : a # b => queues'[a] = queues[a]
  BY <1>12 DEF PopFront, RegistryConsistent, TypeOK
<1>13. ASSUME NEW b \in Branch, NEW id, NEW c, NEW at, apply_head(b, id, c, at)
       PROVE  RegistryConsistent'
  <2>1. CASE /\ HeadResponse(b, id, c) = "HeadApplied"
             /\ PopFront(b, "Applied", c, at)
             /\ refs' = [refs EXCEPT ![b] = AdvancedRef(b, c)]
             /\ branches' = (IF branches = {} THEN branches ELSE branches \union {b})
             /\ UNCHANGED retracted
    <3>1. queues[b] # <<>>
      BY <2>1, HeadAppliedWhen, FrontOk
    <3>2. /\ b \in branches /\ b \notin retracted
          /\ \A a \in Branch : a # b => queues'[a] = queues[a]
      BY <2>1, <3>1, <1>12
    <3>3. branches' = branches
      BY <2>1, <3>2
    <3>4. \A a \in Branch : a # b => refs'[a] = refs[a]
      BY <2>1 DEF TypeOK
    <3> QED
      BY <2>1, <3>2, <3>3, <3>4 DEF RegistryConsistent, TypeOK
  <2>2. CASE ConsumeMarker(b)
    BY <1>11, <2>2
  <2> QED
    BY <1>13, <2>1, <2>2 DEF apply_head
<1>14. ASSUME NEW b \in Branch, NEW id, NEW at, apply_poison_queue_entry(b, id, at)
       PROVE  RegistryConsistent'
  <2>1. CASE /\ FrontCheck(b, id) = "Ok"
             /\ PopFront(b, "Failed", None, at)
             /\ UNCHANGED registryVars
    <3>1. queues[b] # <<>>
      BY <2>1, FrontOk
    <3>2. /\ b \in branches /\ b \notin retracted
          /\ \A a \in Branch : a # b => queues'[a] = queues[a]
      BY <2>1, <3>1, <1>12
    <3> QED
      BY <2>1, <3>2 DEF RegistryConsistent, TypeOK, registryVars
  <2>2. CASE ConsumeMarker(b)
    BY <1>11, <2>2
  <2> QED
    BY <1>14, <2>1, <2>2 DEF apply_poison_queue_entry
<1>15. ASSUME NEW cutoff, NEW marker_cutoff, apply_evict_idempotency(cutoff, marker_cutoff)
       PROVE  RegistryConsistent'
  BY <1>15 DEF apply_evict_idempotency, registryVars, RegistryConsistent
<1>16. CASE UNCHANGED vars
  BY <1>16 DEF vars, RegistryConsistent
<1> QED
  BY <1>1, <1>2, <1>3, <1>4, <1>5, <1>6, <1>7, <1>8, <1>9, <1>10, <1>13, <1>14, <1>15,
     <1>16 DEF Next

\* No queue outlives the registration of its branch or its retraction, and no
\* head outlives the registration: apply_head's retraction check and its
\* self-healing registration are never needed.
THEOREM RegistrySound == Spec => []RegistryConsistent
<1>1. Init => RegistryConsistent
  BY DEF Init, RegistryConsistent
<1>2. TypeOK /\ RegistryConsistent /\ [Next]_vars => RegistryConsistent'
  BY RegistryStep
<1> QED
  BY <1>1, <1>2, TypeCorrect, PTL DEF Spec

\* The marker half of QueuesSound on its own: pop_validated_front never answers
\* QueueCleared to the valid claim on a queued entry.
THEOREM MarkersMeetNoEntry == Spec => []MarkerOnlyWhenIdle
BY QueuesSound, PTL

-----------------------------------------------------------------------------
(* Heads and indexes.  Whatever a command does to the ref of a branch is    *)
(* one of seven changes; the three properties of heads follow from the     *)
(* list.                                                                   *)

\* The index of a ref covers no more than its commits.
Covered(r) == r # None /\ r.index # None => IndexT[r.index] <= CommitT[r.head]

SameHead(a) == refs[a] # None /\ refs'[a] # None /\ refs'[a].head = refs[a].head

RefChange(a) ==
    \/ refs'[a] = refs[a]
    \/ refs'[a] = None /\ a \notin branches' /\ queues'[a] = <<>>
    \/ SameHead(a) /\ refs'[a].index = refs[a].index
    \/ a \notin retracted /\ SameHead(a) /\ Covered(refs'[a])
    \/ a \notin retracted /\ refs[a] = None /\ refs'[a] # None /\ refs'[a].index = None
    \/ /\ a \notin retracted /\ refs[a] # None /\ refs'[a] # None
       /\ refs'[a].index = refs[a].index
       /\ CommitT[refs'[a].head] > CommitT[refs[a].head]
    \/ a \notin retracted /\ queues'[a] = <<>> /\ Covered(refs'[a])

\* Lowering a child count changes no head and no index.
LEMMA DecrementKeepsHeads ==
    ASSUME NEW r \in [Branch -> RefEntry \union {None}], NEW p \in Branch \union {None},
           NEW a \in Branch, r[a] # None
    PROVE  /\ decrement_child_count(r, p)[a] # None
           /\ decrement_child_count(r, p)[a].head = r[a].head
           /\ decrement_child_count(r, p)[a].index = r[a].index
<1>1. CASE p = None \/ r[p] = None
  BY <1>1 DEF decrement_child_count
<1>2. CASE ~(p = None \/ r[p] = None)
  <2> DEFINE n == IF r[p].branches = 0 THEN 0 ELSE r[p].branches - 1
             e == [r[p] EXCEPT !.branches = n]
  <2>1. p \in Branch /\ r[p] \in RefEntry
    BY <1>2
  <2>2. decrement_child_count(r, p) = [r EXCEPT ![p] = e]
    BY <1>2, <2>1 DEF decrement_child_count
  <2>3. e \in RefEntry /\ e.head = r[p].head /\ e.index = r[p].index
    BY <2>1 DEF RefEntry
  <2>4. e # None
    BY <2>3, NoneAssumption
  <2> HIDE DEF e
  <2> QED
    BY <2>1, <2>2, <2>3, <2>4
<1> QED
  BY <1>1, <1>2

\* The removal of a branch: its own ref goes with its queue and registration.
LEMMA RemoveChange ==
    ASSUME TypeOK, NEW b \in Branch, NEW reason, NEW at,
           RemoveBranch(b), clear_queue_for_admin(b, reason, at)
    PROVE  \A a \in Branch : RefChange(a)
<1> DEFINE r == [refs EXCEPT ![b] = None]
           p == IF refs[b] = None THEN None ELSE refs[b].source_branch
<1>1. r \in [Branch -> RefEntry \union {None}] /\ p \in Branch \union {None}
  BY DEF TypeOK, RefEntry
<1>2. refs' = decrement_child_count(r, p)
  BY DEF RemoveBranch
<1>3. \A a \in Branch : r[a] = IF a = b THEN None ELSE refs[a]
  BY DEF TypeOK
<1>4. b \notin branches' /\ queues'[b] = <<>>
  BY DEF RemoveBranch, clear_queue_for_admin, TypeOK
<1> HIDE DEF r, p
<1> SUFFICES ASSUME NEW a \in Branch PROVE RefChange(a)
  OBVIOUS
<1>5. CASE r[a] = None
  BY <1>1, <1>2, <1>3, <1>4, <1>5, DecrementKeepsNone DEF RefChange
<1>6. CASE r[a] # None
  <2>1. refs[a] = r[a]
    BY <1>3, <1>6
  <2>2. /\ refs'[a] # None
        /\ refs'[a].head = r[a].head
        /\ refs'[a].index = r[a].index
    BY <1>1, <1>2, <1>6, DecrementKeepsHeads
  <2> QED
    BY <1>6, <2>1, <2>2 DEF RefChange, SameHead
<1> QED
  BY <1>5, <1>6

\* Setting the index of a live branch to nothing or to what its commits cover.
LEMMA IndexChange ==
    ASSUME TypeOK, NEW b \in Branch, NEW x \in IndexRoot \union {None},
           refs[b] # None, b \notin retracted,
           x # None => IndexT[x] <= HeadT(b),
           refs' = [refs EXCEPT ![b].index = x]
    PROVE  \A a \in Branch : RefChange(a)
<1> SUFFICES ASSUME NEW a \in Branch PROVE RefChange(a)
  OBVIOUS
<1> DEFINE e == [refs[b] EXCEPT !.index = x]
<1>1. refs[b] \in RefEntry
  BY DEF TypeOK
<1>2. e \in RefEntry /\ e.head = refs[b].head /\ e.index = x
  BY <1>1 DEF RefEntry
<1>3. e # None
  BY <1>2, NoneAssumption
<1>4. refs'[a] = IF a = b THEN e ELSE refs[a]
  BY DEF TypeOK
<1> HIDE DEF e
<1>5. CASE a = b
  BY <1>1, <1>2, <1>3, <1>4, <1>5 DEF RefChange, SameHead, Covered, HeadT
<1>6. CASE a # b
  BY <1>4, <1>6 DEF RefChange
<1> QED
  BY <1>5, <1>6

\* A branch's first head, the head it has already, or a later one.
LEMMA AdvanceChange ==
    ASSUME TypeOK, NEW b \in Branch, NEW c \in Commit, b \notin retracted,
           refs[b] # None => refs[b].head = c \/ CommitT[c] > HeadT(b),
           refs' = [refs EXCEPT ![b] = AdvancedRef(b, c)]
    PROVE  \A a \in Branch : RefChange(a)
<1> SUFFICES ASSUME NEW a \in Branch PROVE RefChange(a)
  OBVIOUS
<1>1. refs'[a] = IF a = b THEN AdvancedRef(b, c) ELSE refs[a]
  BY DEF TypeOK
<1>2. CASE a # b
  BY <1>1, <1>2 DEF RefChange
<1>3. CASE a = b /\ refs[b] = None
  <2> DEFINE e == [head |-> c, index |-> None, source_branch |-> None, branches |-> 0]
  <2>1. e \in RefEntry /\ e.index = None
    BY DEF RefEntry
  <2>2. refs'[a] = e
    BY <1>1, <1>3 DEF AdvancedRef
  <2> QED
    BY <1>3, <2>1, <2>2, NoneAssumption DEF RefChange
<1>4. CASE a = b /\ refs[b] # None
  <2> DEFINE e == [refs[b] EXCEPT !.head = c]
  <2>1. refs[b] \in RefEntry
    BY <1>4 DEF TypeOK
  <2>2. e \in RefEntry /\ e.head = c /\ e.index = refs[b].index
    BY <2>1 DEF RefEntry
  <2>3. refs'[a] = e /\ e # None
    BY <1>1, <1>4, <2>2, NoneAssumption DEF AdvancedRef
  <2> HIDE DEF e
  <2> QED
    BY <1>4, <2>2, <2>3 DEF RefChange, SameHead, HeadT
<1> QED
  BY <1>2, <1>3, <1>4

\* Every command changes every ref in one of the seven ways.
LEMMA RefChangeStep ==
    ASSUME TypeOK, RegistryConsistent, [Next]_vars
    PROVE  \A a \in Branch : RefChange(a)
<1>0. ASSUME refs' = refs PROVE \A a \in Branch : RefChange(a)
  BY <1>0 DEF RefChange
<1>1. ASSUME NEW b \in Branch, create_ledger(b) PROVE \A a \in Branch : RefChange(a)
  BY <1>0, <1>1 DEF create_ledger
<1>2. ASSUME NEW b \in Branch, NEW at, retract_ledger(b, at)
      PROVE  \A a \in Branch : RefChange(a)
  BY <1>0, <1>2 DEF retract_ledger
<1>3. ASSUME NEW b \in Branch, NEW at, purge_branch(b, at)
      PROVE  \A a \in Branch : RefChange(a)
  BY <1>3, RemoveChange DEF purge_branch
<1>4. ASSUME NEW b \in Branch, NEW at, drop_branch(b, at)
      PROVE  \A a \in Branch : RefChange(a)
  BY <1>4, RemoveChange DEF drop_branch
<1>5. ASSUME NEW b \in Branch, NEW src \in Branch, NEW c \in Commit \union {None},
             create_branch(b, src, c)
      PROVE  \A a \in Branch : RefChange(a)
  <2> DEFINE e == [head |-> IF c = None THEN refs[src].head ELSE c,
                   index |-> None, source_branch |-> src, branches |-> 0]
             f == [refs[src] EXCEPT !.branches = @ + 1]
  <2>1. refs[src] \in RefEntry /\ refs[b] = None /\ b \notin retracted /\ b # src
    BY <1>5 DEF TypeOK, create_branch, RegistryConsistent
  <2>2. /\ e \in RefEntry /\ e.index = None
        /\ f \in RefEntry /\ f.head = refs[src].head /\ f.index = refs[src].index
    BY <2>1 DEF RefEntry
  <2>3. \A a \in Branch : refs'[a] = IF a = b THEN e ELSE IF a = src THEN f ELSE refs[a]
    BY <1>5, <2>1 DEF create_branch, TypeOK
  <2>4. e # None /\ f # None /\ refs[src] # None
    BY <2>1, <2>2, NoneAssumption
  <2> HIDE DEF e, f
  <2> QED
    BY <2>1, <2>2, <2>3, <2>4 DEF RefChange, SameHead
<1>6. ASSUME NEW b \in Branch, NEW s \in Snapshot, NEW at, reset_head(b, s, at)
      PROVE  \A a \in Branch : RefChange(a)
  <2>1. \A a \in Branch : refs'[a] = IF a = b THEN ResetRef(refs[b], s) ELSE refs[a]
    BY <1>6 DEF reset_head, TypeOK
  <2>2. queues'[b] = <<>> /\ b \notin retracted
    BY <1>6 DEF reset_head, clear_queue_for_admin, TypeOK
  <2>3. Covered(ResetRef(refs[b], s))
    BY SnapshotAssumption DEF Covered, ResetRef
  <2> QED
    BY <2>1, <2>2, <2>3 DEF RefChange
<1>7. ASSUME NEW b \in Branch, NEW x \in IndexRoot,
             advance_index_head(b, x) \/ rewrite_index_head(b, x)
      PROVE  \A a \in Branch : RefChange(a)
  BY <1>7, IndexChange DEF advance_index_head, rewrite_index_head, set_index_head
<1>8. ASSUME NEW b \in Branch, NEW e, NEW c \in Commit, compare_and_set_commit(b, e, c)
      PROVE  \A a \in Branch : RefChange(a)
  <2>1. refs' = [refs EXCEPT ![b] = AdvancedRef(b, c)] /\ b \notin retracted
    BY <1>8 DEF compare_and_set_commit, AdvancedRef
  <2>2. CommitT[c] > HeadT(b)
    BY <1>8 DEF compare_and_set_commit
  <2> QED
    BY <2>1, <2>2, AdvanceChange
<1>9. ASSUME NEW b \in Branch, NEW e, NEW x \in IndexRoot \union {None}, NEW t,
             compare_and_set_index(b, e, x, t)
      PROVE  \A a \in Branch : RefChange(a)
  BY <1>9, IndexChange DEF compare_and_set_index
<1>10. ASSUME NEW b \in Branch, NEW k, NEW body, apply_enqueue_command(b, k, body)
       PROVE  \A a \in Branch : RefChange(a)
  BY <1>0, <1>10 DEF apply_enqueue_command, registryVars
<1>11. ASSUME NEW b \in Branch, NEW id, NEW c \in Commit, NEW at, apply_head(b, id, c, at)
       PROVE  \A a \in Branch : RefChange(a)
  <2>1. CASE /\ HeadResponse(b, id, c) = "HeadApplied"
             /\ refs' = [refs EXCEPT ![b] = AdvancedRef(b, c)]
    <3>1. b \notin retracted
      BY <2>1, HeadAppliedWhen
    <3>2. refs[b] # None => NoopCompletion(b, c) \/ ~(CommitT[c] <= HeadT(b))
      BY <2>1 DEF HeadResponse, FrontCheck
    <3>3. refs[b] # None => HeadT(b) \in Nat /\ CommitT[c] \in Nat
      BY ConstantsAssumption DEF TypeOK, RefEntry, HeadT
    <3>4. refs[b] # None => refs[b].head = c \/ CommitT[c] > HeadT(b)
      BY <3>2, <3>3 DEF NoopCompletion
    <3> QED
      BY <2>1, <3>1, <3>4, AdvanceChange
  <2>2. CASE ConsumeMarker(b)
    BY <1>0, <2>2 DEF ConsumeMarker, registryVars
  <2> QED
    BY <1>11, <2>1, <2>2 DEF apply_head
<1>12. ASSUME NEW b \in Branch, NEW id, NEW at, apply_poison_queue_entry(b, id, at)
       PROVE  \A a \in Branch : RefChange(a)
  BY <1>0, <1>12 DEF apply_poison_queue_entry, ConsumeMarker, registryVars
<1>13. ASSUME NEW cutoff, NEW marker_cutoff, apply_evict_idempotency(cutoff, marker_cutoff)
       PROVE  \A a \in Branch : RefChange(a)
  BY <1>0, <1>13 DEF apply_evict_idempotency, registryVars
<1>14. CASE UNCHANGED vars
  BY <1>0, <1>14 DEF vars
<1> QED
  BY <1>1, <1>2, <1>3, <1>4, <1>5, <1>6, <1>7, <1>8, <1>9, <1>10, <1>11, <1>12, <1>13,
     <1>14 DEF Next

\* Of a well-formed state, IndexBehindHead says that every ref is covered.
LEMMA BehindIsCovered ==
    TypeOK => (IndexBehindHead <=> \A b \in Branch : Covered(refs[b]))
<1> SUFFICES ASSUME TypeOK PROVE IndexBehindHead <=> \A b \in Branch : Covered(refs[b])
  OBVIOUS
<1>1. ASSUME NEW b \in Branch
      PROVE  IndexTOf(b) <= HeadT(b) <=> Covered(refs[b])
  <2>1. CASE refs[b] = None
    BY <2>1 DEF IndexTOf, IndexOf, HeadT, Covered
  <2>2. CASE refs[b] # None /\ refs[b].index = None
    <3>1. CommitT[refs[b].head] \in Nat
      BY <2>2, ConstantsAssumption DEF TypeOK, RefEntry
    <3> QED
      BY <2>2, <3>1 DEF IndexTOf, IndexOf, HeadT, Covered
  <2>3. CASE refs[b] # None /\ refs[b].index # None
    BY <2>3 DEF IndexTOf, IndexOf, HeadT, Covered
  <2> QED
    BY <2>1, <2>2, <2>3
<1> QED
  BY <1>1 DEF IndexBehindHead

\* No order of index publishes, head advances, forks, resets and removals
\* leaves a branch with an index that covers commits it does not have.
THEOREM IndexNeverAhead == Spec => []IndexBehindHead
<1>1. Init => IndexBehindHead
  BY DEF Init, IndexBehindHead, IndexTOf, IndexOf, HeadT
<1>2. TypeOK /\ TypeOK' /\ RegistryConsistent /\ IndexBehindHead /\ [Next]_vars
         => IndexBehindHead'
  <2> SUFFICES ASSUME TypeOK, TypeOK', RegistryConsistent, IndexBehindHead, [Next]_vars
               PROVE  IndexBehindHead'
    OBVIOUS
  <2>1. \A b \in Branch : Covered(refs[b])
    BY BehindIsCovered
  <2>2. \A b \in Branch : RefChange(b)
    BY RefChangeStep
  <2>3. ASSUME NEW b \in Branch PROVE Covered(refs'[b])
    <3>1. /\ refs[b] # None => refs[b] \in RefEntry
          /\ refs'[b] # None => refs'[b] \in RefEntry
      BY DEF TypeOK
    <3>2. CASE /\ refs[b] # None /\ refs'[b] # None
               /\ refs'[b].index = refs[b].index
               /\ CommitT[refs'[b].head] > CommitT[refs[b].head]
      <4>1. CommitT[refs'[b].head] \in Nat /\ CommitT[refs[b].head] \in Nat
        BY <3>1, <3>2, ConstantsAssumption DEF RefEntry
      <4>2. refs[b].index # None => IndexT[refs[b].index] \in Nat
        BY <3>1, <3>2, ConstantsAssumption DEF RefEntry
      <4> QED
        BY <2>1, <3>2, <4>1, <4>2 DEF Covered
    <3>3. CASE SameHead(b) /\ refs'[b].index = refs[b].index
      BY <2>1, <3>3 DEF SameHead, Covered
    <3>4. CASE refs'[b] = None \/ refs'[b].index = None \/ Covered(refs'[b])
      BY <3>4 DEF Covered
    <3>5. CASE refs'[b] = refs[b]
      BY <2>1, <3>5
    <3> QED
      BY <2>2, <3>2, <3>3, <3>4, <3>5 DEF RefChange
  <2>4. (\A b \in Branch : Covered(refs[b]))'
    BY <2>3 DEF Covered
  <2>5. (IndexBehindHead <=> \A b \in Branch : Covered(refs[b]))'
    BY BehindIsCovered, PTL
  <2> QED
    BY <2>4, <2>5
<1> QED
  BY <1>1, <1>2, TypeCorrect, RegistrySound, PTL DEF Spec

\* A head goes backwards, sideways or away only together with the queue, so an
\* entry is never applied onto another history than the one it was queued on.
THEOREM HeadsRegressWithQueue == Spec => RegressionEmptiesQueue
<1>1. TypeOK /\ RegistryConsistent /\ [Next]_vars =>
        [\A b \in Branch :
          refs[b] # None /\ refs'[b] # refs[b] =>
              \/ /\ refs'[b] # None
                 /\ \/ refs'[b].head = refs[b].head
                    \/ CommitT[refs'[b].head] > CommitT[refs[b].head]
              \/ queues'[b] = <<>>]_vars
  <2> SUFFICES ASSUME TypeOK, RegistryConsistent, [Next]_vars,
                      NEW b \in Branch, refs[b] # None, refs'[b] # refs[b]
               PROVE  \/ /\ refs'[b] # None
                         /\ \/ refs'[b].head = refs[b].head
                            \/ CommitT[refs'[b].head] > CommitT[refs[b].head]
                      \/ queues'[b] = <<>>
    OBVIOUS
  <2> QED
    BY RefChangeStep DEF RefChange, SameHead
<1> QED
  BY <1>1, TypeCorrect, RegistrySound, PTL DEF Spec, RegressionEmptiesQueue

\* A retraction is lifted only by the removal of the branch.
LEMMA RetractionStep ==
    ASSUME TypeOK, [Next]_vars
    PROVE  \A a \in retracted : a \in branches' => a \in retracted'
<1>1. ASSUME NEW b \in Branch, RemoveBranch(b)
      PROVE  \A a \in retracted : a \in branches' => a \in retracted'
  BY <1>1 DEF RemoveBranch
<1>2. CASE retracted \subseteq retracted'
  BY <1>2
<1>3. ASSUME NEW b \in Branch, NEW id, NEW c, NEW at,
             apply_head(b, id, c, at) \/ apply_poison_queue_entry(b, id, at)
      PROVE  retracted' = retracted
  BY <1>3 DEF apply_head, apply_poison_queue_entry, ConsumeMarker, registryVars
<1>4. ASSUME NEW b \in Branch, NEW at, purge_branch(b, at) \/ drop_branch(b, at)
      PROVE  RemoveBranch(b)
  BY <1>4 DEF purge_branch, drop_branch
<1>5. ASSUME NEW b \in Branch, NEW x,
             advance_index_head(b, x) \/ rewrite_index_head(b, x)
      PROVE  retracted' = retracted
  BY <1>5 DEF advance_index_head, rewrite_index_head, set_index_head
<1>6. ASSUME NEW b \in Branch, NEW e, NEW c, NEW t,
             \/ compare_and_set_commit(b, e, c)
             \/ compare_and_set_index(b, e, c, t)
             \/ create_branch(b, e, c)
             \/ reset_head(b, e, c)
             \/ apply_enqueue_command(b, e, c)
             \/ create_ledger(b)
      PROVE  retracted' = retracted
  BY <1>6 DEF compare_and_set_commit, compare_and_set_index, create_branch, reset_head,
              apply_enqueue_command, create_ledger, registryVars
<1>7. ASSUME NEW b \in Branch, NEW at, retract_ledger(b, at)
      PROVE  retracted \subseteq retracted'
  BY <1>7 DEF retract_ledger
<1>8. CASE UNCHANGED vars
  BY <1>2, <1>8 DEF vars
<1>9. ASSUME NEW cutoff, NEW marker_cutoff, apply_evict_idempotency(cutoff, marker_cutoff)
      PROVE  retracted' = retracted
  BY <1>9 DEF apply_evict_idempotency, registryVars
<1> QED
  BY <1>1, <1>2, <1>3, <1>4, <1>5, <1>6, <1>7, <1>8, <1>9 DEF Next

\* The head and the index of a retracted branch stand still until the branch is
\* removed, whatever laggards still propose for it.
THEOREM RetractedStandsStill == Spec => RetractedFrozen
<1>1. TypeOK /\ RegistryConsistent /\ [Next]_vars =>
        [\A b \in retracted : b \in branches' =>
          /\ b \in retracted'
          /\ (refs'[b] = None) = (refs[b] = None)
          /\ refs[b] # None => /\ refs'[b].head = refs[b].head
                               /\ refs'[b].index = refs[b].index]_vars
  <2> SUFFICES ASSUME TypeOK, RegistryConsistent, [Next]_vars,
                      NEW b \in retracted, b \in branches'
               PROVE  /\ b \in retracted'
                      /\ (refs'[b] = None) = (refs[b] = None)
                      /\ refs[b] # None => /\ refs'[b].head = refs[b].head
                                           /\ refs'[b].index = refs[b].index
    OBVIOUS
  <2>1. b \in retracted'
    BY RetractionStep
  <2>2. RefChange(b)
    BY RefChangeStep DEF TypeOK
  <2>3. \/ refs'[b] = refs[b]
        \/ SameHead(b) /\ refs'[b].index = refs[b].index
    BY <2>2 DEF RefChange
  <2> QED
    BY <2>1, <2>3 DEF SameHead
<1> QED
  BY <1>1, TypeCorrect, RegistrySound, PTL DEF Spec, RetractedFrozen

=============================================================================
