--------------------- MODULE NameServiceState_accounting ---------------------
(***************************************************************************)
(* Theorems of NameServiceState about what it counts: the releases of the  *)
(* envelopes, and the forks of a branch.                                   *)
(***************************************************************************)
EXTENDS NameServiceState_proofs, FiniteSetTheorems

-----------------------------------------------------------------------------
(* Envelopes.  The state of an envelope is read off the queues and the     *)
(* records alone: by InQueue and InRecord.                                 *)

InQueue(b, i) == \E j \in 1 .. Len(queues[b]) : queues[b][j].queue_id = i

InRecord(b, k, i) == idempotency[b][k] # None /\ idempotency[b][k].request_cid = i

\* An envelope that is held was issued, and is held in one place.
HeldOnce ==
    /\ \A b \in Branch, i \in Nat : InQueue(b, i) => i < next_queue_id
    /\ \A b \in Branch, k \in Key, i \in Nat : InRecord(b, k, i) => i < next_queue_id
    /\ \A a, b \in Branch, i \in Nat : InQueue(a, i) /\ InQueue(b, i) => a = b
    /\ \A a, b \in Branch, k, l \in Key, i \in Nat :
          InRecord(a, k, i) /\ InRecord(b, l, i) => a = b /\ k = l
    /\ \A a, b \in Branch, k \in Key, i \in Nat : ~(InQueue(a, i) /\ InRecord(b, k, i))

\* EnvelopeAccounting over all the envelopes there will be: one that is not
\* issued yet has not been released.
ReleaseCounts ==
    \A i \in 0 .. MaxQueueId - 1 :
        released[i] = IF i < next_queue_id /\ ~ Held(i) THEN 1 ELSE 0

EnvelopeInv == HeldOnce /\ ReleaseCounts

LEMMA HeldIs ==
    ASSUME NEW i
    PROVE  /\ Held(i) <=> \/ \E b \in Branch : InQueue(b, i)
                          \/ \E b \in Branch, k \in Key : InRecord(b, k, i)
           /\ Held(i)' <=> \/ \E b \in Branch : InQueue(b, i)'
                           \/ \E b \in Branch, k \in Key : InRecord(b, k, i)'
BY DEF Held, InQueue, InRecord

\* What an admin clear does to the envelopes.
LEMMA ClearEnvelopes ==
    ASSUME TypeOK, NEW b \in Branch, NEW reason, NEW at,
           clear_queue_for_admin(b, reason, at), UNCHANGED idempotency
    PROVE  /\ next_queue_id' = next_queue_id
           /\ \A a \in Branch, i \in Nat : InQueue(a, i)' <=> a # b /\ InQueue(a, i)
           /\ \A a \in Branch, k \in Key, i \in Nat : InRecord(a, k, i)' <=> InRecord(a, k, i)
           /\ \A i \in 0 .. MaxQueueId - 1 :
                 released'[i] = IF InQueue(b, i) THEN released[i] + 1 ELSE released[i]
<1>1. \A a \in Branch : queues'[a] = IF a = b THEN <<>> ELSE queues[a]
  BY DEF clear_queue_for_admin, TypeOK
<1>2. \A i : i \in EntryIds(queues[b]) <=> InQueue(b, i)
  <2>1. DOMAIN queues[b] = 1 .. Len(queues[b])
    BY DEF TypeOK
  <2> QED
    BY <2>1 DEF EntryIds, InQueue
<1>3. \A i \in 0 .. MaxQueueId - 1 :
         released'[i] = IF InQueue(b, i) THEN released[i] + 1 ELSE released[i]
  BY <1>2 DEF clear_queue_for_admin, Release, TypeOK
<1>4. \A a \in Branch, i \in Nat : InQueue(a, i)' <=> a # b /\ InQueue(a, i)
  BY <1>1 DEF InQueue
<1> QED
  BY <1>3, <1>4 DEF clear_queue_for_admin, InRecord

\* What consuming the front of a queue does to the envelopes: the one of a
\* keyed entry moves to its record.
LEMMA PopFrontEnvelopes ==
    ASSUME TypeOK, QueueInv, NEW b \in Branch, NEW kind \in {"Applied", "Failed"},
           NEW c \in Commit \union {None}, NEW at \in Millis,
           queues[b] # <<>>, PopFront(b, kind, c, at),
           NEW e, e = Head(queues[b])
    PROVE  /\ next_queue_id' = next_queue_id
           /\ e.queue_id \in Nat /\ InQueue(b, e.queue_id)
           /\ e.key = None \/ e.key \in Key
           /\ \A a \in Branch, i \in Nat :
                 InQueue(a, i)' <=> InQueue(a, i) /\ ~(a = b /\ i = e.queue_id)
           /\ \A a \in Branch, k \in Key, i \in Nat :
                 InRecord(a, k, i)' <=>
                    InRecord(a, k, i) \/ (a = b /\ k = e.key /\ i = e.queue_id)
           /\ \A i \in 0 .. MaxQueueId - 1 :
                 released'[i] = IF e.key = None /\ i = e.queue_id
                                THEN released[i] + 1 ELSE released[i]
<1>0. queues[b] \in Seq(QueueEntry) /\ e = queues[b][1] /\ 1 \in 1 .. Len(queues[b])
  BY DEF TypeOK
<1>8. e \in QueueEntry /\ at \in Nat
  BY <1>0, ConstantsAssumption
<1>1. e.queue_id \in Nat /\ (e.key = None \/ e.key \in Key) /\ InQueue(b, e.queue_id)
  BY <1>0, <1>8 DEF QueueEntry, InQueue
<1>2. \A a \in Branch : queues'[a] = IF a = b THEN Tail(queues[b]) ELSE queues[a]
  BY DEF PopFront, TypeOK
<1>3. /\ Len(Tail(queues[b])) = Len(queues[b]) - 1
      /\ \A i \in 1 .. Len(Tail(queues[b])) :
            /\ i + 1 \in 1 .. Len(queues[b])
            /\ Tail(queues[b])[i] = queues[b][i + 1]
  BY <1>0
<1>4. \A i \in Nat : InQueue(b, i)' <=> InQueue(b, i) /\ i # e.queue_id
  <2> SUFFICES ASSUME NEW i \in Nat
               PROVE  InQueue(b, i)' <=> InQueue(b, i) /\ i # e.queue_id
    OBVIOUS
  <2>1. ASSUME InQueue(b, i)' PROVE InQueue(b, i) /\ i # e.queue_id
    <3>1. PICK j \in 1 .. Len(Tail(queues[b])) : Tail(queues[b])[j].queue_id = i
      BY <1>2, <2>1 DEF InQueue
    <3>2. j + 1 \in 1 .. Len(queues[b]) /\ queues[b][j + 1].queue_id = i /\ 1 < j + 1
      BY <1>3, <3>1
    <3>3. queues[b][1].queue_id < queues[b][j + 1].queue_id
      BY <1>0, <3>2 DEF QueueInv, QueueIdsOrdered
    <3> QED
      BY <1>0, <1>1, <3>2, <3>3 DEF InQueue
  <2>2. ASSUME InQueue(b, i), i # e.queue_id PROVE InQueue(b, i)'
    <3>1. PICK j \in 1 .. Len(queues[b]) : queues[b][j].queue_id = i
      BY <2>2 DEF InQueue
    <3>2. j # 1
      BY <1>0, <2>2, <3>1
    <3>3. j - 1 \in 1 .. Len(Tail(queues[b])) /\ Tail(queues[b])[j - 1] = queues[b][j]
      BY <1>0, <1>3, <3>1, <3>2
    <3> QED
      BY <1>2, <3>1, <3>3 DEF InQueue
  <2> QED
    BY <2>1, <2>2
<1>5. \A a \in Branch, i \in Nat :
         InQueue(a, i)' <=> InQueue(a, i) /\ ~(a = b /\ i = e.queue_id)
  <2>1. \A a \in Branch, i \in Nat : a # b => (InQueue(a, i)' <=> InQueue(a, i))
    BY <1>2 DEF InQueue
  <2> QED
    BY <1>4, <2>1
<1>6. \A a \in Branch, k \in Key, i \in Nat :
         InRecord(a, k, i)' <=> InRecord(a, k, i) \/ (a = b /\ k = e.key /\ i = e.queue_id)
  <2>1. CASE e.key = None
    <3>1. idempotency' = idempotency
      BY <2>1 DEF PopFront
    <3>2. \A k \in Key : k # e.key
      BY <2>1, NoneAssumption
    <3> QED
      BY <3>1, <3>2 DEF InRecord
  <2>2. CASE e.key # None
    <3> DEFINE rec == [kind |-> kind, request_cid |-> e.queue_id, body |-> e.body,
                       recorded_at |-> at, head |-> c]
    <3>1. rec \in ApplyOutcome
      BY <1>8 DEF ApplyOutcome, QueueEntry
    <3>2. rec # None /\ rec.request_cid = e.queue_id
      BY <3>1, NoneAssumption
    <3>3. idempotency[b][e.key] = None
      BY <1>0, <2>2 DEF QueueInv, KeyLiveOnce
    <3>4. idempotency' = [idempotency EXCEPT ![b] = [idempotency[b] EXCEPT ![e.key] = rec]]
      <4>1. idempotency' = [idempotency EXCEPT ![b][e.key] = rec]
        BY <2>2 DEF PopFront
      <4> QED
        BY <4>1 DEF TypeOK
    <3> HIDE DEF rec
    <3>5. \A a \in Branch, k \in Key :
             idempotency'[a][k] = IF a = b /\ k = e.key THEN rec ELSE idempotency[a][k]
      BY <3>4 DEF TypeOK
    <3> QED
      BY <3>2, <3>3, <3>5 DEF InRecord
  <2> QED
    BY <2>1, <2>2
<1>7. \A i \in 0 .. MaxQueueId - 1 :
         released'[i] = IF e.key = None /\ i = e.queue_id THEN released[i] + 1 ELSE released[i]
  BY DEF PopFront, Release, TypeOK
<1> QED
  BY <1>1, <1>5, <1>6, <1>7 DEF PopFront

\* What an enqueue does to the envelopes.
LEMMA EnqueueEnvelopes ==
    ASSUME TypeOK, NEW b \in Branch, NEW k \in Key \union {None}, NEW body \in Body,
           apply_enqueue_command(b, k, body)
    PROVE  /\ next_queue_id \in Nat /\ next_queue_id' = next_queue_id + 1
           /\ \A a \in Branch, i \in Nat :
                 InQueue(a, i)' <=> InQueue(a, i) \/ (a = b /\ i = next_queue_id)
           /\ \A a \in Branch, l \in Key, i \in Nat : InRecord(a, l, i)' <=> InRecord(a, l, i)
           /\ released' = released
<1> DEFINE e == [queue_id |-> next_queue_id, key |-> k, body |-> body]
           q == queues[b]
<1>1. next_queue_id \in Nat
  BY ConstantsAssumption DEF TypeOK
<1>2. q \in Seq(QueueEntry)
  BY DEF TypeOK
<1>3. \A a \in Branch : queues'[a] = IF a = b THEN Append(q, e) ELSE queues[a]
  BY DEF apply_enqueue_command, TypeOK
<1>4. /\ Len(Append(q, e)) = Len(q) + 1
      /\ \A j \in 1 .. Len(q) : Append(q, e)[j] = q[j]
      /\ Append(q, e)[Len(q) + 1] = e
  BY <1>2
<1>5. e.queue_id = next_queue_id /\ Len(q) \in Nat
  BY <1>2
<1> HIDE DEF e
<1>6. \A i \in Nat : InQueue(b, i)' <=> InQueue(b, i) \/ i = next_queue_id
  <2> SUFFICES ASSUME NEW i \in Nat
               PROVE  InQueue(b, i)' <=> InQueue(b, i) \/ i = next_queue_id
    OBVIOUS
  <2>1. ASSUME InQueue(b, i)' PROVE InQueue(b, i) \/ i = next_queue_id
    <3>1. PICK j \in 1 .. Len(q) + 1 : Append(q, e)[j].queue_id = i
      BY <1>3, <1>4, <2>1 DEF InQueue
    <3>2. CASE j \in 1 .. Len(q)
      BY <1>4, <3>1, <3>2 DEF InQueue
    <3>3. CASE j = Len(q) + 1
      BY <1>4, <1>5, <3>1, <3>3
    <3> QED
      BY <1>5, <3>2, <3>3
  <2>2. ASSUME InQueue(b, i) PROVE InQueue(b, i)'
    <3>1. PICK j \in 1 .. Len(q) : q[j].queue_id = i
      BY <2>2 DEF InQueue
    <3>2. j \in 1 .. Len(q) + 1 /\ Append(q, e)[j].queue_id = i
      BY <1>4, <1>5, <3>1
    <3> QED
      BY <1>3, <1>4, <3>2 DEF InQueue
  <2>3. ASSUME i = next_queue_id PROVE InQueue(b, i)'
    <3>1. Len(q) + 1 \in 1 .. Len(q) + 1
      BY <1>5
    <3> QED
      BY <1>3, <1>4, <1>5, <2>3, <3>1 DEF InQueue
  <2> QED
    BY <2>1, <2>2, <2>3
<1>7. \A a \in Branch, i \in Nat : a # b => (InQueue(a, i)' <=> InQueue(a, i))
  BY <1>3 DEF InQueue
<1> QED
  BY <1>1, <1>6, <1>7 DEF apply_enqueue_command, InRecord

\* What an eviction does to the envelopes.
LEMMA EvictEnvelopes ==
    ASSUME TypeOK, NEW cutoff \in Millis, NEW marker_cutoff \in Millis,
           apply_evict_idempotency(cutoff, marker_cutoff)
    PROVE  \E S \in SUBSET (Branch \X Key) :
              /\ next_queue_id' = next_queue_id
              /\ \A a \in Branch, i \in Nat : InQueue(a, i)' <=> InQueue(a, i)
              /\ \A a \in Branch, k \in Key, i \in Nat :
                    InRecord(a, k, i)' <=> InRecord(a, k, i) /\ <<a, k>> \notin S
              /\ \A a \in Branch, k \in Key :
                    idempotency'[a][k] = IF <<a, k>> \in S THEN None ELSE idempotency[a][k]
              /\ \A i \in 0 .. MaxQueueId - 1 :
                    released'[i] = IF \E a \in Branch, k \in Key :
                                         <<a, k>> \in S /\ InRecord(a, k, i)
                                   THEN released[i] + 1 ELSE released[i]
<1>1. PICK S \in EvictionBatches(cutoff) :
          /\ idempotency' = [b \in Branch |-> [k \in Key |->
                IF <<b, k>> \in S THEN None ELSE idempotency[b][k]]]
          /\ Release({idempotency[p[1]][p[2]].request_cid : p \in S})
  BY DEF apply_evict_idempotency
<1>2. S \subseteq Expired(cutoff)
  BY DEF EvictionBatches
<1>3. S \in SUBSET (Branch \X Key)
  BY <1>2 DEF Expired
<1>4. \A a \in Branch, k \in Key : <<a, k>> \in S => idempotency[a][k] # None
  BY <1>2 DEF Expired
<1>5. \A a \in Branch, k \in Key :
         idempotency'[a][k] = IF <<a, k>> \in S THEN None ELSE idempotency[a][k]
  BY <1>1
<1>6. \A i : i \in {idempotency[p[1]][p[2]].request_cid : p \in S} <=>
             \E a \in Branch, k \in Key : <<a, k>> \in S /\ InRecord(a, k, i)
  <2> SUFFICES ASSUME NEW i
               PROVE  i \in {idempotency[p[1]][p[2]].request_cid : p \in S} <=>
                      \E a \in Branch, k \in Key : <<a, k>> \in S /\ InRecord(a, k, i)
    OBVIOUS
  <2>1. ASSUME NEW p \in S, i = idempotency[p[1]][p[2]].request_cid
        PROVE  \E a \in Branch, k \in Key : <<a, k>> \in S /\ InRecord(a, k, i)
    <3>1. PICK a \in Branch, k \in Key : p = <<a, k>>
      BY <1>3
    <3> QED
      BY <1>4, <2>1, <3>1 DEF InRecord
  <2>2. ASSUME NEW a \in Branch, NEW k \in Key, <<a, k>> \in S, InRecord(a, k, i)
        PROVE  \E p \in S : i = idempotency[p[1]][p[2]].request_cid
    BY <2>2 DEF InRecord
  <2> QED
    BY <2>1, <2>2
<1>7. \A i \in 0 .. MaxQueueId - 1 :
         released'[i] = IF \E a \in Branch, k \in Key : <<a, k>> \in S /\ InRecord(a, k, i)
                        THEN released[i] + 1 ELSE released[i]
  <2> DEFINE T == {idempotency[p[1]][p[2]].request_cid : p \in S}
  <2>1. Release(T)
    BY <1>1
  <2> HIDE DEF T
  <2>2. \A i \in 0 .. MaxQueueId - 1 :
           released'[i] = IF i \in T THEN released[i] + 1 ELSE released[i]
    BY <2>1 DEF Release, TypeOK
  <2>3. \A i : i \in T <=> \E a \in Branch, k \in Key : <<a, k>> \in S /\ InRecord(a, k, i)
    BY <1>6 DEF T
  <2> QED
    BY <2>2, <2>3
<1>8. \A a \in Branch, k \in Key, i \in Nat :
         InRecord(a, k, i)' <=> InRecord(a, k, i) /\ <<a, k>> \notin S
  BY <1>5 DEF InRecord
<1>9. /\ next_queue_id' = next_queue_id
      /\ \A a \in Branch, i \in Nat : InQueue(a, i)' <=> InQueue(a, i)
  BY DEF apply_evict_idempotency, InQueue
<1> QED
  BY <1>3, <1>5, <1>7, <1>8, <1>9

\* Commands that touch neither the queues nor the records keep EnvelopeInv.
LEMMA EnvelopeStutters ==
    ASSUME EnvelopeInv, UNCHANGED <<queues, idempotency, next_queue_id, released>>
    PROVE  EnvelopeInv'
BY DEF EnvelopeInv, HeldOnce, ReleaseCounts, Held, InQueue, InRecord

\* An admin clear keeps EnvelopeInv.
LEMMA ClearKeepsEnvelopeInv ==
    ASSUME TypeOK, EnvelopeInv, NEW b \in Branch, NEW reason, NEW at,
           clear_queue_for_admin(b, reason, at), UNCHANGED idempotency
    PROVE  EnvelopeInv'
<1>1. /\ next_queue_id' = next_queue_id
      /\ \A a \in Branch, i \in Nat : InQueue(a, i)' <=> a # b /\ InQueue(a, i)
      /\ \A a \in Branch, k \in Key, i \in Nat : InRecord(a, k, i)' <=> InRecord(a, k, i)
      /\ \A i \in 0 .. MaxQueueId - 1 :
            released'[i] = IF InQueue(b, i) THEN released[i] + 1 ELSE released[i]
  BY ClearEnvelopes
<1>2. HeldOnce'
  BY <1>1 DEF EnvelopeInv, HeldOnce
<1>3. ReleaseCounts'
  <2> SUFFICES ASSUME NEW i \in 0 .. MaxQueueId - 1
               PROVE  released'[i] = IF i < next_queue_id /\ ~ Held(i)' THEN 1 ELSE 0
    BY <1>1 DEF ReleaseCounts
  <2>1. i \in Nat
    OBVIOUS
  <2>2. CASE InQueue(b, i)
    <3>1. Held(i) /\ i < next_queue_id
      BY <2>1, <2>2, HeldIs DEF EnvelopeInv, HeldOnce
    <3>2. ~ Held(i)'
      BY <1>1, <2>1, <2>2, HeldIs DEF EnvelopeInv, HeldOnce
    <3> QED
      BY <1>1, <2>2, <3>1, <3>2 DEF EnvelopeInv, ReleaseCounts
  <2>3. CASE ~ InQueue(b, i)
    <3>1. Held(i)' <=> Held(i)
      BY <1>1, <2>1, <2>3, HeldIs
    <3> QED
      BY <1>1, <2>3, <3>1 DEF EnvelopeInv, ReleaseCounts
  <2> QED
    BY <2>2, <2>3
<1> QED
  BY <1>2, <1>3 DEF EnvelopeInv

\* Consuming the front of a queue keeps EnvelopeInv.
LEMMA PopFrontKeepsEnvelopeInv ==
    ASSUME TypeOK, QueueInv, EnvelopeInv, NEW b \in Branch,
           NEW kind \in {"Applied", "Failed"},
           NEW c \in Commit \union {None}, NEW at \in Millis,
           queues[b] # <<>>, PopFront(b, kind, c, at)
    PROVE  EnvelopeInv'
<1> DEFINE e == Head(queues[b])
<1>1. /\ next_queue_id' = next_queue_id
      /\ e.queue_id \in Nat /\ InQueue(b, e.queue_id)
      /\ e.key = None \/ e.key \in Key
      /\ \A a \in Branch, i \in Nat :
            InQueue(a, i)' <=> InQueue(a, i) /\ ~(a = b /\ i = e.queue_id)
      /\ \A a \in Branch, k \in Key, i \in Nat :
            InRecord(a, k, i)' <=> InRecord(a, k, i) \/ (a = b /\ k = e.key /\ i = e.queue_id)
      /\ \A i \in 0 .. MaxQueueId - 1 :
            released'[i] = IF e.key = None /\ i = e.queue_id
                           THEN released[i] + 1 ELSE released[i]
  BY PopFrontEnvelopes
<1> HIDE DEF e
<1>2. HeldOnce'
  BY <1>1 DEF EnvelopeInv, HeldOnce
<1>3. ReleaseCounts'
  <2> SUFFICES ASSUME NEW i \in 0 .. MaxQueueId - 1
               PROVE  released'[i] = IF i < next_queue_id /\ ~ Held(i)' THEN 1 ELSE 0
    BY <1>1 DEF ReleaseCounts
  <2>1. i \in Nat
    OBVIOUS
  <2>2. CASE i = e.queue_id /\ e.key = None
    <3>1. Held(i) /\ i < next_queue_id
      BY <1>1, <2>1, <2>2, HeldIs DEF EnvelopeInv, HeldOnce
    <3>2. ~ Held(i)'
      <4>1. \A k \in Key : k # e.key
        BY <2>2, NoneAssumption
      <4> QED
        BY <1>1, <2>1, <2>2, <4>1, HeldIs DEF EnvelopeInv, HeldOnce
    <3> QED
      BY <1>1, <2>2, <3>1, <3>2 DEF EnvelopeInv, ReleaseCounts
  <2>3. CASE ~(i = e.queue_id /\ e.key = None)
    <3>1. Held(i)' <=> Held(i)
      BY <1>1, <2>1, <2>3, HeldIs
    <3> QED
      BY <1>1, <2>3, <3>1 DEF EnvelopeInv, ReleaseCounts
  <2> QED
    BY <2>2, <2>3
<1> QED
  BY <1>2, <1>3 DEF EnvelopeInv

\* An enqueue keeps EnvelopeInv: the envelope it takes in is a fresh one.
LEMMA EnqueueKeepsEnvelopeInv ==
    ASSUME TypeOK, EnvelopeInv, NEW b \in Branch, NEW k \in Key \union {None},
           NEW body \in Body, apply_enqueue_command(b, k, body)
    PROVE  EnvelopeInv'
<1>1. /\ next_queue_id \in Nat /\ next_queue_id' = next_queue_id + 1
      /\ \A a \in Branch, i \in Nat :
            InQueue(a, i)' <=> InQueue(a, i) \/ (a = b /\ i = next_queue_id)
      /\ \A a \in Branch, l \in Key, i \in Nat : InRecord(a, l, i)' <=> InRecord(a, l, i)
      /\ released' = released
  BY EnqueueEnvelopes
<1>2. HeldOnce'
  BY <1>1 DEF EnvelopeInv, HeldOnce
<1>3. ReleaseCounts'
  <2> SUFFICES ASSUME NEW i \in 0 .. MaxQueueId - 1
               PROVE  released[i] = IF i < next_queue_id + 1 /\ ~ Held(i)' THEN 1 ELSE 0
    BY <1>1 DEF ReleaseCounts
  <2>1. i \in Nat
    OBVIOUS
  <2>2. Held(i)' <=> Held(i) \/ i = next_queue_id
    BY <1>1, <2>1, HeldIs
  <2>3. released[i] = IF i < next_queue_id /\ ~ Held(i) THEN 1 ELSE 0
    BY DEF EnvelopeInv, ReleaseCounts
  <2>4. CASE i = next_queue_id
    BY <1>1, <2>2, <2>3, <2>4
  <2>5. CASE i # next_queue_id
    <3>1. i < next_queue_id + 1 <=> i < next_queue_id
      BY <1>1, <2>1, <2>5
    <3> QED
      BY <2>2, <2>3, <2>5, <3>1
  <2> QED
    BY <2>4, <2>5
<1> QED
  BY <1>2, <1>3 DEF EnvelopeInv

\* An eviction keeps EnvelopeInv.
LEMMA EvictKeepsEnvelopeInv ==
    ASSUME TypeOK, EnvelopeInv, NEW cutoff \in Millis, NEW marker_cutoff \in Millis,
           apply_evict_idempotency(cutoff, marker_cutoff)
    PROVE  EnvelopeInv'
<1>1. PICK S \in SUBSET (Branch \X Key) :
         /\ next_queue_id' = next_queue_id
         /\ \A a \in Branch, i \in Nat : InQueue(a, i)' <=> InQueue(a, i)
         /\ \A a \in Branch, k \in Key, i \in Nat :
               InRecord(a, k, i)' <=> InRecord(a, k, i) /\ <<a, k>> \notin S
         /\ \A i \in 0 .. MaxQueueId - 1 :
               released'[i] = IF \E a \in Branch, k \in Key :
                                    <<a, k>> \in S /\ InRecord(a, k, i)
                              THEN released[i] + 1 ELSE released[i]
  BY EvictEnvelopes
<1>2. HeldOnce'
  <2>1. /\ next_queue_id' = next_queue_id
        /\ \A a \in Branch, i \in Nat : InQueue(a, i)' <=> InQueue(a, i)
        /\ \A a \in Branch, k \in Key, i \in Nat : InRecord(a, k, i)' => InRecord(a, k, i)
    BY <1>1
  <2> QED
    BY <2>1 DEF EnvelopeInv, HeldOnce
<1>3. ReleaseCounts'
  <2> SUFFICES ASSUME NEW i \in 0 .. MaxQueueId - 1
               PROVE  released'[i] = IF i < next_queue_id /\ ~ Held(i)' THEN 1 ELSE 0
    BY <1>1 DEF ReleaseCounts
  <2>1. i \in Nat
    OBVIOUS
  <2>2. ASSUME NEW a \in Branch, NEW k \in Key, <<a, k>> \in S, InRecord(a, k, i)
        PROVE  released'[i] = IF i < next_queue_id /\ ~ Held(i)' THEN 1 ELSE 0
    <3>1. Held(i) /\ i < next_queue_id
      BY <2>1, <2>2, HeldIs DEF EnvelopeInv, HeldOnce
    <3>2. ~ Held(i)'
      <4>1. ~ \E d \in Branch : InQueue(d, i)'
        BY <1>1, <2>1, <2>2 DEF EnvelopeInv, HeldOnce
      <4>2. ASSUME NEW d \in Branch, NEW l \in Key, InRecord(d, l, i)' PROVE FALSE
        <5>1. InRecord(d, l, i) /\ <<d, l>> \notin S
          BY <1>1, <2>1, <4>2
        <5>2. d = a /\ l = k
          BY <2>1, <2>2, <5>1 DEF EnvelopeInv, HeldOnce
        <5> QED
          BY <2>2, <5>1, <5>2
      <4> QED
        BY <4>1, <4>2, HeldIs
    <3> QED
      BY <1>1, <2>2, <3>1, <3>2 DEF EnvelopeInv, ReleaseCounts
  <2>3. CASE ~ \E a \in Branch, k \in Key : <<a, k>> \in S /\ InRecord(a, k, i)
    <3>1. Held(i)' <=> Held(i)
      BY <1>1, <2>1, <2>3, HeldIs
    <3> QED
      BY <1>1, <2>3, <3>1 DEF EnvelopeInv, ReleaseCounts
  <2> QED
    BY <2>2, <2>3
<1> QED
  BY <1>2, <1>3 DEF EnvelopeInv

\* Every command keeps EnvelopeInv.
LEMMA EnvelopeStep ==
    ASSUME TypeOK, QueueInv, EnvelopeInv, [Next]_vars
    PROVE  EnvelopeInv'
<1>1. ASSUME NEW b \in Branch, create_ledger(b) PROVE EnvelopeInv'
  BY <1>1, EnvelopeStutters DEF create_ledger, queueVars
<1>2. ASSUME NEW b \in Branch, NEW at, retract_ledger(b, at) PROVE EnvelopeInv'
  BY <1>2, ClearKeepsEnvelopeInv DEF retract_ledger
<1>3. ASSUME NEW b \in Branch, NEW at, purge_branch(b, at) PROVE EnvelopeInv'
  BY <1>3, ClearKeepsEnvelopeInv DEF purge_branch
<1>4. ASSUME NEW b \in Branch, NEW at, drop_branch(b, at) PROVE EnvelopeInv'
  BY <1>4, ClearKeepsEnvelopeInv DEF drop_branch
<1>5. ASSUME NEW b \in Branch, NEW src, NEW c, create_branch(b, src, c) PROVE EnvelopeInv'
  BY <1>5, EnvelopeStutters DEF create_branch, queueVars
<1>6. ASSUME NEW b \in Branch, NEW s, NEW at, reset_head(b, s, at) PROVE EnvelopeInv'
  BY <1>6, ClearKeepsEnvelopeInv DEF reset_head
<1>7. ASSUME NEW b \in Branch, NEW x, advance_index_head(b, x) \/ rewrite_index_head(b, x)
      PROVE  EnvelopeInv'
  BY <1>7, EnvelopeStutters DEF advance_index_head, rewrite_index_head, set_index_head,
                                queueVars
<1>8. ASSUME NEW b \in Branch, NEW e, NEW c, compare_and_set_commit(b, e, c)
      PROVE  EnvelopeInv'
  BY <1>8, EnvelopeStutters DEF compare_and_set_commit, queueVars
<1>9. ASSUME NEW b \in Branch, NEW e, NEW x, NEW t, compare_and_set_index(b, e, x, t)
      PROVE  EnvelopeInv'
  BY <1>9, EnvelopeStutters DEF compare_and_set_index, queueVars
<1>10. ASSUME NEW b \in Branch, NEW k \in Key \union {None}, NEW body \in Body,
              apply_enqueue_command(b, k, body)
       PROVE  EnvelopeInv'
  BY <1>10, EnqueueKeepsEnvelopeInv
<1>11. ASSUME NEW b \in Branch, ConsumeMarker(b) PROVE EnvelopeInv'
  BY <1>11, EnvelopeStutters DEF ConsumeMarker
<1>12. ASSUME NEW b \in Branch, NEW id, NEW c \in Commit, NEW at \in Millis,
              apply_head(b, id, c, at)
       PROVE  EnvelopeInv'
  <2>1. CASE HeadResponse(b, id, c) = "HeadApplied" /\ PopFront(b, "Applied", c, at)
    BY <2>1, HeadAppliedWhen, FrontOk, PopFrontKeepsEnvelopeInv
  <2>2. CASE ConsumeMarker(b)
    BY <1>11, <2>2
  <2> QED
    BY <1>12, <2>1, <2>2 DEF apply_head
<1>13. ASSUME NEW b \in Branch, NEW id, NEW at \in Millis,
              apply_poison_queue_entry(b, id, at)
       PROVE  EnvelopeInv'
  <2>1. CASE FrontCheck(b, id) = "Ok" /\ PopFront(b, "Failed", None, at)
    BY <2>1, FrontOk, PopFrontKeepsEnvelopeInv
  <2>2. CASE ConsumeMarker(b)
    BY <1>11, <2>2
  <2> QED
    BY <1>13, <2>1, <2>2 DEF apply_poison_queue_entry
<1>14. ASSUME NEW cutoff \in Millis, NEW marker_cutoff \in Millis,
              apply_evict_idempotency(cutoff, marker_cutoff)
       PROVE  EnvelopeInv'
  BY <1>14, EvictKeepsEnvelopeInv
<1>15. CASE UNCHANGED vars
  BY <1>15, EnvelopeStutters DEF vars
<1> QED
  BY <1>1, <1>2, <1>3, <1>4, <1>5, <1>6, <1>7, <1>8, <1>9, <1>10, <1>12, <1>13, <1>14,
     <1>15 DEF Next

LEMMA EnvelopeInvariant == Spec => []EnvelopeInv
<1>1. Init => EnvelopeInv
  <2> SUFFICES ASSUME Init PROVE EnvelopeInv
    OBVIOUS
  <2>1. \A b \in Branch : queues[b] = <<>>
    BY DEF Init
  <2>2. \A b \in Branch, k \in Key : idempotency[b][k] = None
    BY DEF Init
  <2>3. HeldOnce
    BY <2>1, <2>2 DEF HeldOnce, InQueue, InRecord
  <2>4. ReleaseCounts
    BY DEF Init, ReleaseCounts
  <2> QED
    BY <2>3, <2>4 DEF EnvelopeInv
<1>2. TypeOK /\ QueueInv /\ EnvelopeInv /\ [Next]_vars => EnvelopeInv'
  BY EnvelopeStep
<1>3. MarkerOnlyWhenIdle /\ QueueIdsOrdered /\ KeyLiveOnce => QueueInv
  BY DEF QueueInv
<1> QED
  BY <1>1, <1>2, <1>3, TypeCorrect, QueuesSound, PTL DEF Spec

\* No envelope is freed while a queue entry or a record still names it, none is
\* freed twice and none is leaked, in any history of submissions, completions,
\* poisonings, admin clears and evictions.
THEOREM EnvelopesAccounted == Spec => []EnvelopeAccounting
<1>1. TypeOK /\ EnvelopeInv => EnvelopeAccounting
  BY ConstantsAssumption
     DEF TypeOK, EnvelopeInv, ReleaseCounts, EnvelopeAccounting, IssuedIds
<1> QED
  BY <1>1, EnvelopeInvariant, TypeCorrect, PTL

\* What OutcomeStable says of one record in one step.
Stable(b, k) ==
    idempotency[b][k] # None =>
        \/ idempotency'[b][k] = idempotency[b][k]
        \/ /\ idempotency'[b][k] = None
           /\ released'[idempotency[b][k].request_cid] = 1

\* Consuming a front overwrites no record.
LEMMA PopFrontStable ==
    ASSUME TypeOK, QueueInv, NEW b \in Branch, NEW kind, NEW c, NEW at,
           queues[b] # <<>>, PopFront(b, kind, c, at)
    PROVE  \A a \in Branch, k \in Key : Stable(a, k)
<1> DEFINE e == Head(queues[b])
<1>1. queues[b] \in Seq(QueueEntry) /\ e = queues[b][1] /\ 1 \in 1 .. Len(queues[b])
  BY DEF TypeOK
<1>2. CASE e.key = None
  BY <1>2 DEF PopFront, Stable
<1>3. CASE e.key # None
  <2>1. idempotency[b][e.key] = None
    BY <1>1, <1>3 DEF QueueInv, KeyLiveOnce
  <2>2. \A a \in Branch, k \in Key :
           idempotency'[a][k] = idempotency[a][k] \/ (a = b /\ k = e.key)
    BY <1>3 DEF PopFront, TypeOK
  <2> QED
    BY <2>1, <2>2 DEF Stable
<1> QED
  BY <1>2, <1>3

\* An eviction releases the envelope of every record it drops.
LEMMA EvictStable ==
    ASSUME TypeOK, EnvelopeInv, NEW cutoff \in Millis, NEW marker_cutoff \in Millis,
           apply_evict_idempotency(cutoff, marker_cutoff)
    PROVE  \A a \in Branch, k \in Key : Stable(a, k)
<1> SUFFICES ASSUME NEW a \in Branch, NEW k \in Key, idempotency[a][k] # None
             PROVE  \/ idempotency'[a][k] = idempotency[a][k]
                    \/ /\ idempotency'[a][k] = None
                       /\ released'[idempotency[a][k].request_cid] = 1
  BY DEF Stable
<1> DEFINE i == idempotency[a][k].request_cid
<1>1. PICK S \in SUBSET (Branch \X Key) :
         /\ \A d \in Branch, l \in Key :
               idempotency'[d][l] = IF <<d, l>> \in S THEN None ELSE idempotency[d][l]
         /\ \A j \in 0 .. MaxQueueId - 1 :
               released'[j] = IF \E d \in Branch, l \in Key :
                                    <<d, l>> \in S /\ InRecord(d, l, j)
                              THEN released[j] + 1 ELSE released[j]
  BY EvictEnvelopes
<1>2. CASE <<a, k>> \notin S
  BY <1>1, <1>2
<1>3. CASE <<a, k>> \in S
  <2>1. i \in Nat /\ InRecord(a, k, i)
    BY DEF TypeOK, ApplyOutcome, InRecord
  <2>2. i < next_queue_id
    BY <2>1 DEF EnvelopeInv, HeldOnce
  <2>3. i \in 0 .. MaxQueueId - 1
    BY <2>1, <2>2, ConstantsAssumption DEF TypeOK
  <2>4. Held(i)
    BY <2>1, HeldIs
  <2> HIDE DEF i
  <2>5. released[i] = 0
    BY <2>3, <2>4 DEF EnvelopeInv, ReleaseCounts
  <2>6. released'[i] = 1
    BY <1>1, <1>3, <2>1, <2>3, <2>5
  <2> USE DEF i
  <2> QED
    BY <1>1, <1>3, <2>6
<1> QED
  BY <1>2, <1>3

\* A recorded outcome is never rewritten: the retry of a finished request is
\* answered with the same outcome until the record is evicted, and the eviction
\* releases the record's envelope, for the first time.
THEOREM OutcomesStable == Spec => OutcomeStable
<1>1. TypeOK /\ QueueInv /\ EnvelopeInv /\ [Next]_vars =>
        [\A b \in Branch, k \in Key :
          idempotency[b][k] # None =>
              \/ idempotency'[b][k] = idempotency[b][k]
              \/ /\ idempotency'[b][k] = None
                 /\ released'[idempotency[b][k].request_cid] = 1]_vars
  <2> SUFFICES ASSUME TypeOK, QueueInv, EnvelopeInv, [Next]_vars
               PROVE  \A b \in Branch, k \in Key : Stable(b, k)
    BY DEF Stable
  <2>1. CASE UNCHANGED idempotency
    BY <2>1 DEF Stable
  <2>2. ASSUME NEW b \in Branch, NEW at,
               retract_ledger(b, at) \/ purge_branch(b, at) \/ drop_branch(b, at)
        PROVE  UNCHANGED idempotency
    BY <2>2 DEF retract_ledger, purge_branch, drop_branch
  <2>3. ASSUME NEW b \in Branch, NEW e, NEW c, NEW t,
               \/ create_ledger(b)
               \/ create_branch(b, e, c)
               \/ reset_head(b, e, c)
               \/ compare_and_set_commit(b, e, c)
               \/ compare_and_set_index(b, e, c, t)
               \/ apply_enqueue_command(b, e, c)
        PROVE  UNCHANGED idempotency
    BY <2>3 DEF create_ledger, create_branch, reset_head, compare_and_set_commit,
                compare_and_set_index, apply_enqueue_command
  <2>4. ASSUME NEW b \in Branch, NEW x, advance_index_head(b, x) \/ rewrite_index_head(b, x)
        PROVE  UNCHANGED idempotency
    BY <2>4 DEF advance_index_head, rewrite_index_head, set_index_head
  <2>5. ASSUME NEW b \in Branch, NEW id, NEW c, NEW at, apply_head(b, id, c, at)
        PROVE  \A a \in Branch, k \in Key : Stable(a, k)
    <3>1. CASE HeadResponse(b, id, c) = "HeadApplied" /\ PopFront(b, "Applied", c, at)
      BY <3>1, HeadAppliedWhen, FrontOk, PopFrontStable
    <3>2. CASE ConsumeMarker(b)
      BY <2>1, <3>2 DEF ConsumeMarker
    <3> QED
      BY <2>5, <3>1, <3>2 DEF apply_head
  <2>6. ASSUME NEW b \in Branch, NEW id, NEW at, apply_poison_queue_entry(b, id, at)
        PROVE  \A a \in Branch, k \in Key : Stable(a, k)
    <3>1. CASE FrontCheck(b, id) = "Ok" /\ PopFront(b, "Failed", None, at)
      BY <3>1, FrontOk, PopFrontStable
    <3>2. CASE ConsumeMarker(b)
      BY <2>1, <3>2 DEF ConsumeMarker
    <3> QED
      BY <2>6, <3>1, <3>2 DEF apply_poison_queue_entry
  <2>7. ASSUME NEW cutoff \in Millis, NEW marker_cutoff \in Millis,
               apply_evict_idempotency(cutoff, marker_cutoff)
        PROVE  \A a \in Branch, k \in Key : Stable(a, k)
    BY <2>7, EvictStable
  <2>8. CASE UNCHANGED vars
    BY <2>1, <2>8 DEF vars
  <2> QED
    BY <2>1, <2>2, <2>3, <2>4, <2>5, <2>6, <2>7, <2>8 DEF Next
<1>2. MarkerOnlyWhenIdle /\ QueueIdsOrdered /\ KeyLiveOnce => QueueInv
  BY DEF QueueInv
<1> QED
  BY <1>1, <1>2, TypeCorrect, QueuesSound, EnvelopeInvariant, PTL DEF Spec, OutcomeStable

-----------------------------------------------------------------------------
(* Lineage.  A branch's children are finitely many, and a command moves    *)
(* its child count as it moves the set.                                    *)

Finite == \A p \in Branch : IsFiniteSet(Children(p))

\* What LineageKept says of one branch in one step.
CountKept(p) ==
    CountExact(p) =>
        CountExact(p)' \/ \E b \in Children(p) \union {p} : ResetToUnborn(b)

\* A ref that is written without touching its lineage, or is written first.
LEMMA SameLineage ==
    ASSUME TypeOK, Finite, NEW b \in Branch, NEW e \in RefEntry,
           refs' = [refs EXCEPT ![b] = e],
           refs[b] = None => e.source_branch = None /\ e.branches = 0,
           refs[b] # None => /\ e.source_branch = refs[b].source_branch
                             /\ e.branches = refs[b].branches
    PROVE  Finite' /\ \A p \in Branch : CountKept(p)
<1>1. e # None
  BY NoneAssumption
<1>2. \A a \in Branch : refs'[a] = IF a = b THEN e ELSE refs[a]
  BY DEF TypeOK
<1>3. \A p \in Branch : Children(p)' = Children(p)
  BY <1>1, <1>2, NoneAssumption DEF Children
<1>4. \A p \in Branch : ChildCount(p)' = ChildCount(p)
  BY <1>1, <1>2 DEF ChildCount
<1> QED
  BY <1>3, <1>4 DEF Finite, CountKept, CountExact

\* A fork: the source gains the child.
LEMMA ForkKeepsLineage ==
    ASSUME TypeOK, RegistryConsistent, Finite,
           NEW b \in Branch, NEW src \in Branch, NEW c \in Commit \union {None},
           create_branch(b, src, c)
    PROVE  Finite' /\ \A p \in Branch : CountKept(p)
<1> DEFINE e == [head |-> IF c = None THEN refs[src].head ELSE c,
                 index |-> None, source_branch |-> src, branches |-> 0]
           f == [refs[src] EXCEPT !.branches = @ + 1]
<1>1. refs[src] \in RefEntry /\ refs[src] # None /\ refs[b] = None /\ b # src
  BY DEF TypeOK, create_branch, RegistryConsistent
<1>2. /\ e \in RefEntry /\ e.source_branch = src /\ e.branches = 0
      /\ f \in RefEntry /\ f.source_branch = refs[src].source_branch
      /\ f.branches = refs[src].branches + 1
  BY <1>1 DEF RefEntry
<1>3. \A a \in Branch : refs'[a] = IF a = b THEN e ELSE IF a = src THEN f ELSE refs[a]
  BY <1>1 DEF create_branch, TypeOK
<1>4. e # None /\ f # None
  BY <1>2, NoneAssumption
<1> HIDE DEF e, f
<1>5. ASSUME NEW p \in Branch
      PROVE  Children(p)' = IF p = src THEN Children(p) \union {b} ELSE Children(p)
  BY <1>1, <1>2, <1>3, <1>4 DEF Children
<1>6. b \notin Children(src)
  BY <1>1 DEF Children
<1>7. Finite'
  BY <1>5, FS_AddElement DEF Finite
<1>8. \A p \in Branch : ChildCount(p)' = IF p = src THEN ChildCount(p) + 1 ELSE ChildCount(p)
  BY <1>1, <1>2, <1>3, <1>4 DEF ChildCount
<1>9. Cardinality(Children(src) \union {b}) = Cardinality(Children(src)) + 1
  BY <1>6, FS_AddElement DEF Finite
<1> QED
  BY <1>5, <1>7, <1>8, <1>9 DEF CountKept, CountExact

\* A removal: the source loses the child, and a branch whose count is exact has
\* none of its own.
LEMMA RemoveKeepsLineage ==
    ASSUME TypeOK, Finite, NEW b \in Branch, RemoveBranch(b)
    PROVE  Finite' /\ \A q \in Branch : CountKept(q)
<1> DEFINE r == [refs EXCEPT ![b] = None]
           p == IF refs[b] = None THEN None ELSE refs[b].source_branch
           g == [refs[p] EXCEPT !.branches = IF @ = 0 THEN 0 ELSE @ - 1]
<1>1. /\ r \in [Branch -> RefEntry \union {None}] /\ p \in Branch \union {None}
      /\ refs' = decrement_child_count(r, p)
  BY DEF TypeOK, RefEntry, RemoveBranch
<1>2. \A a \in Branch : r[a] = IF a = b THEN None ELSE refs[a]
  BY DEF TypeOK
<1>3. CASE p = None \/ r[p] = None
  <2>1. refs' = r
    BY <1>1, <1>3 DEF decrement_child_count
  <2>2. \A q \in Branch : Children(q)' = Children(q) \ {b}
    BY <1>2, <2>1 DEF Children
  <2>3. Finite'
    BY <2>2, FS_RemoveElement DEF Finite
  <2>4. ChildCount(b) = 0 /\ ChildCount(b)' = 0
    <3>1. refs[b] # None => refs[b].branches \in Nat /\ ~(refs[b].branches > 0)
      BY DEF RemoveBranch, HasChildren, TypeOK, RefEntry
    <3>2. refs'[b] = None
      BY <1>2, <2>1
    <3> QED
      BY <3>1, <3>2 DEF ChildCount
  <2>5. \A q \in Branch \ {b} : ChildCount(q)' = ChildCount(q)
    BY <1>2, <2>1 DEF ChildCount
  <2>6. ASSUME NEW q \in Branch, CountExact(q)
        PROVE  b \notin Children(q)
    <3>1. ASSUME b \in Children(q) PROVE ChildCount(q) = 0
      BY <1>2, <1>3, <2>4, <3>1, NoneAssumption DEF Children, ChildCount
    <3>2. ChildCount(q) = 0 => Children(q) = {}
      BY <2>6, FS_EmptySet DEF CountExact, Finite
    <3> QED
      BY <3>1, <3>2
  <2>7. \A q \in Branch : CountExact(q) => Children(q)' = Children(q)
    BY <2>2, <2>6
  <2>8. \A q \in Branch : ChildCount(q)' = ChildCount(q)
    BY <2>4, <2>5
  <2> QED
    BY <2>3, <2>7, <2>8 DEF CountKept, CountExact
<1>4. CASE p # None /\ r[p] # None
  <2>1. p \in Branch /\ p # b /\ refs[p] \in RefEntry /\ r[p] = refs[p] /\ refs[p] # None
        /\ refs[b] # None /\ p = refs[b].source_branch
    BY <1>1, <1>2, <1>4 DEF TypeOK
  <2>2. refs' = [r EXCEPT ![p] = g]
    BY <1>1, <1>4, <2>1 DEF decrement_child_count
  <2>3. /\ g \in RefEntry /\ g.source_branch = refs[p].source_branch
        /\ g.branches = IF refs[p].branches = 0 THEN 0 ELSE refs[p].branches - 1
        /\ refs[p].branches \in Nat
    BY <2>1 DEF RefEntry
  <2>4. g # None
    BY <2>3, NoneAssumption
  <2> HIDE DEF g, r, p
  <2>0. PICK s \in Branch : s = p
    BY <2>1
  <2>5. \A a \in Branch : refs'[a] = IF a = s THEN g ELSE IF a = b THEN None ELSE refs[a]
    BY <1>1, <1>2, <2>0, <2>1, <2>2
  <2>6. \A q \in Branch : Children(q)' = Children(q) \ {b}
    BY <2>0, <2>1, <2>3, <2>4, <2>5 DEF Children
  <2>7. Finite'
    BY <2>6, FS_RemoveElement DEF Finite
  <2>8. ChildCount(b) = 0
    <3>1. refs[b].branches \in Nat /\ ~(refs[b].branches > 0)
      BY <2>1 DEF RemoveBranch, HasChildren, TypeOK, RefEntry
    <3> QED
      BY <3>1 DEF ChildCount
  <2>9. b \in Children(s) /\ \A q \in Branch : q # s => b \notin Children(q)
    BY <2>0, <2>1 DEF Children
  <2>10. \A q \in Branch : q # s => ChildCount(q)' = ChildCount(q) /\ Children(q)' = Children(q)
    BY <2>0, <2>5, <2>6, <2>8, <2>9 DEF ChildCount
  <2>11. ASSUME CountExact(s) PROVE CountExact(s)'
    <3>1. Cardinality(Children(s)) # 0
      BY <2>0, <2>1, <2>9, FS_EmptySet DEF Finite
    <3>2. Cardinality(Children(s) \ {b}) = Cardinality(Children(s)) - 1
      BY <2>0, <2>1, <2>9, FS_RemoveElement DEF Finite
    <3>3. ChildCount(s) = refs[s].branches /\ ChildCount(s)' = g.branches
      BY <2>0, <2>1, <2>4, <2>5 DEF ChildCount
    <3>4. refs[s].branches = Cardinality(Children(s))
      BY <2>0, <2>11, <3>3 DEF CountExact
    <3>5. ChildCount(s)' = Cardinality(Children(s)) - 1
      BY <2>0, <2>3, <3>1, <3>3, <3>4
    <3> QED
      BY <2>0, <2>1, <2>6, <3>2, <3>5 DEF CountExact
  <2> QED
    BY <2>7, <2>10, <2>11 DEF CountKept, CountExact
<1> QED
  BY <1>3, <1>4

\* A reset: to a head it leaves the lineage alone, to an unborn snapshot it
\* removes the entry.
LEMMA ResetKeepsLineage ==
    ASSUME TypeOK, Finite, NEW b \in Branch, NEW s \in Snapshot, NEW at, reset_head(b, s, at)
    PROVE  Finite' /\ \A p \in Branch : CountKept(p)
<1> DEFINE e == ResetRef(refs[b], s)
<1>1. s \in ResetHeadSnapshot
  BY ConstantsAssumption
<1>2. refs[b] \in RefEntry \union {None}
  BY DEF TypeOK
<1>3. refs' = [refs EXCEPT ![b] = e] /\ b \in branches'
  BY DEF reset_head
<1>4. CASE s.head # None
  <2>1. /\ e \in RefEntry
        /\ refs[b] = None => e.source_branch = None /\ e.branches = 0
        /\ refs[b] # None => /\ e.source_branch = refs[b].source_branch
                             /\ e.branches = refs[b].branches
    BY <1>1, <1>2, <1>4 DEF ResetRef, RefEntry, ResetHeadSnapshot
  <2> HIDE DEF e
  <2> QED
    BY <1>3, <2>1, SameLineage
<1>5. CASE s.head = None
  <2>1. \A a \in Branch : refs'[a] = IF a = b THEN None ELSE refs[a]
    BY <1>3, <1>5 DEF ResetRef, TypeOK
  <2>2. \A p \in Branch : Children(p)' = Children(p) \ {b}
    BY <2>1 DEF Children
  <2>3. Finite'
    BY <2>2, FS_RemoveElement DEF Finite
  <2>4. CASE refs[b] = None
    <3>1. \A p \in Branch : Children(p)' = Children(p) /\ ChildCount(p)' = ChildCount(p)
      BY <2>1, <2>2, <2>4 DEF Children, ChildCount
    <3> QED
      BY <2>3, <3>1 DEF CountKept, CountExact
  <2>5. CASE refs[b] # None
    <3>1. ResetToUnborn(b)
      BY <1>3, <2>1, <2>5 DEF ResetToUnborn
    <3>2. \A p \in Branch : p # b => ChildCount(p)' = ChildCount(p)
      BY <2>1 DEF ChildCount
    <3>3. \A p \in Branch : b \notin Children(p) => Children(p)' = Children(p)
      BY <2>2
    <3> QED
      BY <2>3, <3>1, <3>2, <3>3 DEF CountKept, CountExact
  <2> QED
    BY <2>4, <2>5
<1> QED
  BY <1>4, <1>5

\* Every command keeps the counts that are exact.
LEMMA LineageStep ==
    ASSUME TypeOK, RegistryConsistent, Finite, [Next]_vars
    PROVE  Finite' /\ \A p \in Branch : CountKept(p)
<1> DEFINE Lineage == Finite' /\ \A p \in Branch : CountKept(p)
<1>0. ASSUME refs' = refs PROVE Lineage
  BY <1>0 DEF Finite, CountKept, CountExact, ChildCount, Children
<1>1. ASSUME NEW b \in Branch, NEW at, purge_branch(b, at) \/ drop_branch(b, at)
      PROVE  Lineage
  BY <1>1, RemoveKeepsLineage DEF purge_branch, drop_branch
<1>2. ASSUME NEW b \in Branch, NEW src \in Branch, NEW c \in Commit \union {None},
             create_branch(b, src, c)
      PROVE  Lineage
  BY <1>2, ForkKeepsLineage
<1>3. ASSUME NEW b \in Branch, NEW s \in Snapshot, NEW at, reset_head(b, s, at)
      PROVE  Lineage
  BY <1>3, ResetKeepsLineage
<1>4. ASSUME NEW b \in Branch, NEW x \in IndexRoot \union {None}, refs[b] # None,
             refs' = [refs EXCEPT ![b].index = x]
      PROVE  Lineage
  <2> DEFINE e == [refs[b] EXCEPT !.index = x]
  <2>1. refs[b] \in RefEntry
    BY <1>4 DEF TypeOK
  <2>2. /\ e \in RefEntry /\ e.source_branch = refs[b].source_branch
        /\ e.branches = refs[b].branches
    BY <2>1 DEF RefEntry
  <2>3. refs' = [refs EXCEPT ![b] = e]
    BY <1>4 DEF TypeOK
  <2> HIDE DEF e
  <2> QED
    BY <1>4, <2>2, <2>3, SameLineage
<1>5. ASSUME NEW b \in Branch, NEW x \in IndexRoot,
             advance_index_head(b, x) \/ rewrite_index_head(b, x)
      PROVE  Lineage
  BY <1>4, <1>5 DEF advance_index_head, rewrite_index_head, set_index_head
<1>6. ASSUME NEW b \in Branch, NEW e, NEW x \in IndexRoot \union {None}, NEW t,
             compare_and_set_index(b, e, x, t)
      PROVE  Lineage
  BY <1>4, <1>6 DEF compare_and_set_index
<1>7. ASSUME NEW b \in Branch, NEW c \in Commit,
             refs' = [refs EXCEPT ![b] = AdvancedRef(b, c)]
      PROVE  Lineage
  <2>1. refs[b] \in RefEntry \union {None}
    BY DEF TypeOK
  <2>2. /\ AdvancedRef(b, c) \in RefEntry
        /\ refs[b] = None => /\ AdvancedRef(b, c).source_branch = None
                             /\ AdvancedRef(b, c).branches = 0
        /\ refs[b] # None => /\ AdvancedRef(b, c).source_branch = refs[b].source_branch
                             /\ AdvancedRef(b, c).branches = refs[b].branches
    BY <2>1 DEF AdvancedRef, RefEntry
  <2> QED
    BY <1>7, <2>2, SameLineage
<1>8. ASSUME NEW b \in Branch, NEW e, NEW c \in Commit, compare_and_set_commit(b, e, c)
      PROVE  Lineage
  BY <1>7, <1>8 DEF compare_and_set_commit, AdvancedRef
<1>9. ASSUME NEW b \in Branch, NEW id, NEW c \in Commit, NEW at, apply_head(b, id, c, at)
      PROVE  Lineage
  BY <1>0, <1>7, <1>9 DEF apply_head, ConsumeMarker, registryVars
<1>10. ASSUME NEW b \in Branch, NEW id, NEW at, apply_poison_queue_entry(b, id, at)
       PROVE  Lineage
  BY <1>0, <1>10 DEF apply_poison_queue_entry, ConsumeMarker, registryVars
<1>11. ASSUME NEW b \in Branch, NEW k, NEW body,
              \/ create_ledger(b)
              \/ retract_ledger(b, k)
              \/ apply_enqueue_command(b, k, body)
       PROVE  Lineage
  BY <1>0, <1>11 DEF create_ledger, retract_ledger, apply_enqueue_command, registryVars
<1>12. ASSUME NEW cutoff, NEW marker_cutoff, apply_evict_idempotency(cutoff, marker_cutoff)
       PROVE  Lineage
  BY <1>0, <1>12 DEF apply_evict_idempotency, registryVars
<1>13. CASE UNCHANGED vars
  BY <1>0, <1>13 DEF vars
<1> QED
  BY <1>1, <1>2, <1>3, <1>5, <1>6, <1>8, <1>9, <1>10, <1>11, <1>12, <1>13 DEF Next

\* A branch never has infinitely many children.
LEMMA FiniteLineage == Spec => []Finite
<1>1. Init => Finite
  <2> SUFFICES ASSUME Init PROVE Finite
    OBVIOUS
  <2>1. \A p \in Branch : Children(p) = {}
    BY DEF Init, Children
  <2> QED
    BY <2>1, FS_EmptySet DEF Finite
<1>2. TypeOK /\ RegistryConsistent /\ Finite /\ [Next]_vars => Finite'
  BY LineageStep
<1> QED
  BY <1>1, <1>2, TypeCorrect, RegistrySound, PTL DEF Spec

\* Whatever commands arrive and in whatever order, the child count that guards
\* purge_branch and drop_branch stays exact, up to the reset of the branch itself
\* or of one of its forks to an unborn snapshot (reset_head's early return).
THEOREM LineageSound == Spec => LineageKept
<1>1. TypeOK /\ RegistryConsistent /\ Finite /\ [Next]_vars =>
        [\A p \in Branch : CountExact(p) =>
            CountExact(p)' \/ \E b \in Children(p) \union {p} : ResetToUnborn(b)]_vars
  BY LineageStep DEF CountKept
<1> QED
  BY <1>1, TypeCorrect, RegistrySound, FiniteLineage, PTL DEF Spec, LineageKept

\* What purge_branch's comment promises, for the branches whose count is exact:
\* the removal of one strands no fork.
THEOREM NoForkStranded ==
    Spec => [][\A p \in Branch : CountExact(p) /\ RemoveBranch(p) => Children(p)' = {}]_vars
<1>1. ASSUME TypeOK, Finite, NEW p \in Branch, CountExact(p), RemoveBranch(p)
      PROVE  Children(p)' = {}
  <2>1. refs[p] # None => refs[p].branches \in Nat /\ ~(refs[p].branches > 0)
    BY <1>1 DEF RemoveBranch, HasChildren, TypeOK, RefEntry
  <2>2. ChildCount(p) = 0
    BY <2>1 DEF ChildCount
  <2>3. Children(p) = {}
    BY <1>1, <2>2, FS_EmptySet DEF CountExact, Finite
  <2>4. ASSUME NEW q \in Branch, refs'[q] # None
        PROVE  refs[q] # None /\ refs'[q].source_branch = refs[q].source_branch
    BY <1>1, <2>4, NoneAssumption DEF RemoveBranch, decrement_child_count, TypeOK, RefEntry
  <2> QED
    BY <2>3, <2>4 DEF Children
<1>2. TypeOK /\ Finite /\ [Next]_vars =>
        [\A p \in Branch : CountExact(p) /\ RemoveBranch(p) => Children(p)' = {}]_vars
  BY <1>1
<1> QED
  BY <1>2, TypeCorrect, FiniteLineage, PTL DEF Spec

-----------------------------------------------------------------------------
(* Caps.                                                                   *)

\* The caps hold, and the places that are counted are finitely many.
CapInv == CapsRespected /\ IsFiniteSet(QueuedPlaces)

\* What shortens queues keeps the caps.
LEMMA ShorterKeepsCaps ==
    ASSUME CapInv, \A b \in Branch : Len(queues[b]) \in Nat,
           \A b \in Branch : Len(queues'[b]) \in Nat /\ Len(queues'[b]) <= Len(queues[b])
    PROVE  CapInv'
<1>1. PICK S : S = QueuedPlaces
  OBVIOUS
<1>2. PICK R : R = QueuedPlaces'
  OBVIOUS
<1>3. R \subseteq S
  BY <1>1, <1>2 DEF QueuedPlaces, QueueDepth
<1>4. IsFiniteSet(S) /\ Cardinality(S) <= GlobalCap
  BY <1>1 DEF CapInv, CapsRespected, GlobalDepth
<1>5. IsFiniteSet(R) /\ Cardinality(R) <= Cardinality(S)
  BY <1>3, <1>4, FS_Subset
<1>6. Cardinality(R) \in Nat /\ Cardinality(S) \in Nat
  BY <1>4, <1>5, FS_CardinalityType
<1>7. Cardinality(R) <= GlobalCap
  BY <1>4, <1>5, <1>6, ConstantsAssumption
<1>8. \A b \in Branch : Len(queues'[b]) <= PerBranchCap
  <2> SUFFICES ASSUME NEW b \in Branch PROVE Len(queues'[b]) <= PerBranchCap
    OBVIOUS
  <2>1. Len(queues[b]) <= PerBranchCap
    BY DEF CapInv, CapsRespected, QueueDepth
  <2> QED
    BY <2>1, ConstantsAssumption
<1> QED
  BY <1>2, <1>5, <1>7, <1>8 DEF CapInv, CapsRespected, GlobalDepth, QueueDepth

\* One entry more in a queue that is not full keeps the caps.
LEMMA LongerKeepsCaps ==
    ASSUME CapInv, \A a \in Branch : Len(queues[a]) \in Nat,
           NEW b \in Branch, ~QueueFull(b),
           \A a \in Branch : Len(queues'[a]) = IF a = b THEN Len(queues[b]) + 1 ELSE Len(queues[a])
    PROVE  CapInv'
<1>1. PICK S : S = QueuedPlaces
  OBVIOUS
<1>2. PICK R : R = QueuedPlaces'
  OBVIOUS
<1>3. PICK p : p = <<b, Len(queues[b]) + 1>>
  OBVIOUS
<1>4. \A x : x \in S <=> \E a \in Branch : \E i \in 1 .. Len(queues[a]) : x = <<a, i>>
  BY <1>1 DEF QueuedPlaces, QueueDepth
<1>5. \A x : x \in R <=> \E a \in Branch : \E i \in 1 .. Len(queues'[a]) : x = <<a, i>>
  BY <1>2 DEF QueuedPlaces, QueueDepth
<1>6. R \subseteq S \union {p}
  <2> SUFFICES ASSUME NEW a \in Branch, NEW i \in 1 .. Len(queues'[a]), <<a, i>> \notin S
               PROVE  <<a, i>> = p
    BY <1>5
  <2>1. i \notin 1 .. Len(queues[a])
    BY <1>4
  <2> QED
    BY <1>3, <2>1
<1>7. /\ IsFiniteSet(S) /\ Cardinality(S) \in Nat /\ Cardinality(S) < GlobalCap
      /\ Len(queues[b]) < PerBranchCap
  <2>1. IsFiniteSet(S) /\ Cardinality(S) \in Nat
    BY <1>1, FS_CardinalityType DEF CapInv
  <2>2. ~(Len(queues[b]) >= PerBranchCap) /\ ~(Cardinality(S) >= GlobalCap)
    BY <1>1 DEF QueueFull, QueueDepth, GlobalDepth
  <2> QED
    BY <2>1, <2>2, ConstantsAssumption
<1>8. PICK U : U = S \union {p}
  OBVIOUS
<1>9. IsFiniteSet(U) /\ Cardinality(U) \in Nat /\ Cardinality(U) <= Cardinality(S) + 1
  <2>1. /\ IsFiniteSet(S \cup {p})
        /\ Cardinality(S \cup {p}) = IF p \in S THEN Cardinality(S) ELSE Cardinality(S) + 1
    BY <1>7, FS_AddElement
  <2>2. IsFiniteSet(U) /\ Cardinality(U) \in {Cardinality(S), Cardinality(S) + 1}
    BY <1>8, <2>1
  <2> QED
    BY <1>7, <2>2
<1>10. IsFiniteSet(R) /\ Cardinality(R) \in Nat /\ Cardinality(R) <= Cardinality(U)
  BY <1>6, <1>8, <1>9, FS_Subset, FS_CardinalityType
<1>11. Cardinality(R) <= GlobalCap
  BY <1>7, <1>9, <1>10, ConstantsAssumption
<1>12. \A a \in Branch : Len(queues'[a]) <= PerBranchCap
  <2> SUFFICES ASSUME NEW a \in Branch PROVE Len(queues'[a]) <= PerBranchCap
    OBVIOUS
  <2>1. Len(queues[a]) <= PerBranchCap
    BY DEF CapInv, CapsRespected, QueueDepth
  <2> QED
    BY <1>7, <2>1, ConstantsAssumption
<1> QED
  BY <1>2, <1>10, <1>11, <1>12 DEF CapInv, CapsRespected, GlobalDepth, QueueDepth

\* No queue grows past QueueConfig.per_branch_cap and all together hold no more
\* entries than QueueConfig.global_cap, for any number of branches.
THEOREM CapsKept == Spec => []CapsRespected
<1>1. Init => CapInv
  <2> SUFFICES ASSUME Init PROVE CapInv
    OBVIOUS
  <2>1. \A b \in Branch : Len(queues[b]) = 0
    BY DEF Init
  <2>2. QueuedPlaces = {}
    BY <2>1 DEF QueuedPlaces, QueueDepth
  <2> QED
    BY <2>1, <2>2, FS_EmptySet, ConstantsAssumption DEF CapInv, CapsRespected, QueueDepth, GlobalDepth
<1>2. TypeOK /\ CapInv /\ [Next]_vars => CapInv'
  <2> SUFFICES ASSUME TypeOK, CapInv, [Next]_vars PROVE CapInv'
    OBVIOUS
  <2>0. \A b \in Branch : queues[b] \in Seq(QueueEntry) /\ Len(queues[b]) \in Nat
    BY DEF TypeOK
  <2>1. ASSUME \A b \in Branch : queues'[b] = queues[b] PROVE CapInv'
    BY <2>0, <2>1, ShorterKeepsCaps
  <2>2. ASSUME NEW b \in Branch, NEW reason, NEW at, clear_queue_for_admin(b, reason, at)
        PROVE  CapInv'
    <3>1. \A a \in Branch : queues'[a] = IF a = b THEN <<>> ELSE queues[a]
      BY <2>2 DEF clear_queue_for_admin, TypeOK
    <3> QED
      BY <2>0, <3>1, ShorterKeepsCaps
  <2>3. ASSUME NEW b \in Branch, NEW kind, NEW c, NEW at,
               queues[b] # <<>>, PopFront(b, kind, c, at)
        PROVE  CapInv'
    <3>1. \A a \in Branch : queues'[a] = IF a = b THEN Tail(queues[b]) ELSE queues[a]
      BY <2>3 DEF PopFront, TypeOK
    <3>2. Len(Tail(queues[b])) = Len(queues[b]) - 1 /\ Len(Tail(queues[b])) \in Nat
      BY <2>0, <2>3
    <3>3. Len(Tail(queues[b])) <= Len(queues[b])
      BY <2>0, <3>2
    <3>4. \A a \in Branch : Len(queues[a]) <= Len(queues[a])
      BY <2>0
    <3>5. \A a \in Branch : Len(queues'[a]) \in Nat /\ Len(queues'[a]) <= Len(queues[a])
      BY <2>0, <3>1, <3>2, <3>3, <3>4
    <3> QED
      BY <2>0, <3>5, ShorterKeepsCaps
  <2>4. ASSUME NEW b \in Branch, NEW k \in Key \union {None}, NEW body \in Body,
               apply_enqueue_command(b, k, body)
        PROVE  CapInv'
    <3>1. ~ QueueFull(b)
      <4>1. EnqueueResponse(b, k, body) = "Enqueued"
        BY <2>4 DEF apply_enqueue_command
      <4>2. b \in branches \ retracted /\ ~Recorded(b, k) /\ InFlight(b, k) = {}
        BY <4>1, EnqueuedWhen
      <4> QED
        BY <4>1, <4>2 DEF EnqueueResponse
    <3> DEFINE e == [queue_id |-> next_queue_id, key |-> k, body |-> body]
    <3>2. \A a \in Branch : queues'[a] = IF a = b THEN Append(queues[b], e) ELSE queues[a]
      BY <2>4 DEF apply_enqueue_command, TypeOK
    <3>3. Len(Append(queues[b], e)) = Len(queues[b]) + 1
      BY <2>0
    <3>4. \A a \in Branch : Len(queues'[a]) = IF a = b THEN Len(queues[b]) + 1 ELSE Len(queues[a])
      BY <3>2, <3>3
    <3> QED
      BY <2>0, <3>1, <3>4, LongerKeepsCaps
  <2>5. ASSUME NEW b \in Branch, NEW s, NEW at,
               \/ retract_ledger(b, at) \/ purge_branch(b, at) \/ drop_branch(b, at)
               \/ reset_head(b, s, at)
        PROVE  CapInv'
    BY <2>2, <2>5 DEF retract_ledger, purge_branch, drop_branch, reset_head
  <2>6. ASSUME NEW b \in Branch, NEW id, NEW c, NEW at, apply_head(b, id, c, at)
        PROVE  CapInv'
    <3>1. CASE HeadResponse(b, id, c) = "HeadApplied" /\ PopFront(b, "Applied", c, at)
      BY <2>3, <3>1, HeadAppliedWhen, FrontOk
    <3>2. CASE ConsumeMarker(b)
      BY <2>1, <3>2 DEF ConsumeMarker
    <3> QED
      BY <2>6, <3>1, <3>2 DEF apply_head
  <2>7. ASSUME NEW b \in Branch, NEW id, NEW at, apply_poison_queue_entry(b, id, at)
        PROVE  CapInv'
    <3>1. CASE FrontCheck(b, id) = "Ok" /\ PopFront(b, "Failed", None, at)
      BY <2>3, <3>1, FrontOk
    <3>2. CASE ConsumeMarker(b)
      BY <2>1, <3>2 DEF ConsumeMarker
    <3> QED
      BY <2>7, <3>1, <3>2 DEF apply_poison_queue_entry
  <2>8. ASSUME NEW b \in Branch, NEW e, NEW c, NEW t,
               \/ create_ledger(b)
               \/ create_branch(b, e, c)
               \/ compare_and_set_commit(b, e, c)
               \/ compare_and_set_index(b, e, c, t)
        PROVE  CapInv'
    BY <2>1, <2>8 DEF create_ledger, create_branch, compare_and_set_commit,
                      compare_and_set_index, queueVars
  <2>9. ASSUME NEW b \in Branch, NEW x, advance_index_head(b, x) \/ rewrite_index_head(b, x)
        PROVE  CapInv'
    BY <2>1, <2>9 DEF advance_index_head, rewrite_index_head, set_index_head, queueVars
  <2>10. ASSUME NEW cutoff, NEW marker_cutoff, apply_evict_idempotency(cutoff, marker_cutoff)
         PROVE  CapInv'
    BY <2>1, <2>10 DEF apply_evict_idempotency
  <2>11. CASE UNCHANGED vars
    BY <2>1, <2>11 DEF vars
  <2> QED
    BY <2>4, <2>5, <2>6, <2>7, <2>8, <2>9, <2>10, <2>11 DEF Next
<1>3. CapInv => CapsRespected
  BY DEF CapInv
<1> QED
  BY <1>1, <1>2, <1>3, TypeCorrect, PTL DEF Spec

=============================================================================
