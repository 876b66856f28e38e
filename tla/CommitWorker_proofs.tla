------------------------ MODULE CommitWorker_proofs ------------------------
(***************************************************************************)
(* Theorems about CommitWorker: the types and the ownership of stashed     *)
(* receipts, for every kind of request and every fault.                    *)
(*                                                                         *)
(* What the history promises does not hold of all the code does, and TLC   *)
(* shows where it fails: CW_SameCommit, CW_NoChange and CW_LeaderOwns are  *)
(* the configurations.  The lemmas of the last part are about the rest:    *)
(* under the condition Regime, which the code does not enforce, the        *)
(* promises hold for any number of nodes, owners, entries, stagings and    *)
(* lost answers.                                                           *)
(***************************************************************************)
EXTENDS CommitWorker, NameServiceState_proofs, Integers

-----------------------------------------------------------------------------
(* The inductive invariant of types and stash slots.                       *)

\* The last change is the present state; every queued id has been issued.
LastInv ==
    /\ log # <<>>
    /\ log[Len(log)].queue = queues[main]
    /\ log[Len(log)].head = HeadOf(refs)
    /\ log[Len(log)].next = next_queue_id
    /\ \A p \in 1 .. Len(log) : \A i \in EntryIds(log[p].queue) : i < next_queue_id

\* The tasks that have a commit are those that hold a guard; a head call has a
\* commit and a poison call none.  A handler that holds a slot is on the leader.
CallShape ==
    /\ \A n \in Node : w[n].pc = "publish" => w[n].c # None
    /\ \A n \in Node : w[n].c # None => HoldsGuard(n)
    /\ \A k \in calls : k.kind = "head" <=> k.c # None
    /\ \A k \in calls : k.stage = "handling" => k.to = leader

\* StashHasOwner, where the handler is that of a head call.
SlotInv ==
    \A n \in Node : \A i \in stash[n] :
        \/ HoldsGuard(n) /\ w[n].id = i
        \/ \E k \in calls : k.stage = "handling" /\ k.to = n /\ k.id = i /\ k.kind = "head"

LayerInv == TypeOK /\ QueueInv /\ WorkerTypeOK /\ LastInv /\ CallShape /\ SlotInv

-----------------------------------------------------------------------------
(* The replicated state under the workers.                                 *)

\* The constants, in the form the proofs use them.
LEMMA WorkerConstants ==
    /\ main \in Branch /\ Owner \subseteq Node /\ Candidate \subseteq Node
    /\ MaxQueueId \in Nat /\ MaxQueueId > 0 /\ MaxFaults \in Nat /\ MaxStamp \in Nat
    /\ MaxStageAttempts \in Nat /\ MaxStageAttempts > 0
    /\ None \notin Commit /\ 0 \in Millis
BY WorkerAssumption, ChainAssumption, ConstantsAssumption, NoneAssumption

\* The head of the branch is a commit or none.
LEMMA HeadOfType ==
    ASSUME TypeOK
    PROVE  HeadOf(refs) \in Commit \union {None}
BY WorkerConstants DEF HeadOf, TypeOK, RefEntry

LEMMA SubmitKeepsState ==
    ASSUME TypeOK, QueueInv, NEW body \in Body, apply_enqueue_command(main, None, body)
    PROVE  TypeOK' /\ QueueInv'
<1>1. [Next]_vars
  BY WorkerConstants DEF Next
<1> QED
  BY <1>1, TypeStep, QueueInvStep

LEMMA ResetKeepsState ==
    ASSUME TypeOK, QueueInv, NEW h \in Commit,
           reset_head(main, [head |-> h, index |-> None], 0)
    PROVE  TypeOK' /\ QueueInv'
<1>1. [head |-> h, index |-> None] \in Snapshot
  BY ChainAssumption
<1>2. [Next]_vars
  BY <1>1, WorkerConstants DEF Next
<1> QED
  BY <1>2, TypeStep, QueueInvStep

LEMMA MarkerKeepsState ==
    ASSUME TypeOK, QueueInv, ConsumeMarker(main)
    PROVE  /\ TypeOK' /\ QueueInv'
           /\ UNCHANGED <<queues, refs, next_queue_id>>
<1>1. recently_cleared' \in [Branch -> ClearMarker \union {None}]
  BY DEF ConsumeMarker, TypeOK
<1>2. \A a \in Branch : recently_cleared'[a] \in {recently_cleared[a], None}
  BY DEF ConsumeMarker, TypeOK
<1>3. TypeOK'
  BY <1>1 DEF ConsumeMarker, TypeOK, registryVars
<1>4. QueueInv'
  BY <1>2, MarkerRemovalKeepsQueueInv DEF ConsumeMarker
<1> QED
  BY <1>3, <1>4 DEF ConsumeMarker, registryVars

\* An entry whose claim passes the front check has an issued id.
LEMMA ClaimIssued ==
    ASSUME TypeOK, QueueInv, NEW id, FrontCheck(main, id) = "Ok"
    PROVE  /\ id \in IssuedIds /\ queues[main] # <<>>
           /\ queues[main] \in Seq(QueueEntry)
           /\ id = Head(queues[main]).queue_id
<1>1. queues[main] # <<>> /\ id = Head(queues[main]).queue_id
  BY DEF FrontCheck
<1>2. queues[main] \in Seq(QueueEntry)
  BY WorkerConstants DEF TypeOK
<1>3. 1 \in 1 .. Len(queues[main]) /\ Head(queues[main]) = queues[main][1]
      /\ queues[main][1] \in QueueEntry
  BY <1>1, <1>2
<1>4. queues[main][1].queue_id < next_queue_id /\ queues[main][1].queue_id \in Nat
  BY <1>3, WorkerConstants DEF QueueInv, QueueIdsOrdered, QueueEntry
<1>5. next_queue_id \in Nat
  BY WorkerConstants DEF TypeOK
<1> QED
  BY <1>1, <1>2, <1>3, <1>4, <1>5 DEF IssuedIds

\* What becomes of the state when a call's proposal is applied.
LEMMA WriteKeepsState ==
    ASSUME TypeOK, QueueInv, NEW k \in Call, k.kind = "head" => k.c \in Commit,
           client_write(k)
    PROVE  /\ TypeOK' /\ QueueInv' /\ next_queue_id' = next_queue_id
           /\ queues' # queues =>
                 /\ queues[main] # <<>> /\ queues[main] \in Seq(QueueEntry)
                 /\ k.id = Head(queues[main]).queue_id
                 /\ queues' = [queues EXCEPT ![main] = Tail(@)]
                 /\ k.kind = "head" => /\ HeadResponse(main, k.id, k.c) = "HeadApplied"
                                       /\ refs' = [refs EXCEPT ![main] = AdvancedRef(main, k.c)]
                 /\ k.kind = "poison" => refs' = refs
           /\ queues' = queues => refs' = refs
           /\ k.kind = "head" /\ HeadResponse(main, k.id, k.c) = "HeadApplied" => queues' # queues
<1>0. main \in Branch /\ 0 \in Millis /\ queues \in [Branch -> Seq(QueueEntry)]
  BY WorkerConstants DEF TypeOK
<1>1. ASSUME FrontCheck(main, k.id) = "Ok", queues' = [queues EXCEPT ![main] = Tail(@)]
      PROVE  queues' # queues
  <2>1. queues[main] # <<>> /\ queues[main] \in Seq(QueueEntry)
    BY <1>1, ClaimIssued
  <2>2. Len(Tail(queues[main])) = Len(queues[main]) - 1 /\ Len(queues[main]) \in Nat
    BY <2>1
  <2>3. queues'[main] = Tail(queues[main])
    BY <1>0, <1>1
  <2>4. Tail(queues[main]) # queues[main]
    <3> DEFINE q == queues[main]
               z == Tail(q)
    <3>1. Len(z) = Len(q) - 1 /\ Len(q) \in Nat
      BY <2>2
    <3> HIDE DEF q, z
    <3>2. z # q
      BY <3>1
    <3> QED
      BY <3>2 DEF q, z
  <2> QED
    BY <2>3, <2>4
<1>2. CASE k.kind = "head" /\ HeadResponse(main, k.id, k.c) = "HeadApplied"
  <2>1. apply_head(main, k.id, k.c, 0)
    BY <1>2 DEF client_write
  <2>2. FrontCheck(main, k.id) = "Ok"
    BY <1>2, HeadAppliedWhen
  <2>3. k.id \in IssuedIds
    BY <2>2, ClaimIssued
  <2>4. [Next]_vars
    BY <1>0, <1>2, <2>1, <2>3 DEF Next
  <2>5. TypeOK' /\ QueueInv'
    BY <2>4, TypeStep, QueueInvStep
  <2>6. /\ queues' = [queues EXCEPT ![main] = Tail(@)] /\ next_queue_id' = next_queue_id
        /\ refs' = [refs EXCEPT ![main] = AdvancedRef(main, k.c)]
    BY <1>2, <2>1 DEF apply_head, PopFront
  <2>7. queues' # queues
    BY <1>1, <2>2, <2>6
  <2> QED
    BY <1>2, <2>2, <2>5, <2>6, <2>7, ClaimIssued
<1>3. CASE k.kind = "poison" /\ FrontCheck(main, k.id) = "Ok"
  <2>1. apply_poison_queue_entry(main, k.id, 0)
    BY <1>3 DEF client_write
  <2>3. k.id \in IssuedIds
    BY <1>3, ClaimIssued
  <2>4. [Next]_vars
    BY <1>0, <2>1, <2>3 DEF Next
  <2>5. TypeOK' /\ QueueInv'
    BY <2>4, TypeStep, QueueInvStep
  <2>6. /\ queues' = [queues EXCEPT ![main] = Tail(@)] /\ next_queue_id' = next_queue_id
        /\ refs' = refs
    BY <1>3, <2>1 DEF apply_poison_queue_entry, PopFront, registryVars
  <2>7. queues' # queues
    BY <1>1, <1>3, <2>6
  <2> QED
    BY <1>3, <2>5, <2>6, <2>7, ClaimIssued
<1>4. CASE /\ k.kind = "head" => HeadResponse(main, k.id, k.c) # "HeadApplied"
           /\ k.kind = "poison" => FrontCheck(main, k.id) # "Ok"
  <2>1. ConsumeMarker(main) \/ UNCHANGED vars
    BY <1>4 DEF client_write, apply_head, apply_poison_queue_entry
  <2>2. ASSUME UNCHANGED vars
        PROVE  /\ TypeOK' /\ QueueInv'
               /\ UNCHANGED <<queues, refs, next_queue_id>>
    <3>1. TypeOK' /\ QueueInv'
      BY <2>2, TypeStep, QueueInvStep
    <3> QED
      BY <2>2, <3>1 DEF vars
  <2> QED
    BY <1>4, <2>1, <2>2, MarkerKeepsState
<1> QED
  BY <1>2, <1>3, <1>4 DEF Call

-----------------------------------------------------------------------------
(* What a step does to a task.                                             *)

OnlyTask(n) == w' \in [Node -> Task] /\ \A m \in Node : m # n => w'[m] = w[m]

\* The task goes on with its entry.
Keeps(n) == w'[n].id = w[n].id /\ w'[n].body = w[n].body /\ w'[n].done = w[n].done

LEMMA NoTaskType == NoTask \in Task
BY WorkerConstants DEF NoTask, Task, Ids

LEMMA SetTask ==
    ASSUME WorkerTypeOK, NEW n \in Node, NEW t \in Task, w' = [w EXCEPT ![n] = t]
    PROVE  OnlyTask(n) /\ w'[n] = t
BY DEF WorkerTypeOK, OnlyTask

\* A step to another place with the same commit.
LEMMA PlaceMoves ==
    ASSUME WorkerTypeOK, NEW n \in Node,
           NEW pc \in {"stage", "wait", "poison"},
           w' = [w EXCEPT ![n] = [@ EXCEPT !.pc = pc]]
    PROVE  OnlyTask(n) /\ Keeps(n) /\ w'[n].pc = pc /\ w'[n].c = w[n].c
<1> DEFINE t == [w[n] EXCEPT !.pc = pc]
<1>1. w[n] \in Task
  BY DEF WorkerTypeOK
<1>2. /\ t \in Task /\ t.pc = pc /\ t.c = w[n].c /\ t.id = w[n].id
      /\ t.body = w[n].body /\ t.done = w[n].done
  BY <1>1 DEF Task
<1>3. w' = [w EXCEPT ![n] = t]
  OBVIOUS
<1> HIDE DEF t
<1>4. OnlyTask(n) /\ w'[n] = t
  BY <1>2, <1>3, SetTask
<1> QED
  BY <1>2, <1>4 DEF Keeps

\* A step to `settle` with an answer.
LEMMA SettleMoves ==
    ASSUME WorkerTypeOK, NEW n \in Node, NEW r \in {"Ok", "Stale", "Lagged", "Raft"},
           w' = [w EXCEPT ![n] = [@ EXCEPT !.pc = "settle", !.result = r]]
    PROVE  /\ OnlyTask(n) /\ Keeps(n) /\ w'[n].pc = "settle" /\ w'[n].c = w[n].c
           /\ w'[n].result = r
<1> DEFINE t == [w[n] EXCEPT !.pc = "settle", !.result = r]
<1>1. w[n] \in Task
  BY DEF WorkerTypeOK
<1>2. /\ t \in Task /\ t.pc = "settle" /\ t.c = w[n].c /\ t.id = w[n].id
      /\ t.body = w[n].body /\ t.done = w[n].done /\ t.result = r
  BY <1>1 DEF Task
<1>3. w' = [w EXCEPT ![n] = t]
  OBVIOUS
<1> HIDE DEF t
<1>4. OnlyTask(n) /\ w'[n] = t
  BY <1>2, <1>3, SetTask
<1> QED
  BY <1>2, <1>4 DEF Keeps

LEMMA StagedMoves ==
    ASSUME WorkerTypeOK, NEW n \in Node, NEW c \in Commit, Staged(n, c)
    PROVE  OnlyTask(n) /\ Keeps(n) /\ w'[n].pc = "publish" /\ w'[n].c = c
<1> DEFINE t == [w[n] EXCEPT !.pc = "publish", !.c = c]
<1>1. w[n] \in Task
  BY DEF WorkerTypeOK
<1>2. /\ t \in Task /\ t.pc = "publish" /\ t.c = c /\ t.id = w[n].id
      /\ t.body = w[n].body /\ t.done = w[n].done
  BY <1>1 DEF Task
<1>3. w' = [w EXCEPT ![n] = t]
  BY DEF Staged
<1> HIDE DEF t
<1>4. OnlyTask(n) /\ w'[n] = t
  BY <1>2, <1>3, SetTask
<1> QED
  BY <1>2, <1>4 DEF Keeps

LEMMA RetryMoves ==
    ASSUME WorkerTypeOK, NEW n \in Node, StageRetry(n)
    PROVE  OnlyTask(n) /\ Keeps(n) /\ w'[n].pc \in {"refresh", "poison"} /\ w'[n].c = w[n].c
<1>1. w[n] \in Task
  BY DEF WorkerTypeOK
<1>2. CASE w[n].attempt < MaxStageAttempts
  <2> DEFINE t == [w[n] EXCEPT !.pc = "refresh", !.attempt = w[n].attempt + 1]
  <2>1. w[n].attempt + 1 \in 0 .. MaxStageAttempts
    <3>1. w[n].attempt \in 0 .. MaxStageAttempts
      BY <1>1 DEF Task
    <3>2. PICK a \in 0 .. MaxStageAttempts : a = w[n].attempt
      BY <3>1
    <3>3. a + 1 \in 0 .. MaxStageAttempts
      BY <1>2, <3>2, WorkerConstants
    <3> QED
      BY <3>2, <3>3
  <2>2. /\ t \in Task /\ t.pc = "refresh" /\ t.c = w[n].c /\ t.id = w[n].id
        /\ t.body = w[n].body /\ t.done = w[n].done
    BY <1>1, <2>1 DEF Task
  <2>3. w' = [w EXCEPT ![n] = t]
    BY <1>2 DEF StageRetry
  <2> HIDE DEF t
  <2>4. OnlyTask(n) /\ w'[n] = t
    BY <2>2, <2>3, SetTask
  <2> QED
    BY <2>2, <2>4 DEF Keeps
<1>3. CASE ~(w[n].attempt < MaxStageAttempts)
  BY <1>3, PlaceMoves DEF StageRetry
<1> QED
  BY <1>2, <1>3

\* A step to a task without a commit.
LEMMA IdleMoves ==
    ASSUME WorkerTypeOK, NEW n \in Node, NEW d \in 0 .. MaxQueueId,
           w' = [w EXCEPT ![n] = [NoTask EXCEPT !.pc = "idle", !.done = d]]
    PROVE  OnlyTask(n) /\ w'[n].pc = "idle" /\ w'[n].c = None /\ w'[n].done = d
<1> DEFINE t == [NoTask EXCEPT !.pc = "idle", !.done = d]
<1>2. t \in Task /\ t.pc = "idle" /\ t.c = None /\ t.done = d
  BY NoTaskType DEF Task, NoTask
<1> HIDE DEF t
<1>4. OnlyTask(n) /\ w'[n] = t
  BY <1>2, SetTask DEF t
<1> QED
  BY <1>2, <1>4

LEMMA DoneMoves ==
    ASSUME WorkerTypeOK, NEW n \in Node, w' = Done(n)
    PROVE  OnlyTask(n) /\ w'[n].pc = "idle" /\ w'[n].c = None /\ w'[n].done = w[n].id + 1
<1>1. w[n].id + 1 \in 0 .. MaxQueueId
  BY WorkerConstants DEF WorkerTypeOK, Task, Ids
<1> QED
  BY <1>1, IdleMoves DEF Done

\* The queue a node has applied, and its front.
LEMMA ViewFacts ==
    ASSUME LayerInv, NEW n \in Node
    PROVE  /\ applied[n] \in 1 .. Len(log) /\ log[applied[n]] \in Change
           /\ ViewQueue(n) \in Seq(QueueEntry) /\ ViewHead(n) \in Commit \union {None}
           /\ ViewQueue(n) # <<>> =>
                 /\ Head(ViewQueue(n)) \in QueueEntry /\ Head(ViewQueue(n)) = ViewQueue(n)[1]
                 /\ 1 \in DOMAIN ViewQueue(n)
                 /\ Head(ViewQueue(n)).queue_id \in Ids
                 /\ Head(ViewQueue(n)).queue_id < next_queue_id
<1>1. log \in Seq(Change) /\ applied[n] \in 1 .. Len(log)
  BY DEF LayerInv, WorkerTypeOK
<1>2. log[applied[n]] \in Change
  BY <1>1
<1>3. ViewQueue(n) \in Seq(QueueEntry) /\ ViewHead(n) \in Commit \union {None}
  BY <1>2 DEF Change, ViewQueue, ViewHead
<1>4. ASSUME ViewQueue(n) # <<>>
      PROVE  /\ Head(ViewQueue(n)) \in QueueEntry /\ Head(ViewQueue(n)) = ViewQueue(n)[1]
             /\ 1 \in DOMAIN ViewQueue(n)
             /\ Head(ViewQueue(n)).queue_id \in Ids
             /\ Head(ViewQueue(n)).queue_id < next_queue_id
  <2>1. /\ Head(ViewQueue(n)) \in QueueEntry /\ Head(ViewQueue(n)) = ViewQueue(n)[1]
        /\ 1 \in DOMAIN ViewQueue(n)
    BY <1>3, <1>4
  <2>2. Head(ViewQueue(n)).queue_id \in EntryIds(log[applied[n]].queue)
    BY <2>1 DEF EntryIds, ViewQueue
  <2>3. Head(ViewQueue(n)).queue_id < next_queue_id
    BY <1>1, <2>2 DEF LayerInv, LastInv
  <2>4. Head(ViewQueue(n)).queue_id \in Nat /\ next_queue_id \in 0 .. MaxQueueId
    BY <2>1 DEF QueueEntry, LayerInv, TypeOK
  <2> QED
    BY <2>1, <2>3, <2>4, WorkerConstants DEF Ids
<1> QED
  BY <1>1, <1>2, <1>3, <1>4

LEMMA SnapshotMoves ==
    ASSUME LayerInv, NEW n \in Node, snapshot_front(n)
    PROVE  /\ OnlyTask(n) /\ w'[n].pc = "stage" /\ w'[n].c = None /\ w'[n].done = w[n].done
           /\ w'[n].id = Head(ViewQueue(n)).queue_id /\ w'[n].body = Head(ViewQueue(n)).body
<1> DEFINE e == Head(ViewQueue(n))
           t == [NoTask EXCEPT !.pc = "stage", !.done = w[n].done,
                    !.id = e.queue_id, !.body = e.body, !.attempt = 1]
<1>1. e.queue_id \in Ids /\ e.body \in Body
  BY ViewFacts DEF snapshot_front, QueueEntry
<1>2. w[n].done \in 0 .. MaxQueueId /\ 1 \in 0 .. MaxStageAttempts
  BY WorkerConstants DEF LayerInv, WorkerTypeOK, Task
<1>3. w' = [w EXCEPT ![n] = t]
  BY DEF snapshot_front
<1> HIDE DEF e
<1>4. /\ t \in Task /\ t.pc = "stage" /\ t.c = None /\ t.done = w[n].done
      /\ t.id = e.queue_id /\ t.body = e.body
  BY <1>1, <1>2, NoTaskType DEF Task, NoTask
<1> HIDE DEF t
<1>5. OnlyTask(n) /\ w'[n] = t
  BY <1>3, <1>4, SetTask DEF LayerInv
<1> QED
  BY <1>4, <1>5 DEF e

LEMMA LaggedMoves ==
    ASSUME WorkerTypeOK, NEW n \in Node, settle_lagged(n)
    PROVE  OnlyTask(n) /\ Keeps(n) /\ w'[n].pc = "refresh" /\ w'[n].c = None
<1> DEFINE t == [w[n] EXCEPT !.pc = "refresh", !.c = None, !.attempt = 1]
<1>1. w[n] \in Task /\ 1 \in 0 .. MaxStageAttempts
  BY WorkerConstants DEF WorkerTypeOK
<1>2. /\ t \in Task /\ t.pc = "refresh" /\ t.c = None /\ t.id = w[n].id
      /\ t.body = w[n].body /\ t.done = w[n].done
  BY <1>1 DEF Task
<1>3. w' = [w EXCEPT ![n] = t]
  BY DEF settle_lagged
<1> HIDE DEF t
<1>4. OnlyTask(n) /\ w'[n] = t
  BY <1>2, <1>3, SetTask
<1> QED
  BY <1>2, <1>4 DEF Keeps

\* The answer to a call.
LEMMA AnswerMoves ==
    ASSUME WorkerTypeOK, NEW k \in Call, NEW r \in {"Ok", "Stale", "Lagged", "Raft"},
           w' = Answer(k, r)
    PROVE  /\ OnlyTask(k.from) /\ Keeps(k.from) /\ w'[k.from].c = w[k.from].c
           /\ k.awaited => w'[k.from].pc = "settle" /\ w'[k.from].result = r
           /\ ~k.awaited => w' = w
<1>0. k.from \in Node
  BY DEF Call
<1>1. CASE k.awaited
  BY <1>0, <1>1, SettleMoves DEF Answer
<1>2. CASE ~k.awaited
  <2>1. w' = w
    BY <1>2 DEF Answer
  <2> QED
    BY <1>2, <2>1 DEF OnlyTask, Keeps, WorkerTypeOK
<1> QED
  BY <1>1, <1>2

-----------------------------------------------------------------------------
(* Every step keeps the layer's invariant.                                 *)

StateStays == UNCHANGED <<vars, log, leader>>

LEMMA StateStaysFacts ==
    ASSUME LayerInv, StateStays
    PROVE  TypeOK' /\ QueueInv' /\ LastInv'
<1>1. UNCHANGED vars /\ log' = log
  BY DEF StateStays
<1>2. TypeOK' /\ QueueInv'
  BY <1>1, TypeStep, QueueInvStep DEF LayerInv
<1> QED
  BY <1>1, <1>2 DEF LayerInv, LastInv, vars

\* Handlers of head calls that hold a slot stay.
SlotsStay ==
    \A k \in calls : k.stage = "handling" /\ k.kind = "head" =>
       \E j \in calls' : j.stage = "handling" /\ j.kind = "head" /\ j.to = k.to /\ j.id = k.id

\* What a set of calls looks like.
ShapeOf(K) ==
    \A k \in K : (k.kind = "head" <=> k.c # None) /\ (k.stage = "handling" => k.to = leader)

\* A step of the task of n.
LEMMA TaskStepKeeps ==
    ASSUME LayerInv, NEW n \in Node, OnlyTask(n), StateStays,
           UNCHANGED <<applied, owned, pushed>>,
           w'[n].pc = "publish" => w'[n].c # None,
           w'[n].c # None => w'[n].pc \in {"publish", "wait", "settle"},
           cache' \in [Node -> Commit \union {None}], blobs' \subseteq Commit,
           faults' \in 0 .. MaxFaults,
           calls' \subseteq Call, ShapeOf(calls'), SlotsStay,
           stash' \in [Node -> SUBSET Ids], \A m \in Node : m # n => stash'[m] \subseteq stash[m],
           \A i \in stash'[n] : \/ HoldsGuard(n)' /\ w'[n].id = i
                                \/ i \in stash[n] /\ ~(HoldsGuard(n) /\ w[n].id = i)
    PROVE  LayerInv'
<1>1. TypeOK' /\ QueueInv' /\ LastInv'
  BY StateStaysFacts
<1>2. WorkerTypeOK'
  BY DEF LayerInv, WorkerTypeOK, StateStays, OnlyTask
<1>3. CallShape'
  <2>1. ASSUME NEW m \in Node
        PROVE  /\ w'[m].pc = "publish" => w'[m].c # None
               /\ w'[m].c # None => w'[m].pc \in {"publish", "wait", "settle"}
    <3>1. CASE m = n
      BY <3>1
    <3>2. CASE m # n
      BY <3>2 DEF LayerInv, CallShape, HoldsGuard, OnlyTask
    <3> QED
      BY <3>1, <3>2
  <2> QED
    BY <2>1 DEF CallShape, HoldsGuard, ShapeOf, StateStays
<1>4. SlotInv'
  <2> SUFFICES ASSUME NEW m \in Node, NEW i \in stash'[m]
               PROVE  \/ HoldsGuard(m)' /\ w'[m].id = i
                      \/ \E k \in calls' : k.stage = "handling" /\ k.to = m /\ k.id = i /\ k.kind = "head"
    BY DEF SlotInv
  <2>1. ASSUME i \in stash[m], ~(HoldsGuard(m) /\ w[m].id = i)
        PROVE  \E k \in calls' : k.stage = "handling" /\ k.to = m /\ k.id = i /\ k.kind = "head"
    <3>1. PICK k \in calls : k.stage = "handling" /\ k.to = m /\ k.id = i /\ k.kind = "head"
      BY <2>1 DEF LayerInv, SlotInv
    <3> QED
      BY <3>1 DEF SlotsStay
  <2>2. CASE m = n
    BY <2>1, <2>2
  <2>3. CASE m # n
    <3>1. i \in stash[m] /\ w'[m] = w[m]
      BY <2>3 DEF OnlyTask
    <3>2. HoldsGuard(m)' <=> HoldsGuard(m)
      BY <3>1 DEF HoldsGuard
    <3> QED
      BY <2>1, <3>1, <3>2
  <2> QED
    BY <2>2, <2>3
<1> QED
  BY <1>1, <1>2, <1>3, <1>4 DEF LayerInv

\* The guard of n is dropped.
LEMMA DropGuardFacts ==
    ASSUME WorkerTypeOK, NEW n \in Node, stash' = DropGuard(n)
    PROVE  /\ stash' \in [Node -> SUBSET Ids] /\ \A m \in Node : m # n => stash'[m] = stash[m]
           /\ stash'[n] = IF HoldsGuard(n) THEN stash[n] \ {w[n].id} ELSE stash[n]
BY DEF WorkerTypeOK, DropGuard

\* The calls are as they were.
LEMMA CallsStayFacts ==
    ASSUME LayerInv, calls' = calls
    PROVE  calls' \subseteq Call /\ ShapeOf(calls') /\ SlotsStay
<1>1. \A k \in calls : (k.kind = "head" <=> k.c # None) /\ (k.stage = "handling" => k.to = leader)
  BY DEF LayerInv, CallShape
<1>2. ShapeOf(calls')
  BY <1>1 DEF ShapeOf
<1>3. SlotsStay
  BY DEF SlotsStay
<1> QED
  BY <1>2, <1>3 DEF LayerInv, WorkerTypeOK

\* One more call, which holds no slot.
LEMMA NewCallFacts ==
    ASSUME LayerInv, NEW k \in Call, k.kind = "head" <=> k.c # None, k.stage # "handling",
           calls' = calls \union {k}
    PROVE  calls' \subseteq Call /\ ShapeOf(calls') /\ SlotsStay
<1>1. \A j \in calls : (j.kind = "head" <=> j.c # None) /\ (j.stage = "handling" => j.to = leader)
  BY DEF LayerInv, CallShape
<1>2. ShapeOf(calls')
  BY <1>1 DEF ShapeOf
<1>3. SlotsStay
  BY DEF SlotsStay
<1> QED
  BY <1>2, <1>3 DEF LayerInv, WorkerTypeOK

\* A change of who awaits a call.
LEMMA UnawaitedFacts ==
    ASSUME NEW k \in Call
    PROVE  LET j == [k EXCEPT !.awaited = FALSE] IN
           /\ j \in Call /\ j.from = k.from /\ j.to = k.to /\ j.kind = k.kind /\ j.id = k.id
           /\ j.c = k.c /\ j.stage = k.stage /\ j.awaited = FALSE
BY DEF Call

LEMMA AbortCalls ==
    ASSUME LayerInv, NEW n \in Node,
           calls' = {IF k.from = n THEN [k EXCEPT !.awaited = FALSE] ELSE k : k \in calls}
    PROVE  calls' \subseteq Call /\ ShapeOf(calls') /\ SlotsStay
<1>1. \A j \in calls : (j.kind = "head" <=> j.c # None) /\ (j.stage = "handling" => j.to = leader)
  BY DEF LayerInv, CallShape
<1>2. calls \subseteq Call
  BY DEF LayerInv, WorkerTypeOK
<1>3. ASSUME NEW j \in calls'
      PROVE  \E k \in calls : /\ j \in Call /\ j.kind = k.kind /\ j.c = k.c /\ j.stage = k.stage
                              /\ j.to = k.to /\ j.id = k.id
  <2>1. PICK k \in calls : j = IF k.from = n THEN [k EXCEPT !.awaited = FALSE] ELSE k
    OBVIOUS
  <2> QED
    BY <1>2, <2>1, UnawaitedFacts
<1>4. ShapeOf(calls')
  BY <1>1, <1>3 DEF ShapeOf
<1>5. ASSUME NEW k \in calls
      PROVE  \E j \in calls' : j.kind = k.kind /\ j.stage = k.stage /\ j.to = k.to /\ j.id = k.id
  <2>1. (IF k.from = n THEN [k EXCEPT !.awaited = FALSE] ELSE k) \in calls'
    OBVIOUS
  <2> QED
    BY <1>2, <2>1, UnawaitedFacts
<1>6. SlotsStay
  <2> SUFFICES ASSUME NEW k \in calls, k.stage = "handling", k.kind = "head"
               PROVE  \E j \in calls' : /\ j.stage = "handling" /\ j.kind = "head"
                                        /\ j.to = k.to /\ j.id = k.id
    BY DEF SlotsStay
  <2> QED
    BY <1>5
<1> QED
  BY <1>3, <1>4, <1>6

\* The commits that stage_and_persist chooses from.
LEMMA FreshCommitsType ==
    ASSUME NEW n \in Node
    PROVE  FreshCommits(n) \subseteq Commit
BY DEF FreshCommits

LEMMA RefreshedType ==
    ASSUME LayerInv, NEW n \in Node
    PROVE  Refreshed(n) \in Commit \union {None}
BY ViewFacts DEF Refreshed, LayerInv, WorkerTypeOK

\* A task without a guard becomes one without a guard, and nothing else moves.
LEMMA PlainStepKeeps ==
    ASSUME LayerInv, NEW n \in Node, OnlyTask(n), StateStays,
           UNCHANGED <<applied, owned, pushed, stash, calls, blobs>>,
           cache' \in [Node -> Commit \union {None}], faults' \in 0 .. MaxFaults,
           w[n].c = None, w'[n].c = None, w'[n].pc # "publish"
    PROVE  LayerInv'
<1>1. ~HoldsGuard(n)
  BY DEF HoldsGuard
<1>2. calls' \subseteq Call /\ ShapeOf(calls') /\ SlotsStay
  BY CallsStayFacts
<1>3. stash' \in [Node -> SUBSET Ids] /\ blobs' \subseteq Commit
  BY DEF LayerInv, WorkerTypeOK
<1> QED
  BY <1>1, <1>2, <1>3, TaskStepKeeps

LEMMA HappensFacts ==
    ASSUME LayerInv, NEW kind, Happens(kind)
    PROVE  faults' \in 0 .. MaxFaults /\ kind \in Fault
BY WorkerConstants DEF Happens, LayerInv, WorkerTypeOK

LEMMA WorkerStepKeeps ==
    ASSUME LayerInv, NEW n \in Node, WorkerStep(n)
    PROVE  LayerInv'
<1>0. /\ WorkerTypeOK /\ w[n] \in Task /\ cache \in [Node -> Commit \union {None}]
      /\ blobs \subseteq Commit /\ faults \in 0 .. MaxFaults /\ stash \in [Node -> SUBSET Ids]
      /\ w[n].pc = "publish" => w[n].c # None
      /\ w[n].c # None => w[n].pc \in {"publish", "wait", "settle"}
      /\ w[n].id \in Ids /\ w[n].done \in 0 .. MaxQueueId /\ w[n].c \in Commit \union {None}
      /\ None \notin Commit /\ leader \in Node
  BY WorkerConstants DEF LayerInv, WorkerTypeOK, CallShape, HoldsGuard, Task
<1>1. CASE spawn_worker(n)
  <2> DEFINE t == [NoTask EXCEPT !.pc = "idle"]
  <2>1. t \in Task /\ t.pc = "idle" /\ t.c = None
    BY NoTaskType DEF Task, NoTask
  <2>2. w' = [w EXCEPT ![n] = t]
    BY <1>1 DEF spawn_worker
  <2> HIDE DEF t
  <2>3. OnlyTask(n) /\ w'[n] = t
    BY <1>0, <2>1, <2>2, SetTask
  <2>4. w[n].c = None
    BY <1>0, <1>1 DEF spawn_worker
  <2> QED
    BY <1>0, <1>1, <2>1, <2>3, <2>4, PlainStepKeeps DEF spawn_worker, StateStays
<1>2. CASE abort_worker(n)
  <2>1. OnlyTask(n) /\ w'[n] = NoTask
    BY <1>0, <1>2, SetTask, NoTaskType DEF abort_worker
  <2>2. calls' \subseteq Call /\ ShapeOf(calls') /\ SlotsStay
    BY <1>2, AbortCalls DEF abort_worker
  <2>3. stash' = DropGuard(n)
    BY <1>2 DEF abort_worker
  <2>4. /\ stash' \in [Node -> SUBSET Ids] /\ \A m \in Node : m # n => stash'[m] = stash[m]
        /\ stash'[n] = IF HoldsGuard(n) THEN stash[n] \ {w[n].id} ELSE stash[n]
    BY <1>0, <2>3, DropGuardFacts
  <2>5. \A i \in stash'[n] : i \in stash[n] /\ ~(HoldsGuard(n) /\ w[n].id = i)
    BY <2>4
  <2>6. w'[n].c = None /\ w'[n].pc = "none"
    BY <2>1 DEF NoTask
  <2>7. StateStays /\ UNCHANGED <<applied, owned, pushed, cache, blobs, faults>>
    BY <1>2 DEF abort_worker, StateStays
  <2> QED
    BY <1>0, <2>1, <2>2, <2>4, <2>5, <2>6, <2>7, TaskStepKeeps
<1>3. CASE snapshot_front(n)
  BY <1>0, <1>3, SnapshotMoves, PlainStepKeeps DEF snapshot_front, StateStays
<1>4. ASSUME NEW c \in Commit, Staged(n, c), w[n].pc = "stage", blobs' \subseteq Commit, StateStays,
             UNCHANGED <<applied, owned, cache, calls, pushed, faults>>
      PROVE  LayerInv'
  <2>1. OnlyTask(n) /\ Keeps(n) /\ w'[n].pc = "publish" /\ w'[n].c = c
    BY <1>0, <1>4, StagedMoves
  <2>2. stash' = [stash EXCEPT ![n] = @ \union {w[n].id}]
    BY <1>4 DEF Staged
  <2>3. /\ stash' \in [Node -> SUBSET Ids] /\ \A m \in Node : m # n => stash'[m] = stash[m]
        /\ stash'[n] = stash[n] \union {w[n].id}
    BY <1>0, <2>2
  <2>4. ~HoldsGuard(n) /\ HoldsGuard(n)'
    BY <1>0, <1>4, <2>1 DEF HoldsGuard
  <2>5. calls' \subseteq Call /\ ShapeOf(calls') /\ SlotsStay
    BY <1>4, CallsStayFacts
  <2>6. w'[n].id = w[n].id
    BY <2>1 DEF Keeps
  <2> QED
    BY <1>0, <1>4, <2>1, <2>3, <2>4, <2>5, <2>6, TaskStepKeeps
<1>5. CASE stage_and_persist(n)
  <2>1. PICK c \in FreshCommits(n) : Staged(n, c) /\ blobs' = blobs \union {c}
    BY <1>5 DEF stage_and_persist
  <2>2. c \in Commit
    BY FreshCommitsType
  <2> QED
    BY <1>0, <1>4, <1>5, <2>1, <2>2 DEF stage_and_persist, StateStays
<1>6. CASE stage_no_change(n)
  <2>1. cache[n] \in Commit
    BY <1>0, <1>6 DEF stage_no_change
  <2> QED
    BY <1>0, <1>4, <1>6, <2>1 DEF stage_no_change, StateStays
<1>7. CASE process_push(n)
  <2>1. pushed[w[n].id] \in Commit
    BY <1>0, <1>7 DEF process_push
  <2> QED
    BY <1>0, <1>4, <1>7, <2>1 DEF process_push, StateStays
<1>8. CASE stage_fails(n)
  <2>1. faults' \in 0 .. MaxFaults
    BY <1>0, <1>8, HappensFacts DEF stage_fails
  <2>2. StageRetry(n) \/ w' = [w EXCEPT ![n] = [@ EXCEPT !.pc = "poison"]]
    BY <1>8 DEF stage_fails
  <2>3. OnlyTask(n) /\ w'[n].c = w[n].c /\ w'[n].pc # "publish"
    BY <1>0, <2>2, RetryMoves, PlaceMoves
  <2>4. w[n].c = None
    BY <1>0, <1>8 DEF stage_fails
  <2> QED
    BY <1>0, <1>8, <2>1, <2>3, <2>4, PlainStepKeeps DEF stage_fails, StateStays
<1>9. CASE refresh(n)
  <2>1. OnlyTask(n) /\ w'[n].c = w[n].c /\ w'[n].pc = "stage" /\ w[n].c = None
    BY <1>0, <1>9, PlaceMoves DEF refresh
  <2>2. cache' \in [Node -> Commit \union {None}]
    BY <1>0, <1>9, RefreshedType DEF refresh
  <2> QED
    BY <1>0, <1>9, <2>1, <2>2, PlainStepKeeps DEF refresh, StateStays
<1>10. CASE publish_commit(n)
  <2>0. w[n].pc = "publish" /\ w[n].c \in Commit /\ HoldsGuard(n)
    BY <1>0, <1>10 DEF publish_commit, HoldsGuard
  <2>1. ASSUME NEW i \in ClaimedIds(n),
               calls' = calls \union
                  {[from |-> n, to |-> leader, kind |-> "head", id |-> i, c |-> w[n].c,
                    stage |-> IF n = leader THEN "proposed" ELSE "sent", awaited |-> TRUE]},
               stash' = IF n = leader THEN stash ELSE [stash EXCEPT ![n] = @ \ {i}],
               w' = [w EXCEPT ![n] = [@ EXCEPT !.pc = "wait"]]
        PROVE  LayerInv'
    <3> DEFINE k == [from |-> n, to |-> leader, kind |-> "head", id |-> i, c |-> w[n].c,
                     stage |-> IF n = leader THEN "proposed" ELSE "sent", awaited |-> TRUE]
    <3>1. i \in Ids
      BY <1>0, <2>1, ViewFacts DEF ClaimedIds, peek_queue_id_for
    <3>2. k \in Call /\ k.kind = "head" /\ k.c = w[n].c /\ k.stage # "handling"
      BY <1>0, <3>1 DEF Call
    <3>3. calls' = calls \union {k}
      BY <2>1
    <3> HIDE DEF k
    <3>4. calls' \subseteq Call /\ ShapeOf(calls') /\ SlotsStay
      BY <1>0, <2>0, <3>2, <3>3, NewCallFacts
    <3>5. OnlyTask(n) /\ Keeps(n) /\ w'[n].pc = "wait" /\ w'[n].c = w[n].c
      BY <1>0, <2>1, PlaceMoves
    <3>6. HoldsGuard(n)' /\ w'[n].id = w[n].id
      BY <2>0, <3>5 DEF HoldsGuard, Keeps
    <3>7. /\ stash' \in [Node -> SUBSET Ids] /\ \A m \in Node : m # n => stash'[m] = stash[m]
          /\ stash'[n] \subseteq stash[n]
      BY <1>0, <2>1
    <3> QED
      BY <1>0, <1>10, <3>4, <3>5, <3>6, <3>7, TaskStepKeeps DEF publish_commit, StateStays
  <2>2. ASSUME w' = [w EXCEPT ![n] = [@ EXCEPT !.pc = "settle", !.result = "Raft"]],
               UNCHANGED <<calls, stash>>
        PROVE  LayerInv'
    <3>1. OnlyTask(n) /\ Keeps(n) /\ w'[n].pc = "settle" /\ w'[n].c = w[n].c
      BY <1>0, <2>2, SettleMoves
    <3>2. HoldsGuard(n)' /\ w'[n].id = w[n].id
      BY <2>0, <3>1 DEF HoldsGuard, Keeps
    <3>3. calls' \subseteq Call /\ ShapeOf(calls') /\ SlotsStay
      BY <2>2, CallsStayFacts
    <3> QED
      BY <1>0, <1>10, <2>2, <3>1, <3>2, <3>3, TaskStepKeeps DEF publish_commit, StateStays
  <2> QED
    BY <1>10, <2>1, <2>2 DEF publish_commit
<1>11. CASE propose_poison(n)
  <2> DEFINE k == [from |-> n, to |-> leader, kind |-> "poison", id |-> w[n].id, c |-> None,
                   stage |-> IF n = leader THEN "proposed" ELSE "sent", awaited |-> TRUE]
  <2>1. k \in Call /\ k.kind = "poison" /\ k.c = None /\ k.stage # "handling"
    BY <1>0 DEF Call
  <2>2. calls' = calls \union {k}
    BY <1>11 DEF propose_poison
  <2> HIDE DEF k
  <2>3. calls' \subseteq Call /\ ShapeOf(calls') /\ SlotsStay
    BY <2>1, <2>2, NewCallFacts
  <2>4. OnlyTask(n) /\ w'[n].pc = "wait" /\ w'[n].c = w[n].c /\ w[n].c = None
    BY <1>0, <1>11, PlaceMoves DEF propose_poison
  <2>5. ~HoldsGuard(n)
    BY <2>4 DEF HoldsGuard
  <2> QED
    BY <1>0, <1>11, <2>3, <2>4, <2>5, TaskStepKeeps DEF propose_poison, StateStays
<1>12. ASSUME OnlyTask(n), w'[n].c = None, w'[n].pc # "publish", stash' = DropGuard(n),
              blobs' \subseteq Commit, cache' \in [Node -> Commit \union {None}], StateStays,
              UNCHANGED <<applied, owned, calls, pushed, faults>>
       PROVE  LayerInv'
  <2>1. calls' \subseteq Call /\ ShapeOf(calls') /\ SlotsStay
    BY <1>12, CallsStayFacts
  <2> QED
    BY <1>0, <1>12, <2>1, DropGuardFacts, TaskStepKeeps
<1>13. CASE settle_landed(n)
  <2>1. cache' \in [Node -> Commit \union {None}]
    BY <1>0, <1>13 DEF settle_landed
  <2> QED
    BY <1>0, <1>12, <1>13, <2>1, DoneMoves DEF settle_landed, StateStays
<1>14. CASE settle_stale(n)
  BY <1>0, <1>12, <1>14, DoneMoves DEF settle_stale, StateStays
<1>15. CASE settle_lagged(n)
  <2>1. OnlyTask(n) /\ w'[n].pc = "refresh" /\ w'[n].c = None
    BY <1>0, <1>15, LaggedMoves
  <2> QED
    BY <1>0, <1>12, <1>15, <2>1 DEF settle_lagged, StateStays
<1>16. CASE settle_unknown(n)
  <2>1. OnlyTask(n) /\ w'[n].pc = "idle" /\ w'[n].c = None
    BY <1>0, <1>16, IdleMoves DEF settle_unknown
  <2> QED
    BY <1>0, <1>12, <1>16, <2>1 DEF settle_unknown, StateStays
<1>17. CASE settle_poison(n)
  <2>1. OnlyTask(n) /\ w'[n].pc = "idle" /\ w'[n].c = None
    BY <1>0, <1>17, IdleMoves, DoneMoves DEF settle_poison
  <2>2. w[n].c = None
    BY <1>17 DEF settle_poison
  <2> QED
    BY <1>0, <1>17, <2>1, <2>2, PlainStepKeeps DEF settle_poison, StateStays
<1> QED
  BY <1>1, <1>2, <1>3, <1>5, <1>6, <1>7, <1>8, <1>9, <1>10, <1>11, <1>13, <1>14, <1>15, <1>16,
     <1>17 DEF WorkerStep

\* What a change holds.
LEMMA LogAt ==
    ASSUME WorkerTypeOK, NEW p \in 1 .. Len(log)
    PROVE  /\ log[p] \in Change /\ log[p].queue \in Seq(QueueEntry)
           /\ log[p].head \in Commit \union {None}
           /\ \A i \in EntryIds(log[p].queue) : i \in Nat
<1>1. log[p] \in Change
  BY DEF WorkerTypeOK
<1>2. log[p].queue \in Seq(QueueEntry) /\ log[p].head \in Commit \union {None}
  BY <1>1 DEF Change
<1>3. PICK q \in Seq(QueueEntry) : q = log[p].queue
  BY <1>2
<1>4. ASSUME NEW i \in EntryIds(q)
      PROVE  i \in Nat
  <2>1. PICK j \in DOMAIN q : i = q[j].queue_id
    BY DEF EntryIds
  <2>2. q[j] \in QueueEntry
    OBVIOUS
  <2> QED
    BY <2>1, <2>2 DEF QueueEntry
<1> QED
  BY <1>1, <1>2, <1>3, <1>4

\* One more change is committed.
LEMMA CommittedFacts ==
    ASSUME LayerInv, TypeOK', QueueInv', next_queue_id <= next_queue_id', leader' = leader,
           NEW taken \in SUBSET Ids, Committed(taken)
    PROVE  /\ log' \in Seq(Change) /\ Len(log') = Len(log) + 1
           /\ \A p \in 1 .. Len(log) : log'[p] = log[p]
           /\ log'[Len(log')] = [queue |-> queues'[main], head |-> HeadOf(refs'),
                                next |-> next_queue_id', taken |-> taken]
           /\ applied' \in [Node -> 1 .. Len(log')] /\ applied'[leader'] = Len(log')
           /\ LastInv'
<1> DEFINE e == [queue |-> queues'[main], head |-> HeadOf(refs'),
                                next |-> next_queue_id', taken |-> taken]
<1>1. HeadOf(refs') \in Commit \union {None}
  BY WorkerConstants DEF HeadOf, TypeOK, RefEntry
<1>2. queues'[main] \in Seq(QueueEntry)
  BY WorkerConstants DEF TypeOK
<1>3. /\ e \in Change /\ e.queue = queues'[main] /\ e.head = HeadOf(refs')
      /\ e.next = next_queue_id'
  <2>1. next_queue_id' \in 0 .. MaxQueueId
    BY DEF TypeOK
  <2> QED
    BY <1>1, <1>2, <2>1 DEF Change
<1>4. log' = Append(log, e) /\ applied' = [applied EXCEPT ![leader] = Len(log')]
  BY DEF Committed
<1>5. log \in Seq(Change) /\ applied \in [Node -> 1 .. Len(log)] /\ leader \in Node
  BY WorkerConstants DEF LayerInv, WorkerTypeOK
<1>6. e = [queue |-> queues'[main], head |-> HeadOf(refs'),
                                next |-> next_queue_id', taken |-> taken]
  OBVIOUS
<1> HIDE DEF e
<1>7. /\ log' \in Seq(Change) /\ Len(log') = Len(log) + 1 /\ Len(log) \in Nat
      /\ log'[Len(log')] = e /\ \A p \in 1 .. Len(log) : log'[p] = log[p]
  BY <1>3, <1>4, <1>5
<1>8. applied' \in [Node -> 1 .. Len(log')] /\ applied'[leader'] = Len(log')
  BY <1>4, <1>5, <1>7
<1>9. \A i \in EntryIds(queues'[main]) : i < next_queue_id'
  BY WorkerConstants, <1>2 DEF EntryIds, QueueInv, QueueIdsOrdered
<1>10. ASSUME NEW p \in 1 .. Len(log'), NEW i \in EntryIds(log'[p].queue)
       PROVE  i < next_queue_id'
  <2>1. CASE p = Len(log')
    BY <1>3, <1>7, <1>9, <2>1
  <2>2. CASE p # Len(log')
    <3>1. p \in 1 .. Len(log) /\ log'[p] = log[p]
      BY <1>7, <2>2
    <3>2. i < next_queue_id
      BY <3>1 DEF LayerInv, LastInv
    <3>3. i \in Nat /\ next_queue_id \in Nat /\ next_queue_id' \in Nat
      <4>1. i \in EntryIds(log[p].queue)
        BY <3>1
      <4>2. i \in Nat
        BY <3>1, <4>1, LogAt DEF LayerInv
      <4> QED
        BY <4>2 DEF LayerInv, TypeOK
    <3> QED
      BY <3>2, <3>3
  <2> QED
    BY <2>1, <2>2
<1>11. log' # <<>>
  BY <1>7
<1>12. LastInv'
  BY <1>3, <1>7, <1>10, <1>11 DEF LastInv
<1> QED
  BY <1>6, <1>7, <1>8, <1>12

\* A step that is not of a task or a call.
LEMMA OuterStepKeeps ==
    ASSUME LayerInv, TypeOK', QueueInv', LastInv', WorkerTypeOK', UNCHANGED <<leader, w, calls>>,
           \A m \in Node : stash'[m] \subseteq stash[m]
    PROVE  LayerInv'
<1>1. \A m \in Node : HoldsGuard(m)' <=> HoldsGuard(m)
  BY DEF HoldsGuard
<1>2. CallShape'
  BY <1>1 DEF LayerInv, CallShape
<1>3. SlotInv'
  BY <1>1 DEF LayerInv, SlotInv
<1> QED
  BY <1>2, <1>3 DEF LayerInv

LEMMA SubmitKeeps ==
    ASSUME LayerInv, NEW body \in Body, Submit(body)
    PROVE  LayerInv'
<1>1. TypeOK' /\ QueueInv'
  BY SubmitKeepsState DEF LayerInv, Submit
<1>2. next_queue_id <= next_queue_id'
  BY DEF Submit, apply_enqueue_command, LayerInv, TypeOK
<1>3. Committed({}) /\ leader' = leader
  BY DEF Submit
<1>4. log' \in Seq(Change) /\ applied' \in [Node -> 1 .. Len(log')]
      /\ applied'[leader'] = Len(log') /\ LastInv'
  BY <1>1, <1>2, <1>3, CommittedFacts
<1>5. pushed' \in [Ids -> Commit \union {None}] /\ blobs' \subseteq Commit
  BY DEF Submit, LayerInv, WorkerTypeOK
<1>6. WorkerTypeOK'
  BY <1>4, <1>5 DEF Submit, LayerInv, WorkerTypeOK
<1> QED
  BY <1>1, <1>4, <1>6, OuterStepKeeps DEF Submit

LEMMA RollbackKeeps ==
    ASSUME LayerInv, Rollback
    PROVE  LayerInv'
<1>1. PICK h \in Commit : reset_head(main, [head |-> h, index |-> None], 0)
  <2>1. PICK p \in 1 .. Len(log) : /\ log[p].head # None
                                   /\ reset_head(main, [head |-> log[p].head, index |-> None], 0)
    BY DEF Rollback
  <2>2. log[p].head \in Commit
    BY <2>1, LogAt DEF LayerInv
  <2> QED
    BY <2>1, <2>2
<1>2. TypeOK' /\ QueueInv'
  BY <1>1, ResetKeepsState DEF LayerInv
<1>3. next_queue_id <= next_queue_id'
  BY <1>1 DEF reset_head, clear_queue_for_admin, LayerInv, TypeOK
<1>4. Committed(Ids) /\ leader' = leader
  BY DEF Rollback
<1>5. log' \in Seq(Change) /\ applied' \in [Node -> 1 .. Len(log')]
      /\ applied'[leader'] = Len(log') /\ LastInv'
  BY <1>2, <1>3, <1>4, CommittedFacts
<1>6. faults' \in 0 .. MaxFaults
  BY HappensFacts DEF Rollback
<1>7. stash' \in [Node -> SUBSET Ids] /\ \A m \in Node : stash'[m] \subseteq stash[m]
  BY DEF Rollback, LayerInv, WorkerTypeOK
<1>8. WorkerTypeOK'
  BY <1>5, <1>6, <1>7 DEF Rollback, LayerInv, WorkerTypeOK
<1> QED
  BY <1>2, <1>5, <1>7, <1>8, OuterStepKeeps DEF Rollback

LEMMA NodeStepKeeps ==
    ASSUME LayerInv, NEW n \in Node, OwnershipFlap(n) \/ CatchUp(n) \/ ListenerRefresh(n)
    PROVE  LayerInv'
<1>1. StateStays /\ UNCHANGED <<leader, w, calls>>
  BY DEF OwnershipFlap, CatchUp, ListenerRefresh, StateStays
<1>2. TypeOK' /\ QueueInv' /\ LastInv'
  BY <1>1, StateStaysFacts
<1>3. CASE OwnershipFlap(n)
  <2>1. faults' \in 0 .. MaxFaults
    BY <1>3, HappensFacts DEF OwnershipFlap
  <2>2. WorkerTypeOK'
    BY <1>3, <2>1 DEF OwnershipFlap, LayerInv, WorkerTypeOK
  <2> QED
    BY <1>1, <1>2, <1>3, <2>2, OuterStepKeeps DEF OwnershipFlap
<1>4. CASE CatchUp(n)
  <2>1. stash' \in [Node -> SUBSET Ids] /\ \A m \in Node : stash'[m] \subseteq stash[m]
    BY <1>4 DEF CatchUp, LayerInv, WorkerTypeOK
  <2>2. applied' \in [Node -> 1 .. Len(log)] /\ applied'[leader] = Len(log)
    <3>1. applied \in [Node -> 1 .. Len(log)] /\ applied[leader] = Len(log) /\ Len(log) \in Nat
          /\ leader \in Node
      BY WorkerConstants DEF LayerInv, WorkerTypeOK
    <3>2. n # leader /\ applied[n] + 1 \in 1 .. Len(log)
      BY <1>4, <3>1 DEF CatchUp
    <3> QED
      BY <1>4, <3>1, <3>2 DEF CatchUp
  <2>3. WorkerTypeOK'
    BY <1>4, <2>1, <2>2 DEF CatchUp, LayerInv, WorkerTypeOK
  <2> QED
    BY <1>1, <1>2, <2>1, <2>3, OuterStepKeeps
<1>5. CASE ListenerRefresh(n)
  <2>1. cache' \in [Node -> Commit \union {None}]
    BY <1>5, RefreshedType DEF ListenerRefresh, LayerInv, WorkerTypeOK
  <2>2. WorkerTypeOK'
    BY <1>5, <2>1 DEF ListenerRefresh, LayerInv, WorkerTypeOK
  <2> QED
    BY <1>1, <1>2, <1>5, <2>2, OuterStepKeeps DEF ListenerRefresh
<1> QED
  BY <1>3, <1>4, <1>5

\* A step of a call: its task may hear an answer.  The slot of its handler, if
\* it goes, is freed.
LEMMA CallStepKeeps ==
    ASSUME LayerInv, NEW k \in calls, TypeOK', QueueInv', LastInv', WorkerTypeOK', leader' = leader,
           OnlyTask(k.from), Keeps(k.from), w'[k.from].c = w[k.from].c,
           w'[k.from].pc \in {"settle", w[k.from].pc},
           ShapeOf(calls'), \A j \in calls : j # k => j \in calls',
           \A m \in Node : \A i \in stash'[m] :
              \/ i \in stash[m] /\ ~(k.stage = "handling" /\ k.kind = "head" /\ m = k.to /\ i = k.id)
              \/ \E j \in calls' : j.stage = "handling" /\ j.to = m /\ j.id = i /\ j.kind = "head"
    PROVE  LayerInv'
<1>0. k.from \in Node
  BY DEF LayerInv, WorkerTypeOK, Call
<1>1. ASSUME NEW m \in Node
      PROVE  /\ w'[m].c = w[m].c /\ w'[m].pc \in {"settle", w[m].pc} /\ w'[m].id = w[m].id
             /\ HoldsGuard(m) => HoldsGuard(m)'
             /\ w'[m].pc = "publish" => w'[m].c # None
             /\ w'[m].c # None => HoldsGuard(m)'
  <2>1. w'[m].c = w[m].c /\ w'[m].pc \in {"settle", w[m].pc} /\ w'[m].id = w[m].id
    BY DEF OnlyTask, Keeps
  <2> QED
    BY <2>1 DEF HoldsGuard, LayerInv, CallShape
<1>2. CallShape'
  BY <1>1 DEF CallShape, ShapeOf
<1>3. SlotInv'
  <2> SUFFICES ASSUME NEW m \in Node, NEW i \in stash'[m]
               PROVE  \/ HoldsGuard(m)' /\ w'[m].id = i
                      \/ \E j \in calls' : /\ j.stage = "handling" /\ j.to = m /\ j.id = i
                                           /\ j.kind = "head"
    BY DEF SlotInv
  <2>1. CASE /\ i \in stash[m]
             /\ ~(k.stage = "handling" /\ k.kind = "head" /\ m = k.to /\ i = k.id)
    <3>1. CASE HoldsGuard(m) /\ w[m].id = i
      BY <1>1, <3>1
    <3>2. CASE ~(HoldsGuard(m) /\ w[m].id = i)
      <4>1. PICK j \in calls : j.stage = "handling" /\ j.to = m /\ j.id = i /\ j.kind = "head"
        BY <2>1, <3>2 DEF LayerInv, SlotInv
      <4>2. j # k
        BY <2>1, <4>1
      <4> QED
        BY <4>1, <4>2
    <3> QED
      BY <3>1, <3>2
  <2> QED
    BY <2>1
<1> QED
  BY <1>2, <1>3 DEF LayerInv

LEMMA ElectionKeeps ==
    ASSUME LayerInv, NEW n \in Node, ChangeLeader(n)
    PROVE  LayerInv'
<1> DEFINE cut == {k \in calls : k.to = leader /\ k.stage \in {"handling", "proposed"}}
           Orphan(k) == [k EXCEPT !.stage = "orphan", !.awaited = FALSE]
<1>0. /\ calls' = (calls \ cut) \union {Orphan(k) : k \in cut}
      /\ w' = [m \in Node |-> IF \E k \in cut : k.from = m /\ k.awaited
                              THEN [w[m] EXCEPT !.pc = "settle", !.result = "Raft"] ELSE w[m]]
      /\ stash' = [stash EXCEPT ![leader] =
                      @ \ {k.id : k \in {j \in cut : j.stage = "handling" /\ j.kind = "head"}}]
      /\ leader' = n /\ n \in Candidate /\ applied[n] = Len(log)
      /\ UNCHANGED <<vars, log, applied, owned, cache, blobs, pushed>>
  BY DEF ChangeLeader
<1>1. TypeOK' /\ QueueInv' /\ LastInv'
  <2>1. UNCHANGED vars /\ log' = log
    BY <1>0
  <2>2. TypeOK' /\ QueueInv'
    BY <2>1, TypeStep, QueueInvStep DEF LayerInv
  <2> QED
    BY <2>1, <2>2 DEF LayerInv, LastInv, vars
<1>2. ASSUME NEW m \in Node
      PROVE  /\ w'[m] \in Task /\ w'[m].c = w[m].c /\ w'[m].id = w[m].id
             /\ w'[m].pc \in {"settle", w[m].pc}
  <2>1. w[m] \in Task
    BY DEF LayerInv, WorkerTypeOK
  <2>2. w'[m] \in {[w[m] EXCEPT !.pc = "settle", !.result = "Raft"], w[m]}
    BY <1>0
  <2> QED
    BY <2>1, <2>2 DEF Task
<1>3. w' \in [Node -> Task]
  <2>1. \A m \in Node : w'[m] \in Task
    BY <1>2
  <2>2. w' = [m \in Node |-> w'[m]]
    BY <1>0
  <2> QED
    BY <2>1, <2>2
<1>4. ASSUME NEW j \in calls'
      PROVE  j \in Call /\ (j.kind = "head" <=> j.c # None) /\ j.stage # "handling"
  <2>1. calls \subseteq Call /\ \A k \in calls : (k.kind = "head" <=> k.c # None)
                             /\ (k.stage = "handling" => k.to = leader)
    BY DEF LayerInv, WorkerTypeOK, CallShape
  <2>2. CASE j \in calls \ cut
    BY <2>1, <2>2
  <2>3. CASE j \in {Orphan(k) : k \in cut}
    <3>1. PICK k \in cut : j = Orphan(k)
      BY <2>3
    <3>2. k \in calls /\ k \in Call
      BY <2>1, <3>1
    <3>3. j \in Call /\ j.kind = k.kind /\ j.c = k.c /\ j.stage = "orphan"
      BY <3>1, <3>2 DEF Call
    <3> QED
      BY <2>1, <3>2, <3>3
  <2> QED
    BY <1>0, <2>2, <2>3
<1>5. stash' \in [Node -> SUBSET Ids] /\ \A m \in Node : stash'[m] \subseteq stash[m]
  BY <1>0 DEF LayerInv, WorkerTypeOK
<1>6. WorkerTypeOK'
  <2>1. faults' \in 0 .. MaxFaults
    BY HappensFacts DEF ChangeLeader
  <2>2. calls' \subseteq Call
    BY <1>4
  <2>3. applied'[leader'] = Len(log') /\ leader' \in Candidate
    BY <1>0
  <2> QED
    BY <1>0, <1>3, <1>5, <2>1, <2>2, <2>3 DEF LayerInv, WorkerTypeOK
<1>7. ASSUME NEW m \in Node
      PROVE  /\ HoldsGuard(m) => HoldsGuard(m)'
             /\ w'[m].pc = "publish" => w'[m].c # None
             /\ w'[m].c # None => HoldsGuard(m)'
  BY <1>2 DEF HoldsGuard, LayerInv, CallShape
<1>8. CallShape'
  BY <1>4, <1>7 DEF CallShape
<1>9. SlotInv'
  <2> SUFFICES ASSUME NEW m \in Node, NEW i \in stash'[m]
               PROVE  HoldsGuard(m)' /\ w'[m].id = i
    BY DEF SlotInv
  <2>1. i \in stash[m]
    BY <1>5
  <2>2. ASSUME ~(HoldsGuard(m) /\ w[m].id = i)
        PROVE  FALSE
    <3>1. PICK k \in calls : k.stage = "handling" /\ k.to = m /\ k.id = i /\ k.kind = "head"
      BY <2>1, <2>2 DEF LayerInv, SlotInv
    <3>2. m = leader
      BY <3>1 DEF LayerInv, CallShape
    <3>3. k \in {j \in cut : j.stage = "handling" /\ j.kind = "head"}
      BY <3>1, <3>2
    <3>4. i \notin stash'[leader]
      <4> DEFINE D == {j \in cut : j.stage = "handling" /\ j.kind = "head"}
      <4>1. stash' = [stash EXCEPT ![leader] = @ \ {j.id : j \in D}]
        BY <1>0
      <4>2. stash'[leader] = stash[leader] \ {j.id : j \in D}
        BY <3>2, <4>1 DEF LayerInv, WorkerTypeOK
      <4>3. i \in {j.id : j \in D}
        BY <3>1, <3>3
      <4> QED
        BY <4>2, <4>3
    <3> QED
      BY <3>2, <3>4
  <2> QED
    BY <1>2, <1>7, <2>2
<1> QED
  BY <1>1, <1>6, <1>8, <1>9 DEF LayerInv

\* A call other than k keeps its shape.
LEMMA OtherCalls ==
    ASSUME LayerInv, NEW k \in calls, NEW K, K \subseteq Call,
           calls' = (calls \ {k}) \union K, ShapeOf(K)
    PROVE  calls' \subseteq Call /\ ShapeOf(calls') /\ \A j \in calls : j # k => j \in calls'
<1>1. \A j \in calls : (j.kind = "head" <=> j.c # None) /\ (j.stage = "handling" => j.to = leader)
  BY DEF LayerInv, CallShape
<1>2. ShapeOf(calls')
  BY <1>1 DEF ShapeOf
<1> QED
  BY <1>2 DEF LayerInv, WorkerTypeOK

LEMMA HandlerKeeps ==
    ASSUME LayerInv, NEW k \in calls, apply_staged_commit(k)
    PROVE  LayerInv'
<1>0. /\ k \in Call /\ k.id \in Ids /\ leader \in Node /\ WorkerTypeOK
      /\ k.kind = "head" <=> k.c # None
      /\ stash \in [Node -> SUBSET Ids]
      /\ k.stage = "sent" /\ leader' = leader
  BY WorkerConstants DEF LayerInv, WorkerTypeOK, CallShape, Call, apply_staged_commit
<1>1. StateStays /\ UNCHANGED <<applied, owned, cache, blobs, pushed, faults>>
  BY DEF apply_staged_commit, StateStays
<1>2. TypeOK' /\ QueueInv' /\ LastInv'
  BY <1>1, StateStaysFacts
<1>3. ASSUME OnlyTask(k.from), calls' \subseteq Call, stash' \in [Node -> SUBSET Ids]
      PROVE  WorkerTypeOK'
  BY <1>1, <1>3 DEF LayerInv, WorkerTypeOK, StateStays, OnlyTask
<1>4. ASSUME NEW r \in {"Raft", "Lagged"}, w' = Answer(k, r), calls' = calls \ {k}, stash' = stash
      PROVE  LayerInv'
  <2>1. /\ OnlyTask(k.from) /\ Keeps(k.from) /\ w'[k.from].c = w[k.from].c
        /\ w'[k.from].pc \in {"settle", w[k.from].pc}
    BY <1>0, <1>4, AnswerMoves
  <2>2. calls' \subseteq Call /\ ShapeOf(calls') /\ \A j \in calls : j # k => j \in calls'
    <3>1. ShapeOf({})
      BY DEF ShapeOf
    <3> QED
      BY <1>4, <3>1, OtherCalls
  <2>3. WorkerTypeOK'
    BY <1>0, <1>3, <1>4, <2>1, <2>2
  <2> QED
    BY <1>0, <1>2, <1>4, <2>1, <2>2, <2>3, CallStepKeeps
<1>5. ASSUME k.to = leader, w' = w,
             calls' = (calls \ {k}) \union {[k EXCEPT !.stage = "handling"]},
             stash' = IF k.kind = "head"
                      THEN [stash EXCEPT ![leader] = @ \union {k.id}] ELSE stash
      PROVE  LayerInv'
  <2> DEFINE h == [k EXCEPT !.stage = "handling"]
  <2>1. /\ h \in Call /\ h.stage = "handling" /\ h.to = leader /\ h.id = k.id /\ h.kind = k.kind
        /\ h.kind = "head" <=> h.c # None
    BY <1>0, <1>5 DEF Call
  <2>2. calls' = (calls \ {k}) \union {h}
    BY <1>5
  <2> HIDE DEF h
  <2>3. calls' \subseteq Call /\ ShapeOf(calls') /\ \A j \in calls : j # k => j \in calls'
    <3>1. ShapeOf({h})
      BY <2>1 DEF ShapeOf
    <3> QED
      BY <2>1, <2>2, <3>1, OtherCalls
  <2>4. /\ OnlyTask(k.from) /\ Keeps(k.from) /\ w'[k.from].c = w[k.from].c
        /\ w'[k.from].pc \in {"settle", w[k.from].pc}
    BY <1>0, <1>5 DEF OnlyTask, Keeps, WorkerTypeOK
  <2>5. stash' \in [Node -> SUBSET Ids]
    BY <1>0, <1>5
  <2>6. WorkerTypeOK'
    BY <1>3, <2>3, <2>4, <2>5
  <2>7. ASSUME NEW m \in Node, NEW i \in stash'[m]
        PROVE  \/ i \in stash[m]
               \/ \E j \in calls' : j.stage = "handling" /\ j.to = m /\ j.id = i /\ j.kind = "head"
    <3>1. i \in stash[m] \/ (k.kind = "head" /\ m = leader /\ i = k.id)
      BY <1>0, <1>5, <2>7
    <3>2. h \in calls'
      BY <2>2
    <3> QED
      BY <2>1, <3>1, <3>2
  <2> QED
    BY <1>0, <1>2, <2>3, <2>4, <2>6, <2>7, CallStepKeeps
<1> QED
  BY <1>4, <1>5 DEF apply_staged_commit

LEMMA WriteKeeps ==
    ASSUME LayerInv, NEW k \in calls, client_write(k)
    PROVE  LayerInv'
<1>0. /\ k \in Call /\ k.id \in Ids /\ leader \in Node /\ WorkerTypeOK
      /\ k.kind = "head" <=> k.c # None
      /\ k.kind = "head" => k.c \in Commit
      /\ k.stage = "handling" => k.to = leader
      /\ stash \in [Node -> SUBSET Ids] /\ {k.id} \in SUBSET Ids
  BY WorkerConstants DEF LayerInv, WorkerTypeOK, CallShape, Call
<1>1. TypeOK' /\ QueueInv' /\ next_queue_id' = next_queue_id /\ (queues' = queues => refs' = refs)
  BY <1>0, WriteKeepsState DEF LayerInv
<1>2. UNCHANGED <<leader, owned, cache, blobs, pushed, faults>> /\ calls' = calls \ {k}
  BY DEF client_write
<1>3. next_queue_id <= next_queue_id'
  BY <1>1 DEF LayerInv, TypeOK
<1>4. /\ log' \in Seq(Change) /\ applied' \in [Node -> 1 .. Len(log')]
      /\ applied'[leader'] = Len(log') /\ LastInv'
  <2>1. CASE queues' # queues
    <3>1. Committed({k.id})
      BY <2>1 DEF client_write
    <3> QED
      BY <1>0, <1>1, <1>2, <1>3, <3>1, CommittedFacts
  <2>2. CASE queues' = queues
    <3>1. log' = log /\ applied' = applied /\ refs' = refs
      BY <1>1, <2>2 DEF client_write
    <3> QED
      BY <1>1, <1>2, <2>2, <3>1 DEF LayerInv, WorkerTypeOK, LastInv
  <2> QED
    BY <2>1, <2>2
<1>5. \E r \in {"Ok", "Stale", "Lagged", "Raft"} : w' = Answer(k, r)
  <2>1. PublishResult(k) \in {"Ok", "Stale", "Lagged"}
    BY DEF PublishResult
  <2> QED
    BY <2>1 DEF client_write
<1>6. /\ OnlyTask(k.from) /\ Keeps(k.from) /\ w'[k.from].c = w[k.from].c
      /\ w'[k.from].pc \in {"settle", w[k.from].pc}
  BY <1>0, <1>5, AnswerMoves
<1>7. calls' \subseteq Call /\ ShapeOf(calls') /\ \A j \in calls : j # k => j \in calls'
  <2>1. ShapeOf({})
    BY DEF ShapeOf
  <2> QED
    BY <1>2, <2>1, OtherCalls
<1>8. /\ stash' \in [Node -> SUBSET Ids] /\ \A m \in Node : stash'[m] \subseteq stash[m]
      /\ k.stage = "handling" /\ k.kind = "head" => k.id \notin stash'[leader]
  BY <1>0 DEF client_write
<1>9. WorkerTypeOK'
  BY <1>2, <1>4, <1>6, <1>7, <1>8 DEF LayerInv, WorkerTypeOK, OnlyTask
<1> QED
  BY <1>0, <1>1, <1>2, <1>4, <1>6, <1>7, <1>8, <1>9, CallStepKeeps

LEMMA LossKeeps ==
    ASSUME LayerInv, NEW k \in calls, LoseAnswer(k) \/ LoseCall(k)
    PROVE  LayerInv'
<1>0. /\ k \in Call /\ k.id \in Ids /\ leader \in Node /\ WorkerTypeOK
      /\ k.kind = "head" <=> k.c # None
      /\ k.stage = "handling" => k.to = leader
      /\ stash \in [Node -> SUBSET Ids] /\ faults \in 0 .. MaxFaults
  BY WorkerConstants DEF LayerInv, WorkerTypeOK, CallShape, Call
<1>1. StateStays /\ UNCHANGED <<applied, owned, cache, blobs, pushed>> /\ leader' = leader
  BY DEF LoseAnswer, LoseCall, StateStays
<1>2. TypeOK' /\ QueueInv' /\ LastInv'
  BY <1>1, StateStaysFacts
<1>3. ASSUME OnlyTask(k.from), calls' \subseteq Call, stash' \in [Node -> SUBSET Ids],
             faults' \in 0 .. MaxFaults
      PROVE  WorkerTypeOK'
  BY <1>1, <1>3 DEF LayerInv, WorkerTypeOK, StateStays, OnlyTask
<1>4. CASE LoseAnswer(k)
  <2> DEFINE h == [k EXCEPT !.awaited = FALSE]
  <2>1. /\ h \in Call /\ h.stage = k.stage /\ h.to = k.to /\ h.id = k.id /\ h.kind = k.kind
        /\ h.c = k.c
    BY <1>0, UnawaitedFacts
  <2>2. calls' = (calls \ {k}) \union {h} /\ stash' = stash /\ w' = Answer(k, "Raft")
    BY <1>4 DEF LoseAnswer
  <2> HIDE DEF h
  <2>3. calls' \subseteq Call /\ ShapeOf(calls') /\ \A j \in calls : j # k => j \in calls'
    <3>1. ShapeOf({h})
      BY <1>0, <2>1 DEF ShapeOf
    <3> QED
      BY <2>1, <2>2, <3>1, OtherCalls
  <2>4. /\ OnlyTask(k.from) /\ Keeps(k.from) /\ w'[k.from].c = w[k.from].c
        /\ w'[k.from].pc \in {"settle", w[k.from].pc}
    BY <1>0, <2>2, AnswerMoves
  <2>5. faults' \in 0 .. MaxFaults
    BY <1>4, HappensFacts DEF LoseAnswer
  <2>6. WorkerTypeOK'
    BY <1>0, <1>3, <2>2, <2>3, <2>4, <2>5
  <2>7. ASSUME NEW m \in Node, NEW i \in stash'[m]
        PROVE  \/ i \in stash[m] /\ ~(k.stage = "handling" /\ k.kind = "head" /\ m = k.to /\ i = k.id)
               \/ \E j \in calls' : j.stage = "handling" /\ j.to = m /\ j.id = i /\ j.kind = "head"
    <3>1. h \in calls'
      BY <2>2
    <3> QED
      BY <2>1, <2>2, <3>1
  <2> QED
    BY <1>1, <1>2, <2>3, <2>4, <2>6, <2>7, CallStepKeeps
<1>5. CASE LoseCall(k)
  <2>1. calls' = calls \ {k} /\ w' = w /\ faults' = faults
    BY <1>5 DEF LoseCall
  <2>2. calls' \subseteq Call /\ ShapeOf(calls') /\ \A j \in calls : j # k => j \in calls'
    <3>1. ShapeOf({})
      BY DEF ShapeOf
    <3> QED
      BY <2>1, <3>1, OtherCalls
  <2>3. /\ OnlyTask(k.from) /\ Keeps(k.from) /\ w'[k.from].c = w[k.from].c
        /\ w'[k.from].pc \in {"settle", w[k.from].pc}
    BY <1>0, <2>1 DEF OnlyTask, Keeps, WorkerTypeOK
  <2>4. /\ stash' \in [Node -> SUBSET Ids] /\ \A m \in Node : stash'[m] \subseteq stash[m]
        /\ k.stage = "handling" /\ k.kind = "head" => k.id \notin stash'[leader]
    BY <1>0, <1>5 DEF LoseCall
  <2>5. WorkerTypeOK'
    BY <1>0, <1>3, <2>1, <2>2, <2>3, <2>4
  <2> QED
    BY <1>0, <1>1, <1>2, <2>2, <2>3, <2>4, <2>5, CallStepKeeps
<1> QED
  BY <1>4, <1>5

LEMMA LayerStep ==
    ASSUME LayerInv, [WorkerNext]_allVars
    PROVE  LayerInv'
<1>1. CASE UNCHANGED allVars
  <2>1. StateStays /\ UNCHANGED workerVars
    BY <1>1 DEF allVars, workerVars, StateStays
  <2>2. TypeOK' /\ QueueInv' /\ LastInv'
    BY <2>1, StateStaysFacts
  <2>3. WorkerTypeOK'
    BY <2>1 DEF LayerInv, WorkerTypeOK, workerVars
  <2> QED
    BY <2>1, <2>2, <2>3, OuterStepKeeps DEF workerVars
<1> QED
  BY <1>1, SubmitKeeps, RollbackKeeps, NodeStepKeeps, ElectionKeeps, WorkerStepKeeps,
     HandlerKeeps, WriteKeeps, LossKeeps DEF WorkerNext

LEMMA LayerStart ==
    ASSUME WorkerInit
    PROVE  LayerInv
<1>1. TypeOK
  BY WorkerConstants DEF WorkerInit, TypeOK, Ids
<1>2. QueueInv
  BY DEF WorkerInit, QueueInv, MarkerOnlyWhenIdle, QueueIdsOrdered, KeyLiveOnce
<1>3. log \in Seq(Change) /\ Len(log) = 1 /\ log[1] = [queue |-> <<>>, head |-> None, next |-> 0, taken |-> {}]
  BY WorkerConstants DEF WorkerInit, Change
<1>4. WorkerTypeOK
  BY <1>3, NoTaskType, WorkerConstants DEF WorkerInit, WorkerTypeOK
<1>5. LastInv
  BY <1>3, WorkerConstants DEF WorkerInit, LastInv, HeadOf, EntryIds
<1>6. CallShape
  BY DEF WorkerInit, CallShape, NoTask, HoldsGuard
<1>7. SlotInv
  BY DEF WorkerInit, SlotInv
<1> QED
  BY <1>1, <1>2, <1>4, <1>5, <1>6, <1>7 DEF LayerInv

\* The types of the worker layer hold in every reachable state, whatever the
\* requests and the faults.
THEOREM WorkerTypeCorrect == WorkerSpec => []WorkerTypeOK
<1>1. WorkerInit => LayerInv
  BY LayerStart
<1>2. LayerInv /\ [WorkerNext]_allVars => LayerInv'
  BY LayerStep
<1>3. LayerInv => WorkerTypeOK
  BY DEF LayerInv
<1> QED
  BY <1>1, <1>2, <1>3, PTL DEF WorkerSpec

\* No receipt is stranded, whatever the requests and the faults: a stashed slot
\* is that of a task whose guard will free it, or of a handler on the leader
\* (StashGuard; the slots of handlers go with the leadership).
THEOREM ReceiptsOwned == WorkerSpec => []StashHasOwner
<1>1. WorkerInit => LayerInv
  BY LayerStart
<1>2. LayerInv /\ [WorkerNext]_allVars => LayerInv'
  BY LayerStep
<1>3. LayerInv => StashHasOwner
  BY DEF LayerInv, SlotInv, StashHasOwner
<1> QED
  BY <1>1, <1>2, <1>3, PTL DEF WorkerSpec

-----------------------------------------------------------------------------
(***************************************************************************)
(* The history, as far as it can be relied upon: plain transactions and    *)
(* malformed requests, lost answers and elections, and no node that leads  *)
(* among several owners.  This is a condition, not a fact about the code:  *)
(* pushes, syncs and owners that lead are served too, and with them the    *)
(* properties below fail (see the configurations named at the top).        *)
(*                                                                         *)
(* The invariants are stated of the log l, the number a of changes a node  *)
(* has applied, its task t, its handle's head h and its stashed ids st, so *)
(* that what follows from them is a matter of constants.                   *)
(***************************************************************************)

Regime ==
    /\ Fault \subseteq {"lose", "elect"}
    /\ Body \subseteq {"transact", "malformed"}
    /\ \A o \in Owner \intersect Candidate : Owner = {o}

\* The first queue id that is not over once change e is applied.
Lo(e) == e.next - Len(e.queue)

Queued(e, i) == Lo(e) <= i /\ i < e.next

BodyAt(e, i) == e.queue[i - Lo(e) + 1].body

Chain(h) == IF h = None THEN <<>> ELSE h

\* Queue ids are handed out one by one, so a queue is a range of them.
Shape(e) ==
    /\ Len(e.queue) <= e.next
    /\ \A j \in 1 .. Len(e.queue) : e.queue[j].queue_id = Lo(e) + j - 1

\* What holds between a change and a later one.  A transaction that was queued
\* and is over has moved the head.
Before(d, e) ==
    /\ Lo(d) <= Lo(e) /\ d.next <= e.next
    /\ T(d.head) <= T(e.head) /\ (T(d.head) = T(e.head) => d.head = e.head)
    /\ \A i \in Ids : Queued(d, i) /\ Queued(e, i) => BodyAt(d, i) = BodyAt(e, i)
    /\ \A i \in Ids : Queued(d, i) /\ BodyAt(d, i) = "transact" /\ i < Lo(e) =>
                         T(d.head) < T(e.head)

\* The changes along a head are in queue order and over.
InOrder(e) ==
    e.head # None =>
       /\ \A i, j \in 1 .. Len(e.head) : i < j => e.head[i][1] < e.head[j][1]
       /\ \A i \in 1 .. Len(e.head) : e.head[i][1] < Lo(e)

Takes(d, e) == \A i \in e.taken : i = Lo(d) /\ Lo(e) = i + 1

LogOK(l) ==
    /\ l \in Seq(Change) /\ l # <<>> /\ l[1].head = None
    /\ \A p \in 1 .. Len(l) : Shape(l[p]) /\ InOrder(l[p])
    /\ \A p, q \in 1 .. Len(l) : p <= q => Before(l[p], l[q])
    /\ \A p \in 1 .. Len(l) - 1 : Takes(l[p], l[p + 1])
    /\ \A p \in 1 .. Len(l) : l[p].head # None =>
          \A i \in 1 .. Len(l[p].head) :
             \E r \in 1 .. Len(l) : l[r].head \in {SubSeq(l[p].head, 1, i)} \ {None}

Busy(t) == t.pc \notin {"none", "idle"}

\* c is the change of entry i on top of a head the log has had.
Extends(l, c, i) ==
    \E p \in 1 .. Len(l), s \in 0 .. MaxStamp : c = Append(Chain(l[p].head), <<i, s>>)

\* The head a node has applied has caught up with the commit its task holds:
\* the entry is over, and the commit can no longer become the head.
Late(v, t) == Len(t.c) <= T(v.head) /\ t.id < Lo(v)

\* The entry a task has is the first the node sees, or over.
EntryOK(v, t) ==
    /\ t.done <= v.next
    /\ Busy(t) => /\ t.id <= Lo(v) /\ t.id < v.next /\ t.body \in Body
                  /\ t.id = Lo(v) => BodyAt(v, t.id) = t.body
    /\ t.c # None => t.body = "transact"
    /\ t.pc = "poison" \/ (t.pc \in {"wait", "settle"} /\ t.c = None) => t.body = "malformed"

\* The handle is not ahead of the applied head, unless the task waits for the
\* entry it has just finished to leave the queue it sees.
HandleOK(l, a, t, h) ==
    h # None =>
       \E q \in 1 .. Len(l) :
          /\ l[q].head = h
          /\ \/ T(h) <= T(l[a].head)
             \/ t.pc = "idle" /\ \A p \in 1 .. q - 1 : Lo(l[p]) < t.done

\* A task that holds a commit staged it on a head its node has seen, and its
\* receipt is stashed until the entry is over.
GuardOK(l, a, t, st) ==
    /\ t.c # None => Extends(l, t.c, t.id) /\ Len(t.c) <= T(l[a].head) + 1
    /\ t.pc = "publish" => t.id \in st \/ Late(l[a], t)

\* What a task may conclude from an answer.
AnswerOK(l, t) ==
    /\ t.done <= Lo(l[Len(l)])
    /\ t.pc = "settle" /\ t.result = "Ok" /\ t.c # None =>
          \E q \in 1 .. Len(l) : /\ l[q].head = t.c /\ t.id < Lo(l[q])
                                 /\ \A p \in 1 .. q - 1 : Lo(l[p]) <= t.id
    /\ t.pc = "settle" /\ (t.result = "Stale" \/ (t.result = "Ok" /\ t.c = None)) =>
          t.id < Lo(l[Len(l)])

NodeOK(l, a, t, h, st) ==
    EntryOK(l[a], t) /\ HandleOK(l, a, t, h) /\ GuardOK(l, a, t, st) /\ AnswerOK(l, t)

\* A call for a head carries its entry's own change, or one that is too late;
\* a call for a poison names a malformed entry.
CallOK(l, k) ==
    /\ k.kind = "head" =>
          \E e \in Ids : Extends(l, k.c, e) /\ (k.id = e \/ Len(k.c) <= T(l[Len(l)].head))
    /\ k.kind = "poison" =>
          /\ k.id < l[Len(l)].next
          /\ Queued(l[Len(l)], k.id) => BodyAt(l[Len(l)], k.id) = "malformed"

\* The task of an awaited call waits for it.
AwaitOK(v, t, k) ==
    k.awaited => /\ t.pc = "wait" /\ t.c = k.c
                 /\ k.id = t.id \/ (k.kind = "head" /\ Late(v, t))

\* The commits that exist.  Fresh commits are not in the content store, so no two
\* tasks and no two calls have the same one, and a call's is not yet a head.
BlobInv ==
    /\ \A p \in 1 .. Len(log) : log[p].head # None => log[p].head \in blobs
    /\ \A k \in calls : k.c # None => k.c \in blobs
    /\ \A n \in Node : w[n].c # None => w[n].c \in blobs
    /\ \A n, m \in Node : w[n].c # None /\ w[n].c = w[m].c => n = m
    /\ \A j, k \in calls : k.c # None /\ j.c = k.c => j = k
    /\ \A k \in calls : k.c # None => \A p \in 1 .. Len(log) : log[p].head # k.c
    /\ \A n \in Node : \A k \in calls : w[n].c # None /\ k.c = w[n].c =>
          k.from = n /\ (k.awaited \/ (w[n].pc = "settle" /\ w[n].result = "Raft"))
    /\ \A n \in Node : w[n].c # None => \A p \in 1 .. Len(log) : log[p].head = w[n].c =>
          w[n].pc = "settle" /\ w[n].result \in {"Ok", "Raft"}

\* Nothing is cleared, and nobody disowns the branch.
CalmInv ==
    /\ recently_cleared[main] = None /\ retracted = {}
    /\ \A n \in Node : w[n].pc # "none" => n \in owned
    /\ \A k \in calls : k.from \in owned /\ (k.stage \in {"sent", "handling"} => k.to # k.from)

NodesInv == \A n \in Node : NodeOK(log, applied[n], w[n], cache[n], stash[n])

CallsInv ==
    /\ \A k \in calls : CallOK(log, k) /\ AwaitOK(log[applied[k.from]], w[k.from], k)
    /\ \A j, k \in calls : j.awaited /\ k.awaited /\ j.from = k.from => j = k

LogInv == LogOK(log)

-----------------------------------------------------------------------------
(* The log.                                                                *)

\* The t of a head is the length of its chain.
LEMMA TFacts ==
    ASSUME NEW h \in Commit \union {None}
    PROVE  /\ T(h) \in Nat /\ Len(Chain(h)) = T(h) /\ Chain(h) \in Seq(Ids \X Nat)
           /\ h # None => T(h) > 0 /\ Chain(h) = h /\ h \in Commit
           /\ h = None => T(h) = 0 /\ Chain(h) = <<>>
<1>1. CASE h = None
  BY <1>1 DEF T, Chain
<1>2. CASE h # None
  <2>1. h \in Commit /\ T(h) = Len(h) /\ Chain(h) = h
    BY <1>2, ChainAssumption DEF T, Chain
  <2>2. h \in Seq(Ids \X Nat) /\ h # <<>>
    BY <2>1, ChainAssumption DEF Ids
  <2>3. Len(h) \in Nat /\ Len(h) > 0
    BY <2>2
  <2> QED
    BY <1>2, <2>1, <2>2, <2>3
<1> QED
  BY <1>1, <1>2

LEMMA ChangeFacts ==
    ASSUME NEW e \in Change
    PROVE  /\ e.next \in Nat /\ e.next <= MaxQueueId /\ Len(e.queue) \in Nat /\ Lo(e) \in Int
           /\ e.queue \in Seq(QueueEntry) /\ e.head \in Commit \union {None}
           /\ Lo(e) <= e.next /\ e.taken \subseteq Ids
           /\ T(e.head) \in Nat
<1>1. /\ e.next \in 0 .. MaxQueueId /\ e.queue \in Seq(QueueEntry) /\ e.taken \subseteq Ids
      /\ e.head \in Commit \union {None}
  BY DEF Change
<1>2. Len(e.queue) \in Nat /\ e.next \in Nat /\ e.next <= MaxQueueId
  BY <1>1, WorkerConstants
<1>3. Lo(e) \in Int /\ Lo(e) <= e.next
  BY <1>2 DEF Lo
<1> QED
  BY <1>1, <1>2, <1>3, TFacts

LEMMA IdsAreInts ==
    ASSUME NEW i \in Ids
    PROVE  i \in Nat /\ i < MaxQueueId
BY WorkerConstants DEF Ids

LEMMA BeforeSame ==
    ASSUME NEW e \in Change
    PROVE  Before(e, e)
<1>1. Lo(e) \in Int /\ e.next \in Nat /\ T(e.head) \in Nat
  BY ChangeFacts
<1>2. \A i \in Ids : Queued(e, i) => ~(i < Lo(e))
  BY <1>1, IdsAreInts DEF Queued
<1> QED
  BY <1>1, <1>2 DEF Before

LEMMA BeforeTrans ==
    ASSUME NEW d \in Change, NEW m \in Change, NEW e \in Change, Before(d, m), Before(m, e)
    PROVE  Before(d, e)
<1>1. /\ Lo(d) \in Int /\ Lo(m) \in Int /\ Lo(e) \in Int
      /\ d.next \in Nat /\ m.next \in Nat /\ e.next \in Nat
      /\ T(d.head) \in Nat /\ T(m.head) \in Nat /\ T(e.head) \in Nat
  BY ChangeFacts
<1>2. /\ Lo(d) <= Lo(m) /\ Lo(m) <= Lo(e) /\ d.next <= m.next /\ m.next <= e.next
      /\ T(d.head) <= T(m.head) /\ T(m.head) <= T(e.head)
  BY DEF Before
<1>3. /\ Lo(d) <= Lo(e) /\ d.next <= e.next /\ T(d.head) <= T(e.head)
  BY <1>1, <1>2
<1>4. T(d.head) = T(e.head) => d.head = e.head
  <2>1. T(d.head) = T(e.head) => T(d.head) = T(m.head) /\ T(m.head) = T(e.head)
    BY <1>1, <1>2
  <2> QED
    BY <2>1 DEF Before
<1>5. ASSUME NEW i \in Ids, Queued(d, i), ~(i < Lo(m))
      PROVE  Queued(m, i) /\ BodyAt(d, i) = BodyAt(m, i)
  <2>1. Queued(m, i)
    BY <1>1, <1>2, <1>5, IdsAreInts DEF Queued
  <2> QED
    BY <1>5, <2>1 DEF Before
<1>6. ASSUME NEW i \in Ids, Queued(d, i), Queued(e, i)
      PROVE  BodyAt(d, i) = BodyAt(e, i)
  <2>1. ~(i < Lo(m))
    BY <1>1, <1>2, <1>6, IdsAreInts DEF Queued
  <2> QED
    BY <1>5, <1>6, <2>1 DEF Before
<1>7. ASSUME NEW i \in Ids, Queued(d, i), BodyAt(d, i) = "transact", i < Lo(e)
      PROVE  T(d.head) < T(e.head)
  <2>1. CASE i < Lo(m)
    <3>1. T(d.head) < T(m.head)
      BY <1>7, <2>1 DEF Before
    <3> QED
      BY <1>1, <1>2, <3>1
  <2>2. CASE ~(i < Lo(m))
    <3>1. T(m.head) < T(e.head)
      BY <1>5, <1>7, <2>2 DEF Before
    <3> QED
      BY <1>1, <1>2, <3>1
  <2> QED
    BY <2>1, <2>2
<1> QED
  BY <1>3, <1>4, <1>6, <1>7 DEF Before

\* One more change on the log.
LEMMA LogGrows ==
    ASSUME NEW l, LogOK(l), NEW e \in Change, Shape(e), InOrder(e),
           Before(l[Len(l)], e), Takes(l[Len(l)], e),
           e.head # None => \A i \in 1 .. Len(e.head) :
              i = Len(e.head) \/ \E r \in 1 .. Len(l) : l[r].head \in {SubSeq(e.head, 1, i)} \ {None}
    PROVE  LogOK(Append(l, e))
<1> DEFINE L == Append(l, e)
           N == Len(l)
<1>1. /\ l \in Seq(Change) /\ N \in Nat /\ N > 0
  BY DEF LogOK
<1>2. /\ L \in Seq(Change) /\ Len(L) = N + 1 /\ L[N + 1] = e /\ L # <<>>
      /\ \A p \in 1 .. N : L[p] = l[p] /\ l[p] \in Change
  BY <1>1
<1>0. Before(l[N], e) /\ Takes(l[N], e)
  OBVIOUS
<1> HIDE DEF L, N
<1>3. N \in 1 .. N /\ \A p \in 1 .. N + 1 : p \in 1 .. N \/ p = N + 1
  BY <1>1
<1>4. L[1].head = None
  <2>1. 1 \in 1 .. N
    BY <1>1
  <2> QED
    BY <1>2, <2>1 DEF LogOK
<1>5. \A p \in 1 .. N + 1 : Shape(L[p]) /\ InOrder(L[p])
  <2>1. \A p \in 1 .. N : Shape(l[p]) /\ InOrder(l[p])
    BY DEF LogOK, N
  <2> QED
    BY <1>2, <1>3, <2>1
<1>6. ASSUME NEW p \in 1 .. N + 1, NEW q \in 1 .. N + 1, p <= q
      PROVE  Before(L[p], L[q])
  <2>1. \A r, s \in 1 .. N : r <= s => Before(l[r], l[s])
    BY DEF LogOK, N
  <2>2. CASE q \in 1 .. N
    <3>1. p \in 1 .. N
      BY <1>1, <1>6, <2>2
    <3> QED
      BY <1>2, <1>6, <2>1, <2>2, <3>1
  <2>3. CASE p \in 1 .. N /\ q = N + 1
    <3>1. Before(l[p], l[N])
      <4>1. p <= N
        BY <1>1, <2>3
      <4> QED
        BY <1>3, <2>1, <2>3, <4>1
    <3>2. Before(l[p], e)
      BY <1>0, <1>2, <1>3, <2>3, <3>1, BeforeTrans
    <3> QED
      BY <1>2, <2>3, <3>2
  <2>4. CASE p = N + 1
    <3>1. q = N + 1
      BY <1>1, <1>6, <2>4
    <3> QED
      BY <1>2, <2>4, <3>1, BeforeSame
  <2> QED
    BY <1>3, <2>2, <2>3, <2>4
<1>7. ASSUME NEW p \in 1 .. N
      PROVE  Takes(L[p], L[p + 1])
  <2>1. CASE p = N
    BY <1>0, <1>2, <1>3, <2>1
  <2>2. CASE p # N
    <3>1. p \in 1 .. N - 1 /\ p \in 1 .. N /\ p + 1 \in 1 .. N
      BY <1>1, <2>2
    <3>2. Takes(l[p], l[p + 1])
      BY <3>1 DEF LogOK, N
    <3> QED
      BY <1>2, <3>1, <3>2
  <2> QED
    BY <2>1, <2>2
<1>8. ASSUME NEW p \in 1 .. N + 1, L[p].head # None, NEW i \in 1 .. Len(L[p].head)
      PROVE  \E r \in 1 .. N + 1 : L[r].head \in {SubSeq(L[p].head, 1, i)} \ {None}
  <2>1. \A r \in 1 .. N : r \in 1 .. N + 1
    BY <1>1
  <2>2. CASE p \in 1 .. N
    <3>1. PICK r \in 1 .. N : l[r].head \in {SubSeq(l[p].head, 1, i)} \ {None}
      BY <1>2, <1>8, <2>2 DEF LogOK, N
    <3> QED
      BY <1>2, <2>1, <2>2, <3>1
  <2>3. CASE p = N + 1 /\ i # Len(e.head)
    <3>1. PICK r \in 1 .. N : l[r].head \in {SubSeq(e.head, 1, i)} \ {None}
      BY <1>2, <1>8, <2>3 DEF N
    <3> QED
      BY <1>2, <2>1, <2>3, <3>1
  <2>4. CASE p = N + 1 /\ i = Len(e.head)
    <3>1. e.head # None
      BY <1>2, <1>8, <2>4
    <3>2. e.head \in Commit
      BY <3>1, ChangeFacts
    <3>3. e.head \in Seq(Ids \X Nat)
      BY <3>2, ChainAssumption DEF Ids
    <3>4. SubSeq(e.head, 1, Len(e.head)) = e.head
      BY <3>3
    <3>5. N + 1 \in 1 .. N + 1
      BY <1>1
    <3> QED
      BY <1>2, <2>4, <3>1, <3>4, <3>5
  <2> QED
    BY <1>3, <2>2, <2>3, <2>4
<1>9. Len(L) - 1 = N
  BY <1>1, <1>2
<1>10. LogOK(L)
  BY <1>2, <1>4, <1>5, <1>6, <1>7, <1>8, <1>9 DEF LogOK
<1> QED
  BY <1>10 DEF L

\* An entry is enqueued.
LEMMA EnqueueChange ==
    ASSUME NEW d \in Change, Shape(d), InOrder(d), NEW e \in Change, NEW x \in QueueEntry,
           e.queue = Append(d.queue, x), e.head = d.head, e.next = d.next + 1, e.taken = {},
           x.queue_id = d.next
    PROVE  Shape(e) /\ InOrder(e) /\ Before(d, e) /\ Takes(d, e)
<1>1. /\ d.queue \in Seq(QueueEntry) /\ Len(d.queue) \in Nat /\ d.next \in Nat /\ Lo(d) \in Int
      /\ T(d.head) \in Nat /\ Len(d.queue) <= d.next
  BY ChangeFacts DEF Shape
<1>2. /\ Len(e.queue) = Len(d.queue) + 1 /\ e.queue[Len(d.queue) + 1] = x
      /\ \A j \in 1 .. Len(d.queue) : e.queue[j] = d.queue[j]
  BY <1>1
<1>3. Lo(e) = Lo(d)
  BY <1>1, <1>2 DEF Lo
<1>4. Shape(e)
  <2>1. ASSUME NEW j \in 1 .. Len(d.queue) + 1
        PROVE  e.queue[j].queue_id = Lo(d) + j - 1
    <3>1. CASE j \in 1 .. Len(d.queue)
      BY <1>2, <3>1 DEF Shape
    <3>2. CASE j = Len(d.queue) + 1
      BY <1>1, <1>2, <3>2 DEF Lo
    <3> QED
      BY <1>1, <3>1, <3>2
  <2>2. Len(e.queue) <= e.next
    BY <1>1, <1>2
  <2>3. \A j \in 1 .. Len(e.queue) : e.queue[j].queue_id = Lo(e) + j - 1
    BY <1>2, <1>3, <2>1
  <2> QED
    BY <2>2, <2>3 DEF Shape
<1>5. InOrder(e)
  BY <1>3 DEF InOrder
<1>6. ASSUME NEW i \in Ids, Queued(d, i)
      PROVE  BodyAt(d, i) = BodyAt(e, i) /\ ~(i < Lo(e))
  <2>1. i - Lo(d) + 1 \in 1 .. Len(d.queue)
    BY <1>1, <1>6, IdsAreInts DEF Queued, Lo
  <2> QED
    BY <1>1, <1>2, <1>3, <1>6, <2>1, IdsAreInts DEF BodyAt, Queued
<1>7. Before(d, e)
  BY <1>1, <1>3, <1>6 DEF Before
<1> QED
  BY <1>4, <1>5, <1>7 DEF Takes

\* The front entry leaves.
LEMMA PopChange ==
    ASSUME NEW d \in Change, Shape(d), NEW e \in Change, d.queue # <<>>,
           e.queue = Tail(d.queue), e.next = d.next
    PROVE  /\ Shape(e) /\ Lo(e) = Lo(d) + 1 /\ Queued(d, Lo(d)) /\ Lo(d) \in Ids
           /\ Head(d.queue).queue_id = Lo(d) /\ BodyAt(d, Lo(d)) = Head(d.queue).body
           /\ \A i \in Ids : Queued(e, i) => Queued(d, i) /\ BodyAt(d, i) = BodyAt(e, i)
           /\ \A i \in Ids : Queued(d, i) /\ i < Lo(e) => i = Lo(d)
<1>1. /\ d.queue \in Seq(QueueEntry) /\ Len(d.queue) \in Nat /\ d.next \in Nat /\ Lo(d) \in Int
      /\ Len(d.queue) <= d.next /\ Len(d.queue) > 0 /\ d.next <= MaxQueueId
  BY ChangeFacts DEF Shape
<1>2. /\ Len(e.queue) = Len(d.queue) - 1 /\ Head(d.queue) = d.queue[1]
      /\ \A j \in 1 .. Len(d.queue) - 1 : e.queue[j] = d.queue[j + 1]
  BY <1>1
<1>3. Lo(e) = Lo(d) + 1
  BY <1>1, <1>2 DEF Lo
<1>4. Shape(e)
  <2>1. ASSUME NEW j \in 1 .. Len(d.queue) - 1
        PROVE  e.queue[j].queue_id = Lo(d) + 1 + j - 1
    <3>1. j + 1 \in 1 .. Len(d.queue)
      BY <1>1
    <3>2. d.queue[j + 1].queue_id = Lo(d) + (j + 1) - 1
      BY <3>1 DEF Shape
    <3> QED
      BY <1>1, <1>2, <3>2
  <2> QED
    BY <1>1, <1>2, <1>3, <2>1 DEF Shape
<1>5. Queued(d, Lo(d)) /\ Lo(d) \in Ids
  BY <1>1, WorkerConstants DEF Queued, Lo, Ids
<1>6. Head(d.queue).queue_id = Lo(d) /\ BodyAt(d, Lo(d)) = Head(d.queue).body
  <2>1. 1 \in 1 .. Len(d.queue) /\ Lo(d) - Lo(d) + 1 = 1 /\ Lo(d) + 1 - 1 = Lo(d)
    BY <1>1
  <2> QED
    BY <1>2, <2>1 DEF Shape, BodyAt
<1>7. ASSUME NEW i \in Ids, Queued(e, i)
      PROVE  Queued(d, i) /\ BodyAt(d, i) = BodyAt(e, i)
  <2>1. i \in Nat
    BY IdsAreInts
  <2>2. Queued(d, i)
    BY <1>1, <1>3, <1>7, <2>1 DEF Queued
  <2>3. i - Lo(e) + 1 \in 1 .. Len(d.queue) - 1 /\ (i - Lo(e) + 1) + 1 = i - Lo(d) + 1
    <3>1. Lo(d) = d.next - Len(d.queue) /\ i < d.next /\ Lo(d) + 1 <= i
      BY <1>3, <1>7 DEF Queued, Lo
    <3> QED
      BY <1>1, <1>3, <2>1, <3>1
  <2> QED
    BY <1>2, <2>2, <2>3 DEF BodyAt
<1>8. ASSUME NEW i \in Ids, Queued(d, i), i < Lo(e)
      PROVE  i = Lo(d)
  BY <1>1, <1>3, <1>8, IdsAreInts DEF Queued
<1> QED
  BY <1>3, <1>4, <1>5, <1>6, <1>7, <1>8

\* It leaves without a commit.
LEMMA PoisonChange ==
    ASSUME NEW d \in Change, Shape(d), InOrder(d), NEW e \in Change, d.queue # <<>>,
           e.queue = Tail(d.queue), e.next = d.next, e.head = d.head,
           e.taken = {Lo(d)}, BodyAt(d, Lo(d)) # "transact"
    PROVE  Shape(e) /\ InOrder(e) /\ Before(d, e) /\ Takes(d, e)
<1>1. /\ Shape(e) /\ Lo(e) = Lo(d) + 1
      /\ \A i \in Ids : Queued(e, i) => BodyAt(d, i) = BodyAt(e, i)
      /\ \A i \in Ids : Queued(d, i) /\ i < Lo(e) => i = Lo(d)
  BY PopChange
<1>2. Lo(d) \in Int /\ d.next \in Nat /\ T(d.head) \in Nat /\ d.head \in Commit \union {None}
  BY ChangeFacts
<1>3. InOrder(e)
  <2>1. ASSUME d.head # None, NEW i \in 1 .. Len(d.head)
        PROVE  d.head[i][1] < Lo(d) + 1
    <3>1. d.head \in Seq(Ids \X Nat)
      BY <1>2, <2>1, TFacts
    <3>2. d.head[i] \in Ids \X Nat
      BY <3>1, <2>1
    <3>3. d.head[i][1] \in Nat /\ d.head[i][1] < Lo(d)
      BY <2>1, <3>2, IdsAreInts DEF InOrder
    <3> QED
      BY <1>2, <3>3
  <2> QED
    BY <1>1, <2>1 DEF InOrder
<1>4. Before(d, e)
  <2>1. Lo(d) <= Lo(e) /\ d.next <= e.next /\ T(d.head) <= T(e.head)
    BY <1>1, <1>2
  <2>2. ~ \E i \in Ids : Queued(d, i) /\ BodyAt(d, i) = "transact" /\ i < Lo(e)
    BY <1>1
  <2> QED
    BY <1>1, <2>1, <2>2 DEF Before
<1> QED
  BY <1>1, <1>3, <1>4 DEF Takes

\* It leaves with its own change on top of the head.
LEMMA LandChange ==
    ASSUME NEW d \in Change, Shape(d), InOrder(d), NEW e \in Change, d.queue # <<>>,
           e.queue = Tail(d.queue), e.next = d.next, NEW s,
           e.head = Append(Chain(d.head), <<Lo(d), s>>), e.head \in Commit, e.taken = {Lo(d)}
    PROVE  Shape(e) /\ InOrder(e) /\ Before(d, e) /\ Takes(d, e)
<1>1. /\ Shape(e) /\ Lo(e) = Lo(d) + 1
      /\ \A i \in Ids : Queued(e, i) => BodyAt(d, i) = BodyAt(e, i)
  BY PopChange
<1>2. /\ Lo(d) \in Int /\ d.next \in Nat /\ d.head \in Commit \union {None}
      /\ T(d.head) \in Nat /\ T(e.head) \in Nat
  BY ChangeFacts
<1>3. PICK b \in Seq(Ids \X Nat) : b = Chain(d.head) /\ Len(b) = T(d.head)
  BY <1>2, TFacts
<1>4. /\ Len(e.head) = Len(b) + 1 /\ e.head[Len(b) + 1] = <<Lo(d), s>> /\ Len(b) \in Nat
      /\ \A i \in 1 .. Len(b) : e.head[i] = b[i]
  <2>1. e.head = Append(b, <<Lo(d), s>>)
    BY <1>3
  <2> QED
    BY <2>1
<1>5. T(e.head) = T(d.head) + 1
  <2>1. T(e.head) = Len(e.head)
    BY WorkerConstants, ChainAssumption DEF T
  <2> QED
    BY <1>3, <1>4, <2>1
<1>6. ASSUME NEW i \in 1 .. Len(b)
      PROVE  b[i][1] \in Nat /\ b[i][1] < Lo(d) /\ \A j \in 1 .. Len(b) : i < j => b[i][1] < b[j][1]
  <2>1. b[i] \in Ids \X Nat
    OBVIOUS
  <2>2. d.head # None
    <3>1. d.head = None => b = <<>>
      BY <1>3 DEF Chain
    <3> QED
      BY <3>1, <1>6
  <2>3. b = d.head
    BY <1>3, <2>2 DEF Chain
  <2> QED
    BY <2>1, <2>2, <2>3, IdsAreInts DEF InOrder
<1>7. ASSUME NEW i \in 1 .. Len(e.head)
      PROVE  /\ e.head[i][1] \in Int /\ e.head[i][1] < Lo(d) + 1
             /\ \A j \in 1 .. Len(e.head) : i < j => e.head[i][1] < e.head[j][1]
  <2>1. CASE i \in 1 .. Len(b)
    <3>1. e.head[i][1] \in Nat /\ e.head[i][1] < Lo(d) /\ e.head[i] = b[i]
      BY <1>4, <1>6, <2>1
    <3>2. ASSUME NEW j \in 1 .. Len(e.head), i < j
          PROVE  e.head[i][1] < e.head[j][1]
      <4>1. CASE j \in 1 .. Len(b)
        BY <1>4, <1>6, <2>1, <3>2, <4>1
      <4>2. CASE j = Len(b) + 1
        BY <1>4, <3>1, <4>2
      <4> QED
        BY <1>4, <4>1, <4>2
    <3> QED
      BY <1>2, <3>1, <3>2
  <2>2. CASE i = Len(b) + 1
    <3>1. e.head[i][1] = Lo(d) /\ ~ \E j \in 1 .. Len(e.head) : i < j
      BY <1>4, <2>2
    <3> QED
      BY <1>2, <3>1
  <2> QED
    BY <1>4, <2>1, <2>2
<1>8. InOrder(e)
  BY <1>1, <1>7 DEF InOrder
<1>9. Before(d, e)
  <2>1. /\ Lo(d) <= Lo(e) /\ d.next <= e.next /\ T(d.head) < T(e.head)
        /\ T(d.head) <= T(e.head) /\ T(d.head) # T(e.head)
    BY <1>1, <1>2, <1>5
  <2> QED
    BY <1>1, <2>1 DEF Before
<1> QED
  BY <1>1, <1>8, <1>9 DEF Takes

-----------------------------------------------------------------------------
(* Nodes and calls over a log that grows, and over a prefix that grows.     *)

Longer(l, L) == Len(l) <= Len(L) /\ \A p \in 1 .. Len(l) : L[p] = l[p]

LEMMA LogFacts ==
    ASSUME NEW l, LogOK(l)
    PROVE  /\ Len(l) \in Nat /\ Len(l) > 0 /\ Len(l) \in 1 .. Len(l)
           /\ \A p \in 1 .. Len(l) : l[p] \in Change /\ Shape(l[p]) /\ InOrder(l[p])
           /\ \A p, q \in 1 .. Len(l) : p <= q => Before(l[p], l[q])
BY DEF LogOK

LEMMA TaskFacts ==
    ASSUME NEW t \in Task
    PROVE  /\ t.id \in Ids /\ t.id \in Nat /\ t.done \in Nat /\ t.c \in Commit \union {None}
           /\ t.c # None => t.c \in Commit /\ Len(t.c) \in Nat /\ Len(t.c) = T(t.c)
<1>1. t.id \in Ids /\ t.done \in 0 .. MaxQueueId /\ t.c \in Commit \union {None}
  BY DEF Task
<1>2. t.id \in Nat /\ t.done \in Nat
  BY <1>1, IdsAreInts, WorkerConstants
<1>3. ASSUME t.c # None
      PROVE  t.c \in Commit /\ Len(t.c) \in Nat /\ Len(t.c) = T(t.c)
  BY <1>1, <1>3, TFacts
<1> QED
  BY <1>1, <1>2, <1>3

\* The log's last change comes after every other, also in a longer log.
LEMMA LongerFacts ==
    ASSUME NEW l, LogOK(l), NEW L, LogOK(L), Longer(l, L)
    PROVE  /\ Before(l[Len(l)], L[Len(L)])
           /\ \A p \in 1 .. Len(l) : p \in 1 .. Len(L) /\ L[p] = l[p] /\ Before(l[p], L[Len(L)])
<1>1. /\ Len(l) \in Nat /\ Len(L) \in Nat /\ Len(l) <= Len(L)
      /\ Len(l) \in 1 .. Len(l) /\ Len(L) \in 1 .. Len(L)
      /\ \A p \in 1 .. Len(l) : L[p] = l[p]
      /\ \A p, q \in 1 .. Len(L) : p <= q => Before(L[p], L[q])
  BY LogFacts DEF Longer
<1>2. ASSUME NEW p \in 1 .. Len(l)
      PROVE  p \in 1 .. Len(L) /\ L[p] = l[p] /\ Before(l[p], L[Len(L)])
  <2>1. p \in 1 .. Len(L) /\ p <= Len(L)
    BY <1>1
  <2> QED
    BY <1>1, <2>1
<1> QED
  BY <1>1, <1>2

LEMMA ExtendsGrows ==
    ASSUME NEW l, LogOK(l), NEW L, LogOK(L), Longer(l, L), NEW c, NEW i, Extends(l, c, i)
    PROVE  Extends(L, c, i)
<1>1. PICK p \in 1 .. Len(l), s \in 0 .. MaxStamp : c = Append(Chain(l[p].head), <<i, s>>)
  BY DEF Extends
<1>2. p \in 1 .. Len(L) /\ L[p] = l[p]
  BY LongerFacts
<1> QED
  BY <1>1, <1>2 DEF Extends

LEMMA AnswerGrows ==
    ASSUME NEW l, LogOK(l), NEW L, LogOK(L), Longer(l, L), NEW t \in Task, AnswerOK(l, t)
    PROVE  AnswerOK(L, t)
<1>1. /\ Lo(l[Len(l)]) \in Int /\ Lo(L[Len(L)]) \in Int /\ Lo(l[Len(l)]) <= Lo(L[Len(L)])
      /\ t.id \in Nat /\ t.done \in Nat
  BY LogFacts, ChangeFacts, LongerFacts, TaskFacts DEF Before
<1>2. \A i \in Nat : (i < Lo(l[Len(l)]) => i < Lo(L[Len(L)])) /\ (i <= Lo(l[Len(l)]) => i <= Lo(L[Len(L)]))
  BY <1>1
<1>3. ASSUME t.pc = "settle" /\ t.result = "Ok" /\ t.c # None
      PROVE  \E q \in 1 .. Len(L) : /\ L[q].head = t.c /\ t.id < Lo(L[q])
                                    /\ \A p \in 1 .. q - 1 : Lo(L[p]) <= t.id
  <2>1. PICK q \in 1 .. Len(l) : /\ l[q].head = t.c /\ t.id < Lo(l[q])
                                 /\ \A p \in 1 .. q - 1 : Lo(l[p]) <= t.id
    BY <1>3 DEF AnswerOK
  <2>2. q \in 1 .. Len(L) /\ L[q] = l[q]
    BY LongerFacts
  <2>3. ASSUME NEW p \in 1 .. q - 1
        PROVE  Lo(L[p]) <= t.id
    <3>1. p \in 1 .. Len(l)
      BY LogFacts
    <3>2. L[p] = l[p]
      BY <3>1, LongerFacts
    <3> QED
      BY <2>1, <2>3, <3>2
  <2> QED
    BY <2>1, <2>2, <2>3
<1> QED
  BY <1>1, <1>2, <1>3 DEF AnswerOK

LEMMA HandleGrows ==
    ASSUME NEW l, LogOK(l), NEW L, LogOK(L), Longer(l, L), NEW a \in 1 .. Len(l),
           NEW t \in Task, NEW h, HandleOK(l, a, t, h)
    PROVE  HandleOK(L, a, t, h)
<1> SUFFICES ASSUME h # None
             PROVE  \E q \in 1 .. Len(L) :
                       /\ L[q].head = h
                       /\ \/ T(h) <= T(L[a].head)
                          \/ t.pc = "idle" /\ \A p \in 1 .. q - 1 : Lo(L[p]) < t.done
  BY DEF HandleOK
<1>1. PICK q \in 1 .. Len(l) :
              /\ l[q].head = h
              /\ \/ T(h) <= T(l[a].head)
                 \/ t.pc = "idle" /\ \A p \in 1 .. q - 1 : Lo(l[p]) < t.done
  BY DEF HandleOK
<1>2. q \in 1 .. Len(L) /\ L[q] = l[q] /\ L[a] = l[a]
  BY LongerFacts
<1>3. \A p \in 1 .. q - 1 : L[p] = l[p]
  <2>1. \A p \in 1 .. q - 1 : p \in 1 .. Len(l)
    BY LogFacts
  <2> QED
    BY <2>1, LongerFacts
<1>4. \/ T(h) <= T(L[a].head)
      \/ t.pc = "idle" /\ \A p \in 1 .. q - 1 : Lo(L[p]) < t.done
  BY <1>1, <1>2, <1>3
<1> QED
  BY <1>1, <1>2, <1>4

LEMMA NodeGrows ==
    ASSUME NEW l, LogOK(l), NEW L, LogOK(L), Longer(l, L), NEW a \in 1 .. Len(l),
           NEW t \in Task, NEW h, NEW st, NodeOK(l, a, t, h, st)
    PROVE  NodeOK(L, a, t, h, st)
<1>1. L[a] = l[a]
  BY LongerFacts
<1>2. EntryOK(L[a], t) /\ HandleOK(L, a, t, h) /\ AnswerOK(L, t)
  BY <1>1, HandleGrows, AnswerGrows DEF NodeOK
<1>3. t.c # None => Extends(L, t.c, t.id)
  BY ExtendsGrows DEF NodeOK, GuardOK
<1>4. GuardOK(L, a, t, st)
  BY <1>1, <1>3 DEF NodeOK, GuardOK
<1> QED
  BY <1>2, <1>4 DEF NodeOK

LEMMA LateStays ==
    ASSUME NEW v \in Change, NEW u \in Change, Before(v, u), NEW t \in Task, t.c # None, Late(v, t)
    PROVE  Late(u, t)
<1>1. /\ T(v.head) \in Nat /\ T(u.head) \in Nat /\ Lo(v) \in Int /\ Lo(u) \in Int
      /\ T(v.head) <= T(u.head) /\ Lo(v) <= Lo(u) /\ t.id \in Nat /\ Len(t.c) \in Nat
  BY ChangeFacts, TaskFacts DEF Before
<1> QED
  BY <1>1 DEF Late

\* A node applies one more change and its observer takes the receipts of the
\* entry it ends.  A task whose receipt goes is late.
LEMMA NodeAdvances ==
    ASSUME NEW l, LogOK(l), NEW a \in 1 .. Len(l), a + 1 \in 1 .. Len(l),
           NEW t \in Task, NEW h \in Commit \union {None}, NEW st, NodeOK(l, a, t, h, st),
           t.pc = "publish" => t.c # None, NEW su, st \ l[a + 1].taken \subseteq su
    PROVE  NodeOK(l, a + 1, t, h, su)
<1> DEFINE v == l[a]
           u == l[a + 1]
<1>1. v \in Change /\ u \in Change /\ Before(v, u) /\ Takes(v, u)
  <2>1. a <= a + 1 /\ a \in 1 .. Len(l) - 1
    BY LogFacts
  <2> QED
    BY <2>1, LogFacts DEF LogOK
<1>2. EntryOK(v, t) /\ HandleOK(l, a, t, h) /\ GuardOK(l, a, t, st) /\ AnswerOK(l, t)
  BY DEF NodeOK
<1>3. /\ T(v.head) \in Nat /\ T(u.head) \in Nat /\ Lo(v) \in Int /\ Lo(u) \in Int
      /\ v.next \in Nat /\ u.next \in Nat
      /\ T(v.head) <= T(u.head) /\ Lo(v) <= Lo(u) /\ v.next <= u.next
      /\ t.id \in Nat /\ t.done \in Nat /\ t.id \in Ids /\ T(h) \in Nat
  BY <1>1, ChangeFacts, TaskFacts, TFacts DEF Before
<1>4. v = l[a] /\ u = l[a + 1]
  OBVIOUS
<1> HIDE DEF v, u
<1>5. EntryOK(u, t)
  <2>1. t.done <= u.next
    BY <1>2, <1>3 DEF EntryOK
  <2>2. ASSUME Busy(t)
        PROVE  t.id <= Lo(u) /\ t.id < u.next
    BY <1>2, <1>3, <2>2 DEF EntryOK
  <2>3. ASSUME Busy(t), t.id = Lo(u)
        PROVE  BodyAt(u, t.id) = t.body
    <3>1. t.id = Lo(v) /\ t.id < v.next
      BY <1>2, <1>3, <2>3 DEF EntryOK
    <3>2. Queued(v, t.id) /\ Queued(u, t.id)
      BY <1>3, <2>3, <3>1 DEF Queued
    <3>3. BodyAt(v, t.id) = BodyAt(u, t.id)
      BY <1>1, <1>3, <3>2 DEF Before
    <3>4. BodyAt(v, t.id) = t.body
      BY <1>2, <2>3, <3>1 DEF EntryOK
    <3> QED
      BY <3>3, <3>4
  <2> QED
    BY <1>2, <2>1, <2>2, <2>3 DEF EntryOK
<1>6. HandleOK(l, a + 1, t, h)
  <2> SUFFICES ASSUME h # None
               PROVE  \E q \in 1 .. Len(l) :
                         /\ l[q].head = h
                         /\ \/ T(h) <= T(u.head)
                            \/ t.pc = "idle" /\ \A p \in 1 .. q - 1 : Lo(l[p]) < t.done
    BY <1>4 DEF HandleOK
  <2>1. PICK q \in 1 .. Len(l) :
                /\ l[q].head = h
                /\ \/ T(h) <= T(v.head)
                   \/ t.pc = "idle" /\ \A p \in 1 .. q - 1 : Lo(l[p]) < t.done
    BY <1>2, <1>4 DEF HandleOK
  <2>2. T(h) <= T(v.head) => T(h) <= T(u.head)
    BY <1>3
  <2> QED
    BY <2>1, <2>2
<1>7. GuardOK(l, a + 1, t, su)
  <2>1. ASSUME t.c # None
        PROVE  Extends(l, t.c, t.id) /\ Len(t.c) <= T(u.head) + 1
    <3>1. Extends(l, t.c, t.id) /\ Len(t.c) <= T(v.head) + 1 /\ Len(t.c) \in Nat
      BY <1>2, <1>4, <2>1, TaskFacts DEF GuardOK
    <3> QED
      BY <1>3, <3>1
  <2>2. ASSUME t.pc = "publish"
        PROVE  t.id \in su \/ Late(u, t)
    <3>0. t.c # None /\ Len(t.c) \in Nat /\ Len(t.c) <= T(v.head) + 1
      BY <1>2, <1>4, <2>2, TaskFacts DEF GuardOK
    <3>1. CASE Late(v, t)
      BY <1>1, <3>0, <3>1, LateStays
    <3>2. CASE t.id \in st /\ t.id \in u.taken
      <4>1. t.id = Lo(v) /\ Lo(u) = t.id + 1
        BY <1>1, <3>2 DEF Takes
      <4>2. Busy(t) /\ t.body = "transact"
        BY <1>2, <2>2, <3>0 DEF Busy, EntryOK
      <4>3. BodyAt(v, t.id) = "transact" /\ t.id < v.next
        BY <1>2, <4>1, <4>2 DEF EntryOK
      <4>4. Queued(v, t.id) /\ t.id < Lo(u)
        BY <1>3, <4>1, <4>3 DEF Queued
      <4>5. T(v.head) < T(u.head)
        BY <1>1, <1>3, <4>3, <4>4 DEF Before
      <4> QED
        BY <1>3, <3>0, <4>4, <4>5 DEF Late
    <3>3. CASE t.id \in st /\ t.id \notin u.taken
      BY <1>4, <3>3
    <3> QED
      BY <1>2, <1>4, <2>2, <3>1, <3>2, <3>3 DEF GuardOK
  <2> QED
    BY <1>4, <2>1, <2>2 DEF GuardOK
<1> QED
  BY <1>2, <1>4, <1>5, <1>6, <1>7 DEF NodeOK

LEMMA CallGrows ==
    ASSUME NEW l, LogOK(l), NEW L, LogOK(L), Longer(l, L), NEW k \in Call,
           k.kind = "head" => k.c \in Commit, CallOK(l, k)
    PROVE  CallOK(L, k)
<1>1. PICK d \in Change : d = l[Len(l)]
  BY LogFacts
<1>2. PICK e \in Change : e = L[Len(L)]
  BY LogFacts
<1>3. /\ Before(d, e) /\ T(d.head) \in Nat /\ T(e.head) \in Nat /\ Lo(d) \in Int /\ Lo(e) \in Int
      /\ d.next \in Nat /\ e.next \in Nat /\ T(d.head) <= T(e.head) /\ Lo(d) <= Lo(e)
      /\ d.next <= e.next
  BY <1>1, <1>2, LongerFacts, ChangeFacts DEF Before
<1>4. ASSUME k.kind = "head"
      PROVE  \E i \in Ids : Extends(L, k.c, i) /\ (k.id = i \/ Len(k.c) <= T(e.head))
  <2>1. PICK i \in Ids : Extends(l, k.c, i) /\ (k.id = i \/ Len(k.c) <= T(d.head))
    BY <1>1, <1>4 DEF CallOK
  <2>2. Len(k.c) \in Nat
    BY <1>4, TFacts, WorkerConstants
  <2>3. Len(k.c) <= T(d.head) => Len(k.c) <= T(e.head)
    BY <1>3, <2>2
  <2>4. Extends(L, k.c, i)
    BY <2>1, ExtendsGrows
  <2> QED
    BY <2>1, <2>3, <2>4
<1>5. ASSUME k.kind = "poison"
      PROVE  k.id < e.next /\ (Queued(e, k.id) => BodyAt(e, k.id) = "malformed")
  <2>1. k.id < d.next /\ (Queued(d, k.id) => BodyAt(d, k.id) = "malformed")
    BY <1>1, <1>5 DEF CallOK
  <2>2. k.id \in Ids /\ k.id \in Nat
    BY IdsAreInts DEF Call
  <2>3. k.id < e.next
    BY <1>3, <2>1, <2>2
  <2>4. ASSUME Queued(e, k.id)
        PROVE  BodyAt(e, k.id) = "malformed"
    <3>1. Queued(d, k.id)
      BY <1>3, <2>1, <2>2, <2>4 DEF Queued
    <3>2. BodyAt(d, k.id) = BodyAt(e, k.id)
      BY <1>3, <2>2, <2>4, <3>1 DEF Before
    <3> QED
      BY <2>1, <3>1, <3>2
  <2> QED
    BY <2>3, <2>4
<1> QED
  BY <1>2, <1>4, <1>5 DEF CallOK

LEMMA AwaitStays ==
    ASSUME NEW v \in Change, NEW u \in Change, Before(v, u), NEW t \in Task, NEW k \in Call,
           k.kind = "head" => k.c # None, AwaitOK(v, t, k)
    PROVE  AwaitOK(u, t, k)
<1> SUFFICES ASSUME k.awaited
             PROVE  /\ t.pc = "wait" /\ t.c = k.c
                    /\ k.id = t.id \/ (k.kind = "head" /\ Late(u, t))
  BY DEF AwaitOK
<1>1. t.pc = "wait" /\ t.c = k.c /\ (k.id = t.id \/ (k.kind = "head" /\ Late(v, t)))
  BY DEF AwaitOK
<1>2. k.kind = "head" /\ Late(v, t) => Late(u, t)
  BY <1>1, LateStays
<1> QED
  BY <1>1, <1>2

-----------------------------------------------------------------------------
(* What the steps of a task do to its node.                                *)

\* A busy task's handle is one its node has seen.
LEMMA BusyHandle ==
    ASSUME NEW l, NEW a, NEW t, NEW h, HandleOK(l, a, t, h), t.pc # "idle", h # None
    PROVE  \E q \in 1 .. Len(l) : l[q].head = h /\ T(h) <= T(l[a].head)
BY DEF HandleOK

\* The task goes on with its entry, with its commit or without.
LEMMA NodeMoves ==
    ASSUME NEW l, NEW a, NEW t \in Task, NEW h, NEW st, NodeOK(l, a, t, h, st), Busy(t),
           NEW u \in Task, u.id = t.id, u.body = t.body, u.done = t.done, u.c \in {t.c, None},
           u.pc # "publish",
           u.pc = "poison" \/ (u.pc \in {"wait", "settle"} /\ u.c = None) => u.body = "malformed",
           AnswerOK(l, u), NEW su
    PROVE  NodeOK(l, a, u, h, su)
<1>1. EntryOK(l[a], t) /\ HandleOK(l, a, t, h) /\ GuardOK(l, a, t, st)
  BY DEF NodeOK
<1>2. EntryOK(l[a], u)
  BY <1>1 DEF EntryOK
<1>3. HandleOK(l, a, u, h)
  BY <1>1 DEF HandleOK, Busy
<1>4. GuardOK(l, a, u, su)
  BY <1>1 DEF GuardOK
<1> QED
  BY <1>2, <1>3, <1>4 DEF NodeOK

\* An answer that says nothing.
LEMMA NoAnswer ==
    ASSUME NEW l, NEW t, AnswerOK(l, t), NEW u, u.done = t.done,
           u.pc # "settle" \/ u.result \in {"Lagged", "Raft"}
    PROVE  AnswerOK(l, u)
BY DEF AnswerOK

\* The task has no entry any more.
LEMMA NodeEnds ==
    ASSUME NEW l, NEW a, NEW u, NEW h, NEW st, u.pc \in {"idle", "none"}, u.c = None,
           u.done <= l[a].next, u.done <= Lo(l[Len(l)]), HandleOK(l, a, u, h)
    PROVE  NodeOK(l, a, u, h, st)
<1>1. EntryOK(l[a], u)
  BY DEF EntryOK, Busy
<1>2. GuardOK(l, a, u, st)
  BY DEF GuardOK
<1>3. AnswerOK(l, u)
  BY DEF AnswerOK
<1> QED
  BY <1>1, <1>2, <1>3 DEF NodeOK

\* The handle of a task that is not idle serves any task.
LEMMA HandleServes ==
    ASSUME NEW l, NEW a, NEW t, NEW h, HandleOK(l, a, t, h), t.pc # "idle", NEW u
    PROVE  HandleOK(l, a, u, h)
BY DEF HandleOK

\* That of an idle task serves once the node sees its last entry gone.
LEMMA HandleCatchesUp ==
    ASSUME NEW l, LogOK(l), NEW a \in 1 .. Len(l), NEW t \in Task, NEW h, HandleOK(l, a, t, h),
           t.done <= Lo(l[a]), NEW u
    PROVE  HandleOK(l, a, u, h)
<1> SUFFICES ASSUME h # None
             PROVE  \E q \in 1 .. Len(l) : l[q].head = h /\ T(h) <= T(l[a].head)
  BY DEF HandleOK
<1>1. PICK q \in 1 .. Len(l) :
              /\ l[q].head = h
              /\ \/ T(h) <= T(l[a].head)
                 \/ t.pc = "idle" /\ \A p \in 1 .. q - 1 : Lo(l[p]) < t.done
  BY DEF HandleOK
<1>2. CASE T(h) <= T(l[a].head)
  BY <1>1, <1>2
<1>3. CASE \A p \in 1 .. q - 1 : Lo(l[p]) < t.done
  <2>1. Lo(l[a]) \in Int /\ t.done \in Nat
    BY LogFacts, ChangeFacts, TaskFacts
  <2>2. a \notin 1 .. q - 1
    <3>1. ~(Lo(l[a]) < t.done)
      BY <2>1
    <3> QED
      BY <1>3, <3>1
  <2>3. q <= a
    BY <2>2, LogFacts
  <2>4. Before(l[q], l[a])
    BY <2>3, LogFacts
  <2> QED
    BY <1>1, <2>4 DEF Before
<1> QED
  BY <1>1, <1>2, <1>3

\* The listener or a refresh takes the applied head.
LEMMA HandleRefreshes ==
    ASSUME NEW l, LogOK(l), NEW a \in 1 .. Len(l), NEW t, NEW h, HandleOK(l, a, t, h)
    PROVE  HandleOK(l, a, t, IF T(l[a].head) > T(h) THEN l[a].head ELSE h)
<1>1. CASE T(l[a].head) > T(h)
  <2>1. T(l[a].head) <= T(l[a].head)
    BY LogFacts, ChangeFacts
  <2>2. HandleOK(l, a, t, l[a].head)
    BY <2>1 DEF HandleOK
  <2> QED
    BY <1>1, <2>2
<1>2. CASE ~(T(l[a].head) > T(h))
  BY <1>2
<1> QED
  BY <1>1, <1>2

\* The front the node sees is taken up.
LEMMA NodeTakesUp ==
    ASSUME NEW l, LogOK(l), NEW a \in 1 .. Len(l), NEW t \in Task, NEW h, NEW st,
           NodeOK(l, a, t, h, st), l[a].queue # <<>>,
           Head(l[a].queue).queue_id >= t.done,
           NEW u \in Task, u.pc = "stage", u.c = None, u.done = t.done,
           u.id = Head(l[a].queue).queue_id, u.body = Head(l[a].queue).body
    PROVE  NodeOK(l, a, u, h, st)
<1>1. PICK v \in Change : v = l[a] /\ Shape(v)
  BY LogFacts
<1>2. v.queue \in Seq(QueueEntry) /\ v.next \in Nat /\ Lo(v) \in Int /\ Len(v.queue) \in Nat
  BY ChangeFacts
<1>3. Head(v.queue) = v.queue[1] /\ Len(v.queue) > 0 /\ 1 \in 1 .. Len(v.queue)
  BY <1>1, <1>2
<1>4. u.id = Lo(v)
  <2>1. v.queue[1].queue_id = Lo(v) + 1 - 1
    BY <1>1, <1>3 DEF Shape
  <2> QED
    BY <1>1, <1>2, <1>3, <2>1
<1>5. BodyAt(v, u.id) = u.body
  <2>1. u.id - Lo(v) + 1 = 1
    BY <1>2, <1>4
  <2> QED
    BY <1>1, <1>3, <2>1 DEF BodyAt
<1>6. u.id < v.next /\ u.id <= Lo(v)
  BY <1>2, <1>3, <1>4 DEF Lo
<1>7. EntryOK(v, u)
  <2>1. u.done <= v.next
    BY <1>1 DEF NodeOK, EntryOK
  <2>2. v.queue[1] \in QueueEntry
    BY <1>2, <1>3
  <2>3. u.body \in Body
    BY <1>1, <1>3, <2>2 DEF QueueEntry
  <2> QED
    BY <1>5, <1>6, <2>1, <2>3 DEF EntryOK
<1>8. HandleOK(l, a, u, h)
  <2>1. t.done <= Lo(l[a])
    BY <1>1, <1>2, <1>4, TaskFacts
  <2> QED
    BY <2>1, HandleCatchesUp DEF NodeOK
<1>9. GuardOK(l, a, u, st) /\ AnswerOK(l, u)
  BY DEF NodeOK, GuardOK, AnswerOK
<1> QED
  BY <1>1, <1>7, <1>8, <1>9 DEF NodeOK

\* A transaction is staged on the handle.
LEMMA NodeStages ==
    ASSUME NEW l, LogOK(l), NEW a \in 1 .. Len(l), NEW t \in Task, NEW h \in Commit \union {None},
           NEW st, NodeOK(l, a, t, h, st), t.pc = "stage", t.body = "transact",
           NEW s \in 0 .. MaxStamp,
           NEW u \in Task, u.pc = "publish", u.id = t.id, u.body = t.body, u.done = t.done,
           u.c = Append(Chain(h), <<t.id, s>>), NEW su, t.id \in su
    PROVE  NodeOK(l, a, u, h, su)
<1>1. EntryOK(l[a], t) /\ HandleOK(l, a, t, h) /\ AnswerOK(l, t)
  BY DEF NodeOK
<1>2. EntryOK(l[a], u) /\ HandleOK(l, a, u, h) /\ AnswerOK(l, u)
  BY <1>1 DEF EntryOK, HandleOK, AnswerOK, Busy
<1>3. PICK q \in 1 .. Len(l) : l[q].head = h /\ T(h) <= T(l[a].head)
  <2>1. CASE h # None
    BY <1>1, <2>1, BusyHandle
  <2>2. CASE h = None
    <3>1. 1 \in 1 .. Len(l) /\ l[1].head = None
      BY LogFacts DEF LogOK
    <3>2. T(h) = 0 /\ T(l[a].head) \in Nat
      BY <2>2, TFacts, LogFacts, ChangeFacts
    <3> QED
      BY <2>2, <3>1, <3>2
  <2> QED
    BY <2>1, <2>2
<1>4. Extends(l, u.c, u.id)
  BY <1>3 DEF Extends
<1>5. Len(u.c) <= T(l[a].head) + 1
  <2>1. Len(u.c) = Len(Chain(h)) + 1 /\ Len(Chain(h)) = T(h) /\ T(h) \in Nat
    <3>1. Chain(h) \in Seq(Ids \X Nat) /\ Len(Chain(h)) = T(h) /\ T(h) \in Nat
      BY TFacts
    <3> QED
      BY <3>1
  <2>2. T(l[a].head) \in Nat
    BY LogFacts, ChangeFacts
  <2> QED
    BY <1>3, <2>1, <2>2
<1>6. GuardOK(l, a, u, su)
  BY <1>4, <1>5 DEF GuardOK
<1> QED
  BY <1>2, <1>6 DEF NodeOK

\* The commit a task holds has landed: its entry is over.
LEMMA LandedIsOver ==
    ASSUME NEW l, LogOK(l), NEW a \in 1 .. Len(l), NEW q \in 1 .. Len(l),
           NEW t \in Task, NEW h, NEW st, NodeOK(l, a, t, h, st), t.c # None, l[q].head = t.c
    PROVE  t.id < Lo(l[q])
<1>1. PICK p \in 1 .. Len(l), s \in 0 .. MaxStamp : t.c = Append(Chain(l[p].head), <<t.id, s>>)
  BY DEF NodeOK, GuardOK, Extends
<1>2. PICK b \in Seq(Ids \X Nat) : b = Chain(l[p].head)
  BY LogFacts, ChangeFacts, TFacts
<1>3. /\ t.c = Append(b, <<t.id, s>>) /\ Len(t.c) = Len(b) + 1 /\ Len(b) \in Nat
      /\ t.c[Len(b) + 1] = <<t.id, s>>
  BY <1>1, <1>2
<1>4. Len(b) + 1 \in 1 .. Len(t.c)
  BY <1>3
<1>5. InOrder(l[q])
  BY LogFacts
<1>6. t.c[Len(b) + 1][1] < Lo(l[q])
  BY <1>4, <1>5 DEF InOrder
<1> QED
  BY <1>3, <1>6

\* A task that learns that its commit landed installs it and is done.
LEMMA NodeLands ==
    ASSUME NEW l, LogOK(l), NEW a \in 1 .. Len(l), NEW t \in Task, NEW h, NEW st,
           NodeOK(l, a, t, h, st), t.pc = "settle", t.c # None,
           t.result = "Ok" \/ l[a].head = t.c,
           NEW u \in Task, u.pc = "idle", u.c = None, u.done = t.id + 1, NEW su
    PROVE  NodeOK(l, a, u, t.c, su)
<1>1. PICK q \in 1 .. Len(l) :
         /\ l[q].head = t.c /\ t.id < Lo(l[q])
         /\ \/ T(t.c) <= T(l[a].head)
            \/ \A p \in 1 .. q - 1 : Lo(l[p]) <= t.id
  <2>1. CASE t.result = "Ok"
    BY <2>1 DEF NodeOK, AnswerOK
  <2>2. CASE l[a].head = t.c
    <3>1. T(t.c) <= T(t.c)
      BY TaskFacts, TFacts
    <3> QED
      BY <2>2, <3>1, LandedIsOver
  <2> QED
    BY <2>1, <2>2
<1>2. t.id \in Nat /\ \A p \in 1 .. Len(l) : Lo(l[p]) \in Int /\ l[p].next \in Nat
  BY LogFacts, ChangeFacts, TaskFacts
<1>3. u.done <= l[a].next
  <2>1. t.id < l[a].next
    BY DEF NodeOK, EntryOK, Busy
  <2> QED
    BY <1>2, <2>1
<1>4. u.done <= Lo(l[Len(l)])
  <2>1. Len(l) \in 1 .. Len(l) /\ q <= Len(l)
    BY LogFacts
  <2>2. Before(l[q], l[Len(l)])
    BY <2>1, LogFacts
  <2>3. Lo(l[q]) <= Lo(l[Len(l)])
    BY <2>2 DEF Before
  <2> QED
    BY <1>1, <1>2, <2>1, <2>3
<1>5. HandleOK(l, a, u, t.c)
  <2>1. ASSUME \A p \in 1 .. q - 1 : Lo(l[p]) <= t.id
        PROVE  \A p \in 1 .. q - 1 : Lo(l[p]) < u.done
    <3>1. \A p \in 1 .. q - 1 : p \in 1 .. Len(l)
      BY LogFacts
    <3> QED
      BY <1>2, <2>1, <3>1
  <2> QED
    BY <1>1, <2>1 DEF HandleOK
<1> QED
  BY <1>3, <1>4, <1>5, NodeEnds

\* A task that learns that its entry is over is done.
LEMMA NodeGivesUp ==
    ASSUME NEW l, LogOK(l), NEW a \in 1 .. Len(l), NEW t \in Task, NEW h, NEW st,
           NodeOK(l, a, t, h, st), t.pc = "settle",
           t.result = "Stale" \/ (t.result = "Ok" /\ t.c = None),
           NEW u \in Task, u.pc = "idle", u.c = None, u.done = t.id + 1, NEW su
    PROVE  NodeOK(l, a, u, h, su)
<1>1. t.id < Lo(l[Len(l)]) /\ t.id < l[a].next
  BY DEF NodeOK, AnswerOK, EntryOK, Busy
<1>2. t.id \in Nat /\ Lo(l[Len(l)]) \in Int /\ l[a].next \in Nat
  BY LogFacts, ChangeFacts, TaskFacts
<1>3. u.done <= l[a].next /\ u.done <= Lo(l[Len(l)])
  BY <1>1, <1>2
<1>4. HandleOK(l, a, u, h)
  BY HandleServes DEF NodeOK
<1> QED
  BY <1>3, <1>4, NodeEnds

\* A task that learns nothing starts over.
LEMMA NodeStartsOver ==
    ASSUME NEW l, NEW a, NEW t \in Task, NEW h, NEW st, NodeOK(l, a, t, h, st), t.pc # "idle",
           NEW u \in Task, u.pc = "idle", u.c = None, u.done = t.done, NEW su
    PROVE  NodeOK(l, a, u, h, su)
<1>1. u.done <= l[a].next /\ u.done <= Lo(l[Len(l)])
  BY DEF NodeOK, EntryOK, AnswerOK
<1>2. HandleOK(l, a, u, h)
  BY HandleServes DEF NodeOK
<1> QED
  BY <1>1, <1>2, NodeEnds

\* The supervisor starts a task, or stops one whose queue has run dry.
LEMMA NodeRespawns ==
    ASSUME NEW l, LogOK(l), NEW a \in 1 .. Len(l), NEW t \in Task, NEW h, NEW st,
           NodeOK(l, a, t, h, st), t.pc = "none" \/ l[a].queue = <<>>,
           NEW u \in Task, u.pc \in {"idle", "none"}, u.c = None, u.done = 0, NEW su
    PROVE  NodeOK(l, a, u, h, su)
<1>1. PICK v \in Change : v = l[a] /\ v.next \in Nat /\ Lo(v) \in Int
  BY LogFacts, ChangeFacts
<1>2. u.done <= l[a].next /\ u.done <= Lo(l[Len(l)])
  <2>1. t.done <= Lo(l[Len(l)]) /\ t.done \in Nat /\ Lo(l[Len(l)]) \in Int
    BY LogFacts, ChangeFacts, TaskFacts DEF NodeOK, AnswerOK
  <2> QED
    BY <1>1, <2>1
<1>3. HandleOK(l, a, u, h)
  <2>1. CASE t.pc = "none"
    BY <2>1, HandleServes DEF NodeOK
  <2>2. CASE v.queue = <<>>
    <3>1. Lo(v) = v.next
      BY <1>1, <2>2 DEF Lo
    <3>2. t.done <= Lo(l[a])
      BY <1>1, <3>1 DEF NodeOK, EntryOK
    <3> QED
      BY <3>2, HandleCatchesUp DEF NodeOK
  <2> QED
    BY <1>1, <2>1, <2>2
<1> QED
  BY <1>2, <1>3, NodeEnds

-----------------------------------------------------------------------------
(* The steps of tasks.                                                     *)

HistInv == LayerInv /\ LogInv /\ NodesInv /\ CallsInv /\ BlobInv /\ CalmInv

LEMMA HistFacts ==
    ASSUME HistInv
    PROVE  /\ LogOK(log) /\ WorkerTypeOK /\ calls \subseteq Call /\ leader \in Node
           /\ \A n \in Node : /\ applied[n] \in 1 .. Len(log) /\ w[n] \in Task
                              /\ cache[n] \in Commit \union {None}
                              /\ NodeOK(log, applied[n], w[n], cache[n], stash[n])
                              /\ log[applied[n]] \in Change
                              /\ w[n].pc = "publish" => w[n].c # None
                              /\ w[n].c # None => w[n].pc \in {"publish", "wait", "settle"}
                              /\ w[n].pc # "none" => n \in owned
           /\ \A k \in calls : /\ k.from \in Node /\ k.id \in Ids
                               /\ k.kind = "head" <=> k.c # None
                               /\ k.kind = "head" => k.c \in Commit
                               /\ k.kind \in {"head", "poison"} /\ k.awaited \in BOOLEAN
                               /\ k.stage = "handling" => k.to = leader
                               /\ CallOK(log, k)
                               /\ AwaitOK(log[applied[k.from]], w[k.from], k)
<1>1. /\ LogOK(log) /\ WorkerTypeOK /\ calls \subseteq Call /\ leader \in Node
  BY WorkerConstants DEF HistInv, LayerInv, WorkerTypeOK, LogInv
<1>2. ASSUME NEW n \in Node
      PROVE  /\ applied[n] \in 1 .. Len(log) /\ w[n] \in Task
             /\ cache[n] \in Commit \union {None}
             /\ NodeOK(log, applied[n], w[n], cache[n], stash[n])
             /\ log[applied[n]] \in Change
             /\ w[n].pc = "publish" => w[n].c # None
             /\ w[n].c # None => w[n].pc \in {"publish", "wait", "settle"}
             /\ w[n].pc # "none" => n \in owned
  <2>1. applied[n] \in 1 .. Len(log) /\ w[n] \in Task /\ cache[n] \in Commit \union {None}
    BY <1>1 DEF WorkerTypeOK
  <2>2. log[applied[n]] \in Change
    BY <1>1, <2>1, LogFacts
  <2> QED
    BY <2>1, <2>2 DEF HistInv, NodesInv, LayerInv, CallShape, HoldsGuard, CalmInv
<1>3. ASSUME NEW k \in calls
      PROVE  /\ k.from \in Node /\ k.id \in Ids
             /\ k.kind = "head" <=> k.c # None
             /\ k.kind = "head" => k.c \in Commit
             /\ k.kind \in {"head", "poison"} /\ k.awaited \in BOOLEAN
             /\ k.stage = "handling" => k.to = leader
             /\ CallOK(log, k)
             /\ AwaitOK(log[applied[k.from]], w[k.from], k)
  <2>1. /\ k.from \in Node /\ k.id \in Ids /\ k.c \in Commit \union {None}
        /\ k.kind \in {"head", "poison"} /\ k.awaited \in BOOLEAN
    BY <1>1 DEF Call
  <2> QED
    BY <2>1 DEF HistInv, CallsInv, LayerInv, CallShape
<1> QED
  BY <1>1, <1>2, <1>3

\* A task that is not waiting has no call to hear of.
LEMMA NobodyAwaits ==
    ASSUME HistInv, NEW n \in Node, w[n].pc # "wait", NEW k \in calls, k.from = n
    PROVE  ~k.awaited
BY HistFacts DEF AwaitOK

\* The node of a task takes a step, and the calls stay.
LEMMA NodeStepHist ==
    ASSUME HistInv, NEW n \in Node, OnlyTask(n), UNCHANGED <<log, applied>>,
           \A m \in Node : m # n => cache'[m] = cache[m] /\ stash'[m] = stash[m],
           NodeOK(log, applied[n], w'[n], cache'[n], stash'[n])
    PROVE  LogInv' /\ NodesInv'
<1>1. LogInv'
  BY DEF HistInv, LogInv
<1>2. ASSUME NEW m \in Node
      PROVE  NodeOK(log, applied[m], w'[m], cache'[m], stash'[m])
  <2>1. CASE m = n
    BY <2>1
  <2>2. CASE m # n
    BY <2>2, HistFacts DEF OnlyTask
  <2> QED
    BY <2>1, <2>2
<1>3. NodesInv'
  BY <1>2 DEF NodesInv
<1> QED
  BY <1>1, <1>3

LEMMA CallsStayHist ==
    ASSUME HistInv, NEW n \in Node, OnlyTask(n), UNCHANGED <<log, applied, calls>>, w[n].pc # "wait"
    PROVE  CallsInv'
<1>1. ASSUME NEW k \in calls
      PROVE  CallOK(log, k) /\ AwaitOK(log[applied[k.from]], w'[k.from], k)
  <2>1. CASE k.from = n
    BY <2>1, NobodyAwaits, HistFacts DEF AwaitOK
  <2>2. CASE k.from # n
    <3>1. w'[k.from] = w[k.from]
      BY <2>2, HistFacts DEF OnlyTask
    <3> QED
      BY <3>1, HistFacts
  <2> QED
    BY <2>1, <2>2
<1> QED
  BY <1>1 DEF HistInv, CallsInv

LEMMA CalmTask ==
    ASSUME HistInv, NEW n \in Node, OnlyTask(n), UNCHANGED <<vars, owned>>,
           w'[n].pc # "none" => n \in owned,
           \A j \in calls' : j.from \in owned /\ (j.stage \in {"sent", "handling"} => j.to # j.from)
    PROVE  CalmInv'
<1>1. \A m \in Node : w'[m].pc # "none" => m \in owned
  BY HistFacts DEF OnlyTask
<1> QED
  BY <1>1 DEF HistInv, CalmInv, vars

\* A step without a call.
LEMMA QuietStep ==
    ASSUME HistInv, LayerInv', NEW n \in Node, OnlyTask(n), w[n].pc # "wait",
           UNCHANGED <<vars, log, applied, owned, calls>>,
           w'[n].pc # "none" => n \in owned,
           \A m \in Node : m # n => cache'[m] = cache[m] /\ stash'[m] = stash[m],
           NodeOK(log, applied[n], w'[n], cache'[n], stash'[n]), BlobInv'
    PROVE  HistInv'
<1>1. LogInv' /\ NodesInv'
  BY NodeStepHist
<1>2. CallsInv'
  BY CallsStayHist
<1>3. CalmInv'
  <2>1. \A j \in calls' : j.from \in owned /\ (j.stage \in {"sent", "handling"} => j.to # j.from)
    BY DEF HistInv, CalmInv
  <2> QED
    BY <2>1, CalmTask
<1> QED
  BY <1>1, <1>2, <1>3 DEF HistInv

\* A task without a commit, and calls that bring no commit.  Only a commit that
\* nobody else has may leave the content store.
LEMMA BlobsWithout ==
    ASSUME HistInv, NEW n \in Node, OnlyTask(n), log' = log, w'[n].c = None,
           \A j \in calls' : j.c # None => j \in calls,
           blobs \ {w[n].c} \subseteq blobs',
           \A p \in 1 .. Len(log) : log[p].head # None => log[p].head \in blobs',
           \A k \in calls : k.c # None => k.c \in blobs'
    PROVE  BlobInv'
<1>1. BlobInv
  BY DEF HistInv
<1>2. \A m \in Node : w'[m].c # None => m # n /\ w'[m] = w[m]
  BY DEF OnlyTask
<1>3. \A m \in Node : w'[m].c # None => w'[m].c \in blobs'
  <2> SUFFICES ASSUME NEW m \in Node, w'[m].c # None
               PROVE  w'[m].c \in blobs'
    OBVIOUS
  <2>1. m # n /\ w'[m] = w[m] /\ w[m].c # None
    BY <1>2
  <2>2. w[m].c \in blobs /\ w[m].c # w[n].c
    BY <1>1, <2>1 DEF BlobInv
  <2> QED
    BY <2>1, <2>2
<1>4. \A m, r \in Node : w'[m].c # None /\ w'[m].c = w'[r].c => m = r
  BY <1>1, <1>2 DEF BlobInv
<1>5. \A j, k \in calls' : k.c # None /\ j.c = k.c => j = k
  BY <1>1 DEF BlobInv
<1>6. \A k \in calls' : k.c # None => k.c \in blobs' /\ \A p \in 1 .. Len(log) : log[p].head # k.c
  BY <1>1 DEF BlobInv
<1>7. \A m \in Node : \A k \in calls' : w'[m].c # None /\ k.c = w'[m].c =>
          k.from = m /\ (k.awaited \/ (w'[m].pc = "settle" /\ w'[m].result = "Raft"))
  BY <1>1, <1>2 DEF BlobInv
<1>8. \A m \in Node : w'[m].c # None => \A p \in 1 .. Len(log) : log[p].head = w'[m].c =>
          w'[m].pc = "settle" /\ w'[m].result \in {"Ok", "Raft"}
  BY <1>1, <1>2 DEF BlobInv
<1> QED
  BY <1>3, <1>4, <1>5, <1>6, <1>7, <1>8 DEF BlobInv

\* A step without a call and without a commit.
LEMMA PlainHist ==
    ASSUME HistInv, LayerInv', NEW n \in Node, OnlyTask(n), w[n].pc # "wait", w'[n].c = None,
           UNCHANGED <<vars, log, applied, owned, calls, blobs>>,
           w'[n].pc # "none" => n \in owned,
           \A m \in Node : m # n => cache'[m] = cache[m] /\ stash'[m] = stash[m],
           NodeOK(log, applied[n], w'[n], cache'[n], stash'[n])
    PROVE  HistInv'
<1>1. BlobInv'
  <2>1. \A p \in 1 .. Len(log) : log[p].head # None => log[p].head \in blobs
    BY DEF HistInv, BlobInv
  <2>2. \A k \in calls : k.c # None => k.c \in blobs
    BY DEF HistInv, BlobInv
  <2> QED
    BY <2>1, <2>2, BlobsWithout
<1> QED
  BY <1>1, QuietStep

\* The task gives its rejected commit up and releases the blob.
LEMMA ReleaseHist ==
    ASSUME HistInv, LayerInv', NEW n \in Node, OnlyTask(n), w'[n].c = None, w'[n].pc # "none",
           w[n].pc = "settle", w[n].c # None, w[n].result \in {"Stale", "Lagged"},
           UNCHANGED <<vars, log, applied, owned, calls>>, blobs' = blobs \ {w[n].c},
           \A m \in Node : m # n => cache'[m] = cache[m] /\ stash'[m] = stash[m],
           NodeOK(log, applied[n], w'[n], cache'[n], stash'[n])
    PROVE  HistInv'
<1>1. BlobInv
  BY DEF HistInv
<1>2. \A p \in 1 .. Len(log) : log[p].head # None => log[p].head \in blobs'
  BY <1>1 DEF BlobInv
<1>3. ASSUME NEW k \in calls, k.c # None
      PROVE  k.c \in blobs'
  <2>1. k.c # w[n].c
    <3>1. ~k.awaited \/ k.from # n
      BY NobodyAwaits
    <3> QED
      BY <1>1, <3>1 DEF BlobInv
  <2> QED
    BY <1>1, <1>3, <2>1 DEF BlobInv
<1>4. BlobInv'
  BY <1>2, <1>3, BlobsWithout
<1>5. n \in owned
  BY HistFacts
<1> QED
  BY <1>4, <1>5, QuietStep

\* A commit staged on the handle is a new one.
LEMMA FreshFacts ==
    ASSUME NEW n \in Node, w[n].body = "transact", NEW c \in FreshCommits(n)
    PROVE  /\ c \in Commit /\ c \notin blobs
           /\ \E s \in 0 .. MaxStamp : c = Append(Chain(cache[n]), <<w[n].id, s>>)
<1>1. PICK s \in 1 .. MaxStamp : c = Append(Chain(cache[n]), <<w[n].id, s>>) /\ c \in Commit \ blobs
  BY DEF FreshCommits, Chain
<1>2. s \in 0 .. MaxStamp
  BY WorkerConstants
<1> QED
  BY <1>1, <1>2

LEMMA StageHist ==
    ASSUME Regime, HistInv, LayerInv', NEW n \in Node, stage_and_persist(n)
    PROVE  HistInv'
<1>0. w[n].pc = "stage" /\ w[n].body = "transact" /\ w[n].c = None /\ WorkerTypeOK
  <2>1. w[n].body \in {"transact", "timed"} /\ w[n].pc = "stage"
    BY DEF stage_and_persist
  <2>2. w[n].c = None
    BY <2>1, HistFacts
  <2>3. EntryOK(log[applied[n]], w[n])
    BY HistFacts DEF NodeOK
  <2>4. w[n].body \in Body
    BY <2>1, <2>3 DEF EntryOK, Busy
  <2> QED
    BY <2>1, <2>2, <2>4, HistFacts DEF Regime
<1>1. PICK c \in FreshCommits(n) : Staged(n, c) /\ blobs' = blobs \union {c}
  BY DEF stage_and_persist
<1>2. c \in Commit /\ c \notin blobs /\ c # None
  BY <1>0, FreshFacts, WorkerConstants
<1>3. PICK s \in 0 .. MaxStamp : c = Append(Chain(cache[n]), <<w[n].id, s>>)
  BY <1>0, FreshFacts
<1>4. OnlyTask(n) /\ Keeps(n) /\ w'[n].pc = "publish" /\ w'[n].c = c /\ w'[n] \in Task
  BY <1>0, <1>1, <1>2, StagedMoves DEF OnlyTask
<1>5. /\ UNCHANGED <<vars, log, applied, owned, calls, cache>>
      /\ w[n].id \in stash'[n] /\ \A m \in Node : m # n => stash'[m] = stash[m]
  BY <1>0, <1>1 DEF stage_and_persist, Staged, WorkerTypeOK
<1>6. NodeOK(log, applied[n], w'[n], cache'[n], stash'[n])
  <2>1. w'[n].id = w[n].id /\ w'[n].body = w[n].body /\ w'[n].done = w[n].done
    BY <1>4 DEF Keeps
  <2>2. /\ LogOK(log) /\ applied[n] \in 1 .. Len(log) /\ w[n] \in Task
        /\ cache[n] \in Commit \union {None} /\ cache'[n] = cache[n]
        /\ NodeOK(log, applied[n], w[n], cache[n], stash[n])
    BY <1>5, HistFacts
  <2>3. w'[n].c = Append(Chain(cache[n]), <<w[n].id, s>>) /\ w[n].id \in stash'[n]
    BY <1>3, <1>4, <1>5
  <2>4. NodeOK(log, applied[n], w'[n], cache[n], stash'[n])
    BY <1>0, <1>4, <2>1, <2>2, <2>3, NodeStages
  <2> QED
    BY <2>2, <2>4
<1>7. BlobInv'
  <2>1. BlobInv
    BY DEF HistInv
  <2>2. /\ \A m \in Node : m # n => w'[m] = w[m]
        /\ \A m \in Node : w[m].c # c
        /\ \A k \in calls : k.c # c
        /\ \A p \in 1 .. Len(log) : log[p].head # c
    BY <1>2, <1>4, <2>1 DEF BlobInv, OnlyTask
  <2>3. \A m \in Node : w'[m].c # None => w'[m].c \in blobs'
    BY <1>1, <1>4, <2>1, <2>2 DEF BlobInv
  <2>4. ASSUME NEW m \in Node, NEW r \in Node, w'[m].c # None /\ w'[m].c = w'[r].c
        PROVE  m = r
    <3>1. CASE m = n /\ r # n
      BY <1>4, <2>2, <2>4, <3>1
    <3>2. CASE m # n /\ r = n
      BY <1>4, <2>2, <2>4, <3>2
    <3>3. CASE m # n /\ r # n
      BY <2>1, <2>2, <2>4, <3>3 DEF BlobInv
    <3> QED
      BY <3>1, <3>2, <3>3
  <2>5. \A m \in Node : \A k \in calls' : w'[m].c # None /\ k.c = w'[m].c =>
            k.from = m /\ (k.awaited \/ (w'[m].pc = "settle" /\ w'[m].result = "Raft"))
    BY <1>4, <1>5, <2>1, <2>2 DEF BlobInv
  <2>6. \A m \in Node : w'[m].c # None => \A p \in 1 .. Len(log) : log[p].head = w'[m].c =>
            w'[m].pc = "settle" /\ w'[m].result \in {"Ok", "Raft"}
    BY <1>4, <2>1, <2>2 DEF BlobInv
  <2> QED
    BY <1>1, <1>5, <2>1, <2>3, <2>4, <2>5, <2>6 DEF BlobInv
<1>8. n \in owned
  BY <1>0, HistFacts
<1> QED
  BY <1>0, <1>4, <1>5, <1>6, <1>7, <1>8, QuietStep

\* The task makes a call for its entry, or for a later one that comes too late.
LEMMA CallHist ==
    ASSUME HistInv, LayerInv', NEW n \in Node, w[n].pc \in {"publish", "poison"},
           OnlyTask(n), Keeps(n), w'[n].pc = "wait", w'[n].c = w[n].c,
           UNCHANGED <<vars, log, applied, owned, cache, blobs>>,
           \A m \in Node : m # n => stash'[m] = stash[m],
           NEW k \in Call, calls' = calls \union {k}, k.from = n, k.awaited, k.c = w[n].c,
           k.kind = "head" <=> k.c # None,
           k.stage \in {"sent", "proposed"}, k.stage = "sent" => k.to # n,
           k.id = w[n].id \/ (k.kind = "head" /\ Late(log[applied[n]], w[n]))
    PROVE  HistInv'
<1> DEFINE v == log[applied[n]]
<1>0. /\ LogOK(log) /\ applied[n] \in 1 .. Len(log) /\ v \in Change /\ w[n] \in Task /\ w'[n] \in Task
      /\ NodeOK(log, applied[n], w[n], cache[n], stash[n]) /\ Before(v, log[Len(log)])
      /\ n \in owned /\ log[Len(log)] \in Change
  <2>1. /\ LogOK(log) /\ applied[n] \in 1 .. Len(log) /\ v \in Change /\ w[n] \in Task
        /\ NodeOK(log, applied[n], w[n], cache[n], stash[n]) /\ n \in owned
    BY HistFacts
  <2>2. Len(log) \in 1 .. Len(log) /\ applied[n] <= Len(log)
    BY <2>1, LogFacts
  <2> QED
    BY <2>1, <2>2, LogFacts DEF OnlyTask
<1>1. /\ w'[n].id = w[n].id /\ w'[n].body = w[n].body /\ w'[n].done = w[n].done
  BY DEF Keeps
<1>2. w[n].c = None => w[n].pc = "poison"
  BY HistFacts
<1>3. NodeOK(log, applied[n], w'[n], cache'[n], stash'[n])
  <2>1. EntryOK(v, w[n]) /\ AnswerOK(log, w[n])
    BY <1>0 DEF NodeOK
  <2>2. w'[n].c = None => w'[n].body = "malformed"
    BY <1>1, <1>2, <2>1 DEF EntryOK
  <2>3. AnswerOK(log, w'[n])
    BY <1>1, <2>1, NoAnswer
  <2>4. Busy(w[n])
    BY DEF Busy
  <2> QED
    BY <1>0, <1>1, <2>2, <2>3, <2>4, NodeMoves
<1>4. LogInv' /\ NodesInv'
  BY <1>3, NodeStepHist
<1>5. CallOK(log, k)
  <2>1. ASSUME k.kind = "head"
        PROVE  \E e \in Ids : Extends(log, k.c, e) /\ (k.id = e \/ Len(k.c) <= T(log[Len(log)].head))
    <3>1. Extends(log, k.c, w[n].id) /\ w[n].id \in Ids
      BY <1>0, <2>1, TaskFacts DEF NodeOK, GuardOK
    <3>2. CASE k.id = w[n].id
      BY <3>1, <3>2
    <3>3. CASE Late(v, w[n])
      <4>1. Late(log[Len(log)], w[n])
        BY <1>0, <2>1, <3>3, LateStays
      <4> QED
        BY <3>1, <4>1 DEF Late
    <3> QED
      BY <3>2, <3>3
  <2>2. ASSUME k.kind = "poison"
        PROVE  /\ k.id < log[Len(log)].next
               /\ Queued(log[Len(log)], k.id) => BodyAt(log[Len(log)], k.id) = "malformed"
    <3>1. k.id = w[n].id /\ k.id \in Ids /\ k.id \in Nat
      BY <1>0, <2>2, TaskFacts
    <3>2. w[n].c = None
      BY <2>2
    <3>3. /\ k.id <= Lo(v) /\ k.id < v.next /\ (k.id = Lo(v) => BodyAt(v, k.id) = w[n].body)
          /\ w[n].body = "malformed"
      BY <1>0, <1>2, <3>1, <3>2 DEF NodeOK, EntryOK, Busy
    <3>4. PICK d \in Change : d = log[Len(log)]
      BY <1>0
    <3>5. /\ v.next \in Nat /\ d.next \in Nat /\ v.next <= d.next /\ Lo(v) \in Int /\ Lo(d) \in Int
          /\ Lo(v) <= Lo(d)
      BY <1>0, <3>4, ChangeFacts DEF Before
    <3>6. k.id < d.next
      BY <3>1, <3>3, <3>5
    <3>7. ASSUME Queued(d, k.id)
          PROVE  BodyAt(d, k.id) = "malformed"
      <4>1. k.id = Lo(v) /\ Queued(v, k.id)
        BY <3>1, <3>3, <3>5, <3>7 DEF Queued
      <4>2. BodyAt(v, k.id) = BodyAt(d, k.id)
        BY <1>0, <3>1, <3>4, <3>7, <4>1 DEF Before
      <4> QED
        BY <3>3, <4>1, <4>2
    <3> QED
      BY <3>4, <3>6, <3>7
  <2> QED
    BY <2>1, <2>2 DEF CallOK
<1>6. AwaitOK(v, w'[n], k)
  BY <1>1 DEF AwaitOK, Late
<1>7. \A j \in calls : j.from = n => ~j.awaited
  BY NobodyAwaits
<1>8. CallsInv'
  <2>1. ASSUME NEW j \in calls'
        PROVE  CallOK(log, j) /\ AwaitOK(log[applied[j.from]], w'[j.from], j)
    <3>1. CASE j = k
      BY <1>5, <1>6, <3>1
    <3>2. CASE j \in calls /\ j.from = n
      BY <1>7, <3>2, HistFacts DEF AwaitOK
    <3>3. CASE j \in calls /\ j.from # n
      <4>1. w'[j.from] = w[j.from]
        BY <3>3, HistFacts DEF OnlyTask
      <4> QED
        BY <3>3, <4>1, HistFacts
    <3> QED
      BY <3>1, <3>2, <3>3
  <2>2. \A i, j \in calls' : i.awaited /\ j.awaited /\ i.from = j.from => i = j
    BY <1>7 DEF HistInv, CallsInv
  <2> QED
    BY <2>1, <2>2 DEF CallsInv
<1>9. BlobInv'
  <2>1. BlobInv
    BY DEF HistInv
  <2>2. \A m \in Node : w'[m].c = w[m].c /\ (m # n => w'[m] = w[m])
    BY DEF OnlyTask
  <2>3. \A j \in calls : w[n].c # None => j.c # w[n].c
    BY <1>7, <2>1 DEF BlobInv
  <2>4. \A p \in 1 .. Len(log) : w[n].c # None => log[p].head # w[n].c
    BY <2>1 DEF BlobInv
  <2>5. /\ \A j \in calls' : j.c # None => j.c \in blobs
        /\ \A m \in Node : w'[m].c # None => w'[m].c \in blobs
    BY <2>1, <2>2 DEF BlobInv
  <2>6. \A m, r \in Node : w'[m].c # None /\ w'[m].c = w'[r].c => m = r
    BY <2>1, <2>2 DEF BlobInv
  <2>7. \A i, j \in calls' : j.c # None /\ i.c = j.c => i = j
    BY <2>1, <2>3 DEF BlobInv
  <2>8. \A j \in calls' : j.c # None => \A p \in 1 .. Len(log) : log[p].head # j.c
    BY <2>1, <2>4 DEF BlobInv
  <2>9. ASSUME NEW m \in Node, NEW j \in calls', w'[m].c # None /\ j.c = w'[m].c
        PROVE  j.from = m /\ (j.awaited \/ (w'[m].pc = "settle" /\ w'[m].result = "Raft"))
    <3>1. CASE j = k
      BY <2>1, <2>2, <2>9, <3>1 DEF BlobInv
    <3>2. CASE j \in calls
      <4>1. m # n
        BY <2>2, <2>3, <2>9, <3>2
      <4> QED
        BY <2>1, <2>2, <2>9, <3>2, <4>1 DEF BlobInv
    <3> QED
      BY <3>1, <3>2
  <2>10. \A m \in Node : w'[m].c # None => \A p \in 1 .. Len(log) : log[p].head = w'[m].c =>
            w'[m].pc = "settle" /\ w'[m].result \in {"Ok", "Raft"}
    BY <2>1, <2>2, <2>4 DEF BlobInv
  <2> QED
    BY <2>1, <2>5, <2>6, <2>7, <2>8, <2>9, <2>10 DEF BlobInv
<1>10. CalmInv'
  <2>1. \A j \in calls' : j.from \in owned /\ (j.stage \in {"sent", "handling"} => j.to # j.from)
    BY <1>0 DEF HistInv, CalmInv
  <2> QED
    BY <1>0, <2>1, CalmTask
<1> QED
  BY <1>4, <1>8, <1>9, <1>10 DEF HistInv

\* The stash of an owner holds nothing but its task's receipt.
LEMMA OwnStash ==
    ASSUME Regime, HistInv, NEW n \in owned, n \in Node, NEW i \in stash[n]
    PROVE  HoldsGuard(n) /\ i = w[n].id
<1> SUFFICES ASSUME NEW k \in calls, k.stage = "handling", k.to = n
             PROVE  FALSE
  BY DEF HistInv, LayerInv, SlotInv
<1>1. k.from \in owned /\ k.to # k.from
  BY DEF HistInv, CalmInv
<1>2. n = leader /\ n \in Candidate /\ owned \subseteq Owner
  BY HistFacts DEF HistInv, LayerInv, WorkerTypeOK
<1>3. Owner = {n}
  BY <1>2 DEF Regime
<1> QED
  BY <1>1, <1>2, <1>3

LEMMA PublishHist ==
    ASSUME Regime, HistInv, LayerInv', NEW n \in Node, publish_commit(n)
    PROVE  HistInv'
<1>0. /\ w[n].pc = "publish" /\ w[n].c # None /\ n \in owned /\ WorkerTypeOK /\ w[n] \in Task
      /\ w[n].id \in Ids /\ w[n].c \in Commit /\ leader \in Node
      /\ NodeOK(log, applied[n], w[n], cache[n], stash[n])
      /\ UNCHANGED <<vars, log, applied, owned, cache, blobs>>
  BY HistFacts, TaskFacts DEF publish_commit
<1>1. ASSUME NEW i \in ClaimedIds(n),
             calls' = calls \union
                  {[from |-> n, to |-> leader, kind |-> "head", id |-> i, c |-> w[n].c,
                    stage |-> IF n = leader THEN "proposed" ELSE "sent", awaited |-> TRUE]},
             stash' = IF n = leader THEN stash ELSE [stash EXCEPT ![n] = @ \ {i}],
             w' = [w EXCEPT ![n] = [@ EXCEPT !.pc = "wait"]]
      PROVE  HistInv'
  <2> DEFINE k == [from |-> n, to |-> leader, kind |-> "head", id |-> i, c |-> w[n].c,
                   stage |-> IF n = leader THEN "proposed" ELSE "sent", awaited |-> TRUE]
  <2>1. i = w[n].id \/ Late(log[applied[n]], w[n])
    <3>1. CASE stash[n] # {}
      <4>1. i \in stash[n]
        BY <1>1, <3>1 DEF ClaimedIds, peek_queue_id_for
      <4> QED
        BY <1>0, <4>1, OwnStash
    <3>2. CASE stash[n] = {}
      BY <1>0, <3>2 DEF NodeOK, GuardOK
    <3> QED
      BY <3>1, <3>2
  <2>2. i \in Ids
    <3>1. LayerInv
      BY DEF HistInv
    <3> QED
      BY <1>0, <1>1, <3>1, ViewFacts DEF ClaimedIds, peek_queue_id_for, WorkerTypeOK
  <2>3. /\ k \in Call /\ k.kind = "head" /\ k.c = w[n].c /\ k.from = n /\ k.awaited /\ k.id = i
        /\ k.stage \in {"sent", "proposed"} /\ (k.stage = "sent" => k.to # n)
    BY <1>0, <2>2 DEF Call
  <2>4. calls' = calls \union {k}
    BY <1>1
  <2> HIDE DEF k
  <2>5. OnlyTask(n) /\ Keeps(n) /\ w'[n].pc = "wait" /\ w'[n].c = w[n].c
    BY <1>0, <1>1, PlaceMoves
  <2>6. \A m \in Node : m # n => stash'[m] = stash[m]
    BY <1>0, <1>1 DEF WorkerTypeOK
  <2> QED
    BY <1>0, <2>1, <2>3, <2>4, <2>5, <2>6, CallHist
<1>2. ASSUME w' = [w EXCEPT ![n] = [@ EXCEPT !.pc = "settle", !.result = "Raft"]],
             UNCHANGED <<calls, stash>>
      PROVE  HistInv'
  <2>1. /\ OnlyTask(n) /\ Keeps(n) /\ w'[n].pc = "settle" /\ w'[n].c = w[n].c
        /\ w'[n].result = "Raft" /\ w'[n] \in Task
    BY <1>0, <1>2, SettleMoves DEF OnlyTask
  <2>2. w'[n].id = w[n].id /\ w'[n].body = w[n].body /\ w'[n].done = w[n].done
    BY <2>1 DEF Keeps
  <2>3. NodeOK(log, applied[n], w'[n], cache'[n], stash'[n])
    <3>1. AnswerOK(log, w'[n])
      BY <1>0, <2>1, <2>2, NoAnswer DEF NodeOK
    <3>2. Busy(w[n])
      BY <1>0 DEF Busy
    <3> QED
      BY <1>0, <2>1, <2>2, <3>1, <3>2, NodeMoves
  <2>4. BlobInv'
    <3>1. \A m \in Node : w'[m].c = w[m].c /\ (m # n => w'[m] = w[m])
      BY <2>1 DEF OnlyTask
    <3>2. BlobInv
      BY DEF HistInv
    <3>3. \A m \in Node : \A k \in calls : w'[m].c # None /\ k.c = w'[m].c =>
              k.from = m /\ (k.awaited \/ (w'[m].pc = "settle" /\ w'[m].result = "Raft"))
      BY <2>1, <3>1, <3>2 DEF BlobInv
    <3>4. \A m \in Node : w'[m].c # None => \A p \in 1 .. Len(log) : log[p].head = w'[m].c =>
              w'[m].pc = "settle" /\ w'[m].result \in {"Ok", "Raft"}
      BY <2>1, <3>1, <3>2 DEF BlobInv
    <3> QED
      BY <1>0, <1>2, <3>1, <3>2, <3>3, <3>4 DEF BlobInv
  <2> QED
    BY <1>0, <1>2, <2>1, <2>3, <2>4, QuietStep
<1> QED
  BY <1>1, <1>2 DEF publish_commit

LEMMA ProposePoisonHist ==
    ASSUME HistInv, LayerInv', NEW n \in Node, propose_poison(n)
    PROVE  HistInv'
<1>0. /\ w[n].pc = "poison" /\ w[n].c = None /\ WorkerTypeOK /\ w[n].id \in Ids /\ leader \in Node
      /\ UNCHANGED <<vars, log, applied, owned, cache, blobs, stash>>
  BY HistFacts, TaskFacts DEF propose_poison
<1> DEFINE k == [from |-> n, to |-> leader, kind |-> "poison", id |-> w[n].id, c |-> None,
                 stage |-> IF n = leader THEN "proposed" ELSE "sent", awaited |-> TRUE]
<1>1. /\ k \in Call /\ k.kind = "poison" /\ k.c = w[n].c /\ k.from = n /\ k.awaited
      /\ k.id = w[n].id /\ k.stage \in {"sent", "proposed"} /\ (k.stage = "sent" => k.to # n)
  BY <1>0 DEF Call
<1>2. calls' = calls \union {k}
  BY DEF propose_poison
<1> HIDE DEF k
<1>3. OnlyTask(n) /\ Keeps(n) /\ w'[n].pc = "wait" /\ w'[n].c = w[n].c
  BY <1>0, PlaceMoves DEF propose_poison
<1> QED
  BY <1>0, <1>1, <1>2, <1>3, CallHist

\* The calls of an aborted task go on without it.
LEMMA AbortHist ==
    ASSUME HistInv, LayerInv', NEW n \in Node, abort_worker(n)
    PROVE  HistInv'
<1>0. /\ w[n].pc # "none" /\ n \in owned /\ WorkerTypeOK /\ LogOK(log) /\ w[n] \in Task
      /\ applied[n] \in 1 .. Len(log) /\ NodeOK(log, applied[n], w[n], cache[n], stash[n])
      /\ UNCHANGED <<vars, log, applied, owned, cache, blobs>>
  BY HistFacts DEF abort_worker
<1>1. OnlyTask(n) /\ w'[n] = NoTask
  BY <1>0, SetTask, NoTaskType DEF abort_worker
<1>2. NodeOK(log, applied[n], w'[n], cache'[n], stash'[n])
  <2>1. log[applied[n]].queue = <<>>
    BY <1>0 DEF abort_worker, Desired, ViewQueue
  <2>2. NoTask \in Task /\ NoTask.pc = "none" /\ NoTask.c = None /\ NoTask.done = 0
    BY NoTaskType DEF NoTask
  <2>3. NodeOK(log, applied[n], NoTask, cache[n], stash'[n])
    BY <1>0, <2>1, <2>2, NodeRespawns
  <2> QED
    BY <1>0, <1>1, <2>3
<1>3. \A m \in Node : m # n => cache'[m] = cache[m] /\ stash'[m] = stash[m]
  <2>1. stash' = DropGuard(n)
    BY DEF abort_worker
  <2> QED
    BY <1>0, <2>1, DropGuardFacts
<1>4. LogInv' /\ NodesInv'
  BY <1>0, <1>1, <1>2, <1>3, NodeStepHist
<1>5. ASSUME NEW j \in calls'
      PROVE  \E k \in calls : /\ j = IF k.from = n THEN [k EXCEPT !.awaited = FALSE] ELSE k
                              /\ j.from = k.from /\ j.to = k.to /\ j.kind = k.kind /\ j.id = k.id
                              /\ j.c = k.c /\ j.stage = k.stage
                              /\ k.from = n => ~j.awaited
                              /\ k.from # n => j = k
  <2>1. PICK k \in calls : j = IF k.from = n THEN [k EXCEPT !.awaited = FALSE] ELSE k
    BY DEF abort_worker
  <2>2. k \in Call
    BY HistFacts
  <2>3. CASE k.from = n
    <3>1. j = [k EXCEPT !.awaited = FALSE]
      BY <2>1, <2>3
    <3> QED
      BY <2>1, <2>2, <2>3, <3>1, UnawaitedFacts
  <2>4. CASE k.from # n
    <3>1. j = k
      BY <2>1, <2>4
    <3> QED
      BY <2>1, <2>4, <3>1
  <2> QED
    BY <2>3, <2>4
<1>6. CallsInv'
  <2>1. ASSUME NEW j \in calls'
        PROVE  CallOK(log, j) /\ AwaitOK(log[applied[j.from]], w'[j.from], j)
    <3>1. PICK k \in calls : /\ j.from = k.from /\ j.kind = k.kind /\ j.id = k.id /\ j.c = k.c
                             /\ k.from = n => ~j.awaited
                             /\ k.from # n => j = k
      BY <1>5
    <3>2. CallOK(log, j)
      BY <3>1, HistFacts DEF CallOK
    <3>3. AwaitOK(log[applied[j.from]], w'[j.from], j)
      <4>1. CASE k.from = n
        BY <3>1, <4>1 DEF AwaitOK
      <4>2. CASE k.from # n
        <5>1. j = k /\ w'[k.from] = w[k.from]
          BY <1>1, <3>1, <4>2, HistFacts DEF OnlyTask
        <5> QED
          BY <5>1, HistFacts
      <4> QED
        BY <4>1, <4>2
    <3> QED
      BY <3>2, <3>3
  <2>2. ASSUME NEW i \in calls', NEW j \in calls', i.awaited /\ j.awaited /\ i.from = j.from
        PROVE  i = j
    <3>1. i \in calls /\ j \in calls
      BY <1>5, <2>2
    <3> QED
      BY <2>2, <3>1 DEF HistInv, CallsInv
  <2> QED
    BY <1>0, <2>1, <2>2 DEF CallsInv
<1>7. BlobInv'
  <2>1. BlobInv
    BY DEF HistInv
  <2>2. \A m \in Node : w'[m].c # None => m # n /\ w'[m] = w[m]
    BY <1>1 DEF OnlyTask, NoTask
  <2>3. \A m \in Node : w'[m].c # None => w'[m].c \in blobs
    BY <2>1, <2>2 DEF BlobInv
  <2>4. \A m, r \in Node : w'[m].c # None /\ w'[m].c = w'[r].c => m = r
    BY <2>1, <2>2 DEF BlobInv
  <2>5. ASSUME NEW i \in calls', NEW j \in calls', j.c # None /\ i.c = j.c
        PROVE  i = j
    <3>1. PICK a \in calls : /\ i = IF a.from = n THEN [a EXCEPT !.awaited = FALSE] ELSE a
                             /\ i.c = a.c
      BY <1>5
    <3>2. PICK b \in calls : /\ j = IF b.from = n THEN [b EXCEPT !.awaited = FALSE] ELSE b
                             /\ j.c = b.c
      BY <1>5
    <3>3. a = b
      BY <2>1, <2>5, <3>1, <3>2 DEF BlobInv
    <3> QED
      BY <3>1, <3>2, <3>3
  <2>6. ASSUME NEW j \in calls', j.c # None
        PROVE  j.c \in blobs /\ \A p \in 1 .. Len(log) : log[p].head # j.c
    <3>1. PICK k \in calls : j.c = k.c
      BY <1>5
    <3> QED
      BY <2>1, <2>6, <3>1 DEF BlobInv
  <2>7. ASSUME NEW m \in Node, NEW j \in calls', w'[m].c # None /\ j.c = w'[m].c
        PROVE  j.from = m /\ (j.awaited \/ (w'[m].pc = "settle" /\ w'[m].result = "Raft"))
    <3>1. m # n /\ w'[m] = w[m]
      BY <2>2, <2>7
    <3>2. PICK k \in calls : j.c = k.c /\ (k.from # n => j = k)
      BY <1>5
    <3>3. k.from = m /\ (k.awaited \/ (w[m].pc = "settle" /\ w[m].result = "Raft"))
      BY <2>1, <2>7, <3>1, <3>2 DEF BlobInv
    <3> QED
      BY <3>1, <3>2, <3>3
  <2>8. \A m \in Node : w'[m].c # None => \A p \in 1 .. Len(log) : log[p].head = w'[m].c =>
            w'[m].pc = "settle" /\ w'[m].result \in {"Ok", "Raft"}
    BY <2>1, <2>2 DEF BlobInv
  <2> QED
    BY <1>0, <2>1, <2>3, <2>4, <2>5, <2>6, <2>7, <2>8 DEF BlobInv
<1>8. CalmInv'
  <2>1. ASSUME NEW j \in calls'
        PROVE  j.from \in owned /\ (j.stage \in {"sent", "handling"} => j.to # j.from)
    <3>1. PICK k \in calls : j.from = k.from /\ j.to = k.to /\ j.stage = k.stage
      BY <1>5
    <3> QED
      BY <3>1 DEF HistInv, CalmInv
  <2> QED
    BY <1>0, <1>1, <2>1, CalmTask
<1> QED
  BY <1>4, <1>6, <1>7, <1>8 DEF HistInv

LEMMA WorkerStepHist ==
    ASSUME Regime, HistInv, LayerInv', NEW n \in Node, WorkerStep(n)
    PROVE  HistInv'
<1>0. /\ WorkerTypeOK /\ LogOK(log) /\ w[n] \in Task /\ applied[n] \in 1 .. Len(log)
      /\ NodeOK(log, applied[n], w[n], cache[n], stash[n])
      /\ w[n].pc # "none" => n \in owned
      /\ w[n].c # None => w[n].pc \in {"publish", "wait", "settle"}
      /\ cache \in [Node -> Commit \union {None}]
      /\ LayerInv
  BY HistFacts DEF HistInv, LayerInv, WorkerTypeOK
<1>1. CASE spawn_worker(n)
  <2> DEFINE t == [NoTask EXCEPT !.pc = "idle"]
  <2>1. t \in Task /\ t.pc = "idle" /\ t.c = None /\ t.done = 0
    BY NoTaskType DEF Task, NoTask
  <2>2. w' = [w EXCEPT ![n] = t]
    BY <1>1 DEF spawn_worker
  <2> HIDE DEF t
  <2>3. OnlyTask(n) /\ w'[n] = t
    BY <1>0, <2>1, <2>2, SetTask
  <2>4. /\ w[n].pc = "none" /\ n \in owned
        /\ UNCHANGED <<vars, log, applied, owned, calls, blobs, cache, stash>>
    BY <1>1 DEF spawn_worker, Desired
  <2>5. NodeOK(log, applied[n], w'[n], cache[n], stash[n])
    BY <1>0, <2>1, <2>3, <2>4, NodeRespawns
  <2> QED
    BY <2>1, <2>3, <2>4, <2>5, PlainHist
<1>2. CASE abort_worker(n)
  BY <1>2, AbortHist
<1>3. CASE snapshot_front(n)
  <2>1. /\ OnlyTask(n) /\ w'[n].pc = "stage" /\ w'[n].c = None /\ w'[n].done = w[n].done
        /\ w'[n].id = Head(ViewQueue(n)).queue_id /\ w'[n].body = Head(ViewQueue(n)).body
    BY <1>0, <1>3, SnapshotMoves
  <2>2. /\ w[n].pc = "idle" /\ ViewQueue(n) # <<>> /\ Head(ViewQueue(n)).queue_id >= w[n].done
        /\ UNCHANGED <<vars, log, applied, owned, calls, blobs, cache, stash>>
    BY <1>3 DEF snapshot_front
  <2>3. NodeOK(log, applied[n], w'[n], cache[n], stash[n])
    <3>1. w'[n] \in Task
      BY <2>1 DEF OnlyTask
    <3> QED
      BY <1>0, <2>1, <2>2, <3>1, NodeTakesUp DEF ViewQueue
  <2> QED
    BY <1>0, <2>1, <2>2, <2>3, PlainHist
<1>4. CASE stage_and_persist(n)
  BY <1>4, StageHist
<1>5. ~stage_no_change(n) /\ ~process_push(n)
  <2>1. ASSUME w[n].pc = "stage"
        PROVE  w[n].body \in {"transact", "malformed"}
    BY <1>0, <2>1 DEF NodeOK, EntryOK, Busy, Regime
  <2> QED
    BY <2>1 DEF stage_no_change, process_push
<1>6. ASSUME w[n].pc \in {"stage", "refresh"}, OnlyTask(n), Keeps(n), w'[n].c = w[n].c,
             w'[n].pc \in {"stage", "poison"}, w'[n].pc = "poison" => w[n].body = "malformed",
             HandleOK(log, applied[n], w[n], cache'[n]),
             \A m \in Node : m # n => cache'[m] = cache[m],
             UNCHANGED <<vars, log, applied, owned, calls, blobs, stash>>
      PROVE  HistInv'
  <2>1. w[n].c = None /\ n \in owned
    BY <1>0, <1>6
  <2>2. NodeOK(log, applied[n], w[n], cache'[n], stash[n])
    BY <1>0, <1>6 DEF NodeOK
  <2>3. NodeOK(log, applied[n], w'[n], cache'[n], stash[n])
    <3>1. w'[n] \in Task /\ w'[n].id = w[n].id /\ w'[n].body = w[n].body /\ w'[n].done = w[n].done
      BY <1>6 DEF OnlyTask, Keeps
    <3>2. AnswerOK(log, w'[n])
      BY <1>0, <1>6, <3>1, NoAnswer DEF NodeOK
    <3>3. Busy(w[n])
      BY <1>6 DEF Busy
    <3> QED
      BY <1>0, <1>6, <2>2, <3>1, <3>2, <3>3, NodeMoves
  <2> QED
    BY <1>6, <2>1, <2>3, PlainHist
<1>7. CASE stage_fails(n)
  <2>1. w[n].pc = "stage" /\ UNCHANGED <<vars, log, applied, owned, calls, blobs, stash, cache>>
    BY <1>7 DEF stage_fails
  <2>2. w[n].body \in {"transact", "malformed"}
    BY <1>0, <2>1 DEF NodeOK, EntryOK, Busy, Regime
  <2>3. w[n].body = "malformed" /\ w' = [w EXCEPT ![n] = [@ EXCEPT !.pc = "poison"]]
    BY <1>7, <2>2 DEF stage_fails, TransientFailure, DeterministicFailure, Happens, Regime
  <2>4. OnlyTask(n) /\ Keeps(n) /\ w'[n].pc = "poison" /\ w'[n].c = w[n].c
    BY <1>0, <2>3, PlaceMoves
  <2> QED
    BY <1>0, <1>6, <2>1, <2>3, <2>4 DEF NodeOK
<1>8. CASE refresh(n)
  <2>1. w[n].pc = "refresh" /\ UNCHANGED <<vars, log, applied, owned, calls, blobs, stash>>
    BY <1>8 DEF refresh
  <2>2. OnlyTask(n) /\ Keeps(n) /\ w'[n].pc = "stage" /\ w'[n].c = w[n].c
    BY <1>0, <1>8, PlaceMoves DEF refresh
  <2>3. cache'[n] = Refreshed(n) /\ \A m \in Node : m # n => cache'[m] = cache[m]
    BY <1>0, <1>8 DEF refresh
  <2>4. HandleOK(log, applied[n], w[n], cache'[n])
    BY <1>0, <2>3, HandleRefreshes DEF Refreshed, ViewHead, NodeOK
  <2> QED
    BY <1>6, <2>1, <2>2, <2>3, <2>4
<1>9. CASE publish_commit(n)
  BY <1>9, PublishHist
<1>10. CASE propose_poison(n)
  BY <1>10, ProposePoisonHist
<1>11. ASSUME stash' = DropGuard(n)
       PROVE  \A m \in Node : m # n => stash'[m] = stash[m]
  BY <1>0, <1>11, DropGuardFacts
<1>12. ASSUME w' = Done(n)
       PROVE  /\ OnlyTask(n) /\ w'[n].pc = "idle" /\ w'[n].c = None /\ w'[n].done = w[n].id + 1
              /\ w'[n] \in Task
  BY <1>0, <1>12, DoneMoves DEF OnlyTask
<1>13. CASE settle_landed(n)
  <2>1. /\ w[n].pc = "settle" /\ w[n].c # None /\ w' = Done(n) /\ stash' = DropGuard(n)
        /\ w[n].result = "Ok" \/ log[applied[n]].head = w[n].c
        /\ UNCHANGED <<vars, log, applied, owned, calls, blobs>>
    BY <1>13 DEF settle_landed, Settling, commit_replicated, ViewHead
  <2>2. w[n].body = "transact"
    BY <1>0, <2>1 DEF NodeOK, EntryOK
  <2>3. cache'[n] = w[n].c /\ \A m \in Node : m # n => cache'[m] = cache[m]
    BY <1>0, <1>13, <2>2 DEF settle_landed
  <2>4. NodeOK(log, applied[n], w'[n], w[n].c, stash'[n])
    BY <1>0, <1>12, <2>1, NodeLands
  <2> QED
    BY <1>0, <1>11, <1>12, <2>1, <2>3, <2>4, PlainHist
<1>14. CASE settle_stale(n)
  <2>1. /\ w[n].pc = "settle" /\ w[n].c # None /\ w' = Done(n) /\ stash' = DropGuard(n)
        /\ w[n].result = "Stale" /\ blobs' = blobs \ {w[n].c}
        /\ UNCHANGED <<vars, log, applied, owned, calls, cache>>
    BY <1>14 DEF settle_stale, Settling, Rejected
  <2>2. NodeOK(log, applied[n], w'[n], cache[n], stash'[n])
    BY <1>0, <1>12, <2>1, NodeGivesUp
  <2> QED
    BY <1>0, <1>11, <1>12, <2>1, <2>2, ReleaseHist
<1>15. CASE settle_lagged(n)
  <2>1. /\ w[n].pc = "settle" /\ w[n].c # None /\ stash' = DropGuard(n)
        /\ w[n].result = "Lagged" /\ blobs' = blobs \ {w[n].c}
        /\ UNCHANGED <<vars, log, applied, owned, calls, cache>>
    BY <1>15 DEF settle_lagged, Settling, Rejected
  <2>2. OnlyTask(n) /\ Keeps(n) /\ w'[n].pc = "refresh" /\ w'[n].c = None
    BY <1>0, <1>15, LaggedMoves
  <2>3. NodeOK(log, applied[n], w'[n], cache[n], stash'[n])
    <3>1. w'[n] \in Task /\ w'[n].id = w[n].id /\ w'[n].body = w[n].body /\ w'[n].done = w[n].done
      BY <2>2 DEF OnlyTask, Keeps
    <3>2. AnswerOK(log, w'[n])
      BY <1>0, <2>2, <3>1, NoAnswer DEF NodeOK
    <3>3. Busy(w[n])
      BY <2>1 DEF Busy
    <3> QED
      BY <1>0, <2>2, <3>1, <3>2, <3>3, NodeMoves
  <2> QED
    BY <1>0, <1>11, <2>1, <2>2, <2>3, ReleaseHist
<1>16. ASSUME w[n].pc = "settle",
              w' = [w EXCEPT ![n] = [NoTask EXCEPT !.pc = "idle", !.done = w[n].done]],
              \A m \in Node : m # n => stash'[m] = stash[m],
              UNCHANGED <<vars, log, applied, owned, calls, cache, blobs>>
       PROVE  HistInv'
  <2>1. w[n].done \in 0 .. MaxQueueId
    BY <1>0 DEF Task
  <2>2. OnlyTask(n) /\ w'[n].pc = "idle" /\ w'[n].c = None /\ w'[n].done = w[n].done
    BY <1>0, <1>16, <2>1, IdleMoves
  <2>3. w'[n] \in Task
    BY <2>2 DEF OnlyTask
  <2>4. NodeOK(log, applied[n], w'[n], cache[n], stash'[n])
    BY <1>0, <1>16, <2>2, <2>3, NodeStartsOver
  <2> QED
    BY <1>0, <1>16, <2>2, <2>4, PlainHist
<1>17. CASE settle_unknown(n)
  BY <1>11, <1>16, <1>17 DEF settle_unknown, Settling, Rejected
<1>18. CASE settle_poison(n)
  <2>1. /\ w[n].pc = "settle" /\ w[n].c = None
        /\ UNCHANGED <<vars, log, applied, owned, calls, cache, blobs, stash>>
    BY <1>18 DEF settle_poison, Settling
  <2>2. CASE w[n].result = "Ok"
    <3>1. w' = Done(n)
      BY <1>18, <2>2 DEF settle_poison
    <3>2. NodeOK(log, applied[n], w'[n], cache[n], stash[n])
      BY <1>0, <1>12, <2>1, <2>2, <3>1, NodeGivesUp
    <3> QED
      BY <1>0, <1>12, <2>1, <3>1, <3>2, PlainHist
  <2>3. CASE w[n].result # "Ok"
    BY <1>16, <1>18, <2>1, <2>3 DEF settle_poison
  <2> QED
    BY <2>2, <2>3
<1> QED
  BY <1>1, <1>2, <1>3, <1>4, <1>5, <1>7, <1>8, <1>9, <1>10, <1>13, <1>14, <1>15, <1>17, <1>18
  DEF WorkerStep

-----------------------------------------------------------------------------
(* The steps of nodes, calls and clients.                                  *)

\* A waiting task hears an answer.
Hears(m) ==
    /\ w[m].pc = "wait" /\ w'[m].pc = "settle" /\ Keeps(m) /\ w'[m].c = w[m].c
    /\ AnswerOK(log', w'[m])

\* The call j is what became of k.  Whoever stops waiting learns nothing.
GoesOn(j, k) ==
    /\ j.from = k.from /\ j.kind = k.kind /\ j.id = k.id /\ j.c = k.c
    /\ j.awaited => k.awaited /\ w'[k.from] = w[k.from]
    /\ ~j.awaited => ~k.awaited \/ (w'[k.from].pc = "settle" /\ w'[k.from].result = "Raft")

\* A step that stages nothing and makes no call.
LEMMA OuterHist ==
    ASSUME HistInv, LayerInv', LogOK(log'), UNCHANGED <<owned, blobs>>,
           recently_cleared'[main] = None, retracted' = {},
           \A m \in Node : NodeOK(log', applied'[m], w[m], cache'[m], stash'[m]),
           \A k \in calls : CallOK(log', k) /\ AwaitOK(log'[applied'[k.from]], w[k.from], k),
           \A m \in Node : w'[m] = w[m] \/ Hears(m),
           \A j \in calls' : \E k \in calls : GoesOn(j, k),
           \A j \in calls' : j.stage \in {"sent", "handling"} => j.to # j.from,
           \A i, j \in calls' : i.awaited /\ j.awaited /\ i.from = j.from => i = j,
           \A i, j \in calls' : j.c # None /\ i.c = j.c => i = j,
           \A p \in 1 .. Len(log') : log'[p].head # None => log'[p].head \in blobs,
           \A j \in calls' : j.c # None => \A p \in 1 .. Len(log') : log'[p].head # j.c,
           \A m \in Node : w'[m].c # None => \A p \in 1 .. Len(log') : log'[p].head = w'[m].c =>
              w'[m].pc = "settle" /\ w'[m].result \in {"Ok", "Raft"}
    PROVE  HistInv'
<1>1. LogInv'
  BY DEF LogInv
<1>2. \A m \in Node : w'[m] \in Task /\ w[m] \in Task
  BY HistFacts DEF LayerInv, WorkerTypeOK
<1>3. \A m \in Node : w'[m].c = w[m].c /\ (w[m].pc # "wait" => w'[m] = w[m])
  BY DEF Hears
<1>4. NodesInv'
  <2>1. ASSUME NEW m \in Node
        PROVE  NodeOK(log', applied'[m], w'[m], cache'[m], stash'[m])
    <3>1. CASE w'[m] = w[m]
      BY <3>1
    <3>2. CASE Hears(m)
      <4>1. /\ w[m].pc = "wait" /\ w'[m].pc = "settle" /\ w'[m].c = w[m].c
            /\ w'[m].id = w[m].id /\ w'[m].body = w[m].body /\ w'[m].done = w[m].done
            /\ AnswerOK(log', w'[m])
        BY <3>2 DEF Hears, Keeps
      <4>2. Busy(w[m])
        BY <4>1 DEF Busy
      <4>3. w'[m].c = None => w'[m].body = "malformed"
        BY <4>1 DEF NodeOK, EntryOK
      <4>4. NodeOK(log', applied'[m], w[m], cache'[m], stash'[m])
        OBVIOUS
      <4> QED
        BY <1>2, <4>1, <4>2, <4>3, <4>4, NodeMoves
    <3> QED
      BY <3>1, <3>2
  <2> QED
    BY <2>1 DEF NodesInv
<1>5. CallsInv'
  <2>1. ASSUME NEW j \in calls'
        PROVE  CallOK(log', j) /\ AwaitOK(log'[applied'[j.from]], w'[j.from], j)
    <3>1. PICK k \in calls : GoesOn(j, k)
      OBVIOUS
    <3>2. CallOK(log', k) /\ AwaitOK(log'[applied'[k.from]], w[k.from], k)
      OBVIOUS
    <3>3. CallOK(log', j)
      BY <3>1, <3>2 DEF CallOK, GoesOn
    <3>4. AwaitOK(log'[applied'[j.from]], w'[j.from], j)
      BY <3>1, <3>2 DEF AwaitOK, GoesOn
    <3> QED
      BY <3>3, <3>4
  <2> QED
    BY <2>1 DEF CallsInv
<1>6. BlobInv'
  <2>1. BlobInv
    BY DEF HistInv
  <2>2. \A j \in calls' : j.c # None => j.c \in blobs
    BY <2>1 DEF BlobInv, GoesOn
  <2>3. \A m \in Node : w'[m].c # None => w'[m].c \in blobs
    BY <1>3, <2>1 DEF BlobInv
  <2>4. \A m, r \in Node : w'[m].c # None /\ w'[m].c = w'[r].c => m = r
    BY <1>3, <2>1 DEF BlobInv
  <2>5. ASSUME NEW m \in Node, NEW j \in calls', w'[m].c # None /\ j.c = w'[m].c
        PROVE  j.from = m /\ (j.awaited \/ (w'[m].pc = "settle" /\ w'[m].result = "Raft"))
    <3>1. PICK k \in calls : GoesOn(j, k)
      OBVIOUS
    <3>2. k.from = m /\ (k.awaited \/ (w[m].pc = "settle" /\ w[m].result = "Raft"))
      <4>1. w[m].c # None /\ k.c = w[m].c
        BY <1>3, <2>5, <3>1 DEF GoesOn
      <4> QED
        BY <2>1, <4>1 DEF BlobInv
    <3>3. CASE j.awaited
      BY <3>1, <3>2, <3>3 DEF GoesOn
    <3>4. CASE ~j.awaited /\ ~k.awaited
      BY <1>3, <3>1, <3>2, <3>4 DEF GoesOn
    <3>5. CASE ~j.awaited /\ k.awaited
      BY <3>1, <3>2, <3>5 DEF GoesOn
    <3> QED
      BY <3>3, <3>4, <3>5
  <2> QED
    BY <2>2, <2>3, <2>4, <2>5 DEF BlobInv
<1>7. CalmInv'
  <2>1. \A j \in calls' : j.from \in owned
    BY DEF HistInv, CalmInv, GoesOn
  <2>2. \A m \in Node : w'[m].pc # "none" => m \in owned
    BY HistFacts DEF Hears
  <2> QED
    BY <2>1, <2>2 DEF CalmInv
<1> QED
  BY <1>1, <1>4, <1>5, <1>6, <1>7 DEF HistInv

\* The task and the calls stay.
LEMMA CallsGoOn ==
    ASSUME HistInv, UNCHANGED <<w, calls>>
    PROVE  /\ \A m \in Node : w'[m] = w[m]
           /\ \A j \in calls' : \E k \in calls : GoesOn(j, k)
           /\ \A j \in calls' : j.stage \in {"sent", "handling"} => j.to # j.from
           /\ \A i, j \in calls' : i.awaited /\ j.awaited /\ i.from = j.from => i = j
           /\ \A i, j \in calls' : j.c # None /\ i.c = j.c => i = j
<1>1. \A j \in calls : GoesOn(j, j)
  BY DEF GoesOn
<1> QED
  BY <1>1 DEF HistInv, CalmInv, CallsInv, BlobInv

\* No new heads.
LEMMA HeadsStay ==
    ASSUME HistInv, NEW L,
           \A p \in 1 .. Len(L) : \E q \in 1 .. Len(log) : L[p].head = log[q].head
    PROVE  /\ \A p \in 1 .. Len(L) : L[p].head # None => L[p].head \in blobs
           /\ \A j \in calls : j.c # None => \A p \in 1 .. Len(L) : L[p].head # j.c
           /\ \A m \in Node : w[m].c # None => \A p \in 1 .. Len(L) : L[p].head = w[m].c =>
                 w[m].pc = "settle" /\ w[m].result \in {"Ok", "Raft"}
<1>1. BlobInv
  BY DEF HistInv
<1>2. \A p \in 1 .. Len(L) : L[p].head # None => L[p].head \in blobs
  BY <1>1 DEF BlobInv
<1>3. \A j \in calls : j.c # None => \A p \in 1 .. Len(L) : L[p].head # j.c
  BY <1>1 DEF BlobInv
<1>4. ASSUME NEW m \in Node, w[m].c # None, NEW p \in 1 .. Len(L), L[p].head = w[m].c
      PROVE  w[m].pc = "settle" /\ w[m].result \in {"Ok", "Raft"}
  <2>1. PICK q \in 1 .. Len(log) : L[p].head = log[q].head
    OBVIOUS
  <2> QED
    BY <1>1, <1>4, <2>1 DEF BlobInv
<1> QED
  BY <1>2, <1>3, <1>4

\* The stash matters to a task that is about to publish.
LEMMA NodeStash ==
    ASSUME NEW l, NEW a, NEW t, NEW h, NEW st, NodeOK(l, a, t, h, st),
           NEW su, t.pc = "publish" => st \subseteq su
    PROVE  NodeOK(l, a, t, h, su)
BY DEF NodeOK, GuardOK

\* One more change, which the leader applies at once.
LEMMA GrowthHist ==
    ASSUME HistInv, NEW e \in Change, log' = Append(log, e), LogOK(log'),
           applied' = [applied EXCEPT ![leader] = Len(log')],
           \A m \in Node : m # leader /\ w[m].pc = "publish" => stash[m] \subseteq stash'[m],
           stash[leader] \ e.taken \subseteq stash'[leader]
    PROVE  /\ Len(log') = Len(log) + 1 /\ log'[Len(log')] = e
           /\ \A p \in 1 .. Len(log) : log'[p] = log[p]
           /\ \A m \in Node : NodeOK(log', applied'[m], w[m], cache[m], stash'[m])
           /\ \A k \in calls : CallOK(log', k) /\ AwaitOK(log'[applied'[k.from]], w[k.from], k)
           /\ \A m \in Node : applied'[m] \in 1 .. Len(log') /\ applied[m] <= applied'[m]
<1>0. /\ LogOK(log) /\ leader \in Node /\ applied[leader] = Len(log)
      /\ applied \in [Node -> 1 .. Len(log)]
  BY HistFacts DEF WorkerTypeOK
<1>1. log \in Seq(Change) /\ Len(log) \in Nat
  BY <1>0, LogFacts DEF LogOK
<1>2. /\ Len(log') = Len(log) + 1 /\ log'[Len(log')] = e
      /\ \A p \in 1 .. Len(log) : log'[p] = log[p]
  BY <1>1
<1>3. Longer(log, log')
  BY <1>1, <1>2 DEF Longer
<1>4. ASSUME NEW m \in Node
      PROVE  /\ applied'[m] \in 1 .. Len(log') /\ applied[m] \in 1 .. Len(log)
             /\ applied[m] \in 1 .. Len(log')
             /\ applied'[m] = IF m = leader THEN applied[m] + 1 ELSE applied[m]
             /\ applied[m] <= applied'[m]
  <2>1. applied'[m] = IF m = leader THEN Len(log') ELSE applied[m]
    BY <1>0
  <2>2. applied[m] \in 1 .. Len(log)
    BY <1>0
  <2> QED
    BY <1>0, <1>1, <1>2, <2>1, <2>2
<1>5. ASSUME NEW m \in Node
      PROVE  NodeOK(log', applied'[m], w[m], cache[m], stash'[m])
  <2>1. /\ w[m] \in Task /\ NodeOK(log, applied[m], w[m], cache[m], stash[m])
        /\ cache[m] \in Commit \union {None} /\ (w[m].pc = "publish" => w[m].c # None)
    BY HistFacts
  <2>2. NodeOK(log', applied[m], w[m], cache[m], stash[m])
    BY <1>0, <1>3, <1>4, <2>1, NodeGrows
  <2>3. CASE m = leader
    <3>1. PICK a \in 1 .. Len(log') : a = applied[m]
      BY <1>4
    <3>2. a + 1 \in 1 .. Len(log') /\ log'[a + 1] = e /\ applied'[m] = a + 1
      BY <1>0, <1>1, <1>2, <1>4, <2>3, <3>1
    <3>3. NodeOK(log', a, w[m], cache[m], stash[m])
      BY <2>2, <3>1
    <3>4. stash[m] \ log'[a + 1].taken \subseteq stash'[m]
      BY <2>3, <3>2
    <3>5. NodeOK(log', a + 1, w[m], cache[m], stash'[m])
      BY <2>1, <3>2, <3>3, <3>4, NodeAdvances
    <3> QED
      BY <3>2, <3>5
  <2>4. CASE m # leader
    <3>1. applied'[m] = applied[m]
      BY <1>4, <2>4
    <3> QED
      BY <2>2, <2>4, <3>1, NodeStash
  <2> QED
    BY <2>3, <2>4
<1>6. ASSUME NEW k \in calls
      PROVE  CallOK(log', k) /\ AwaitOK(log'[applied'[k.from]], w[k.from], k)
  <2>1. /\ k \in Call /\ k.from \in Node /\ (k.kind = "head" => k.c \in Commit)
        /\ (k.kind = "head" => k.c # None) /\ CallOK(log, k) /\ w[k.from] \in Task
        /\ AwaitOK(log[applied[k.from]], w[k.from], k)
    BY HistFacts
  <2>2. CallOK(log', k)
    BY <1>0, <1>3, <2>1, CallGrows
  <2>31. PICK a \in 1 .. Len(log) : a = applied[k.from] /\ a \in 1 .. Len(log')
    BY <1>4, <2>1
  <2>32. PICK b \in 1 .. Len(log') : b = applied'[k.from] /\ a <= b
    BY <1>4, <2>1, <2>31
  <2>3. PICK v \in Change : v = log[a] /\ v = log'[a]
    BY <1>0, <1>2, LogFacts
  <2>4. PICK u \in Change : u = log'[b]
    BY LogFacts
  <2>5. Before(v, u)
    BY <2>31, <2>32, <2>3, <2>4, LogFacts
  <2>6. AwaitOK(u, w[k.from], k)
    BY <2>1, <2>31, <2>3, <2>4, <2>5, AwaitStays
  <2> QED
    BY <2>2, <2>32, <2>4, <2>6
<1> QED
  BY <1>2, <1>4, <1>5, <1>6

\* A submission is accepted.
LEMMA SubmitHist ==
    ASSUME Regime, HistInv, LayerInv', NEW body \in Body, Submit(body)
    PROVE  HistInv'
<1>0. /\ LogOK(log) /\ LayerInv /\ LastInv /\ TypeOK /\ leader \in Node /\ main \in Branch
      /\ UNCHANGED <<refs, retracted, leader, owned, w, cache, stash, calls, blobs>>
      /\ recently_cleared'[main] = None /\ retracted = {}
  <2>1. body # "push"
    BY DEF Regime
  <2>2. LogOK(log) /\ LayerInv /\ LastInv /\ TypeOK /\ leader \in Node /\ main \in Branch
    BY HistFacts, WorkerConstants DEF HistInv, LayerInv
  <2>3. recently_cleared' = [recently_cleared EXCEPT ![main] = None] /\ UNCHANGED registryVars
    BY DEF Submit, apply_enqueue_command
  <2>4. recently_cleared'[main] = None
    BY <2>2, <2>3 DEF TypeOK
  <2>5. UNCHANGED <<refs, retracted>>
    BY <2>3 DEF registryVars
  <2>6. UNCHANGED <<leader, owned, w, cache, stash, calls, blobs>>
    BY <2>1 DEF Submit
  <2> QED
    BY <2>2, <2>4, <2>5, <2>6 DEF HistInv, CalmInv
<1> DEFINE x == [queue_id |-> next_queue_id, key |-> None, body |-> body]
           e == [queue |-> queues'[main], head |-> HeadOf(refs'),
                 next |-> next_queue_id', taken |-> {}]
<1>1. /\ log' = Append(log, e) /\ applied' = [applied EXCEPT ![leader] = Len(log')]
  BY DEF Submit, Committed
<1>2. PICK d \in Change : /\ d = log[Len(log)] /\ d.queue = queues[main]
                          /\ d.head = HeadOf(refs) /\ d.next = next_queue_id
                          /\ Shape(d) /\ InOrder(d)
  BY <1>0, LogFacts DEF LastInv
<1>3. queues'[main] = Append(queues[main], x) /\ next_queue_id' = next_queue_id + 1
  BY <1>0 DEF Submit, apply_enqueue_command, TypeOK
<1>4. e \in Change /\ Len(log') = Len(log) + 1
  <2>1. log' \in Seq(Change) /\ log \in Seq(Change) /\ Len(log) \in Nat
    BY <1>0, LogFacts DEF LayerInv, WorkerTypeOK, LogOK
  <2>2. Len(log') = Len(log) + 1 /\ log'[Len(log) + 1] = e
    BY <1>1, <2>1
  <2> QED
    BY <2>1, <2>2
<1>5. x \in QueueEntry
  <2>1. next_queue_id \in Nat
    BY <1>0, WorkerConstants DEF TypeOK
  <2> QED
    BY <2>1 DEF QueueEntry
<1>6. /\ e.queue = Append(d.queue, x) /\ e.head = d.head /\ e.next = d.next + 1 /\ e.taken = {}
      /\ x.queue_id = d.next
  BY <1>0, <1>2, <1>3 DEF HeadOf
<1> HIDE DEF x, e
<1>7. Shape(e) /\ InOrder(e) /\ Before(d, e) /\ Takes(d, e)
  BY <1>2, <1>4, <1>5, <1>6, EnqueueChange
<1>8. LogOK(log')
  <2>1. e.head # None => \A i \in 1 .. Len(e.head) : \E r \in 1 .. Len(log) :
                            log[r].head \in {SubSeq(e.head, 1, i)} \ {None}
    <3>1. Len(log) \in 1 .. Len(log) /\ e.head = log[Len(log)].head
      BY <1>0, <1>2, <1>6, LogFacts
    <3> QED
      BY <1>0, <3>1 DEF LogOK
  <2>2. LogOK(Append(log, e))
    BY <1>0, <1>2, <1>4, <1>7, <2>1, LogGrows
  <2> QED
    BY <1>1, <2>2
<1>9. /\ Len(log') = Len(log) + 1 /\ log'[Len(log')] = e
      /\ \A p \in 1 .. Len(log) : log'[p] = log[p]
      /\ \A m \in Node : NodeOK(log', applied'[m], w[m], cache[m], stash'[m])
      /\ \A k \in calls : CallOK(log', k) /\ AwaitOK(log'[applied'[k.from]], w[k.from], k)
  BY <1>0, <1>1, <1>4, <1>8, GrowthHist
<1>10. ASSUME NEW p \in 1 .. Len(log')
       PROVE  \E q \in 1 .. Len(log) : log'[p].head = log[q].head
  <2>1. Len(log) \in Nat /\ Len(log) \in 1 .. Len(log)
    BY <1>0, LogFacts
  <2>2. CASE p = Len(log')
    <3>1. log'[p].head = log[Len(log)].head
      BY <1>2, <1>6, <1>9, <2>2
    <3> QED
      BY <2>1, <3>1
  <2>3. CASE p # Len(log')
    <3>1. p \in 1 .. Len(log)
      BY <1>9, <2>1, <2>3
    <3> QED
      BY <1>9, <3>1
  <2> QED
    BY <2>2, <2>3
<1>11. /\ \A p \in 1 .. Len(log') : log'[p].head # None => log'[p].head \in blobs
       /\ \A j \in calls : j.c # None => \A p \in 1 .. Len(log') : log'[p].head # j.c
       /\ \A m \in Node : w[m].c # None => \A p \in 1 .. Len(log') : log'[p].head = w[m].c =>
             w[m].pc = "settle" /\ w[m].result \in {"Ok", "Raft"}
  BY <1>10, HeadsStay
<1> QED
  BY <1>0, <1>8, <1>9, <1>11, CallsGoOn, OuterHist

\* The apply loop of another node moves on.
LEMMA CatchUpHist ==
    ASSUME HistInv, LayerInv', NEW n \in Node, CatchUp(n)
    PROVE  HistInv'
<1>0. /\ LogOK(log) /\ applied \in [Node -> 1 .. Len(log)] /\ stash \in [Node -> SUBSET Ids]
      /\ UNCHANGED <<vars, log, owned, w, cache, calls, blobs>>
      /\ recently_cleared[main] = None /\ retracted = {}
  BY HistFacts DEF CatchUp, WorkerTypeOK, HistInv, CalmInv
<1>1. PICK a \in 1 .. Len(log) : a = applied[n]
  BY <1>0
<1>2. a + 1 \in 1 .. Len(log) /\ applied'[n] = a + 1 /\ stash'[n] = stash[n] \ log[a + 1].taken
  <2>1. Len(log) \in Nat /\ a < Len(log)
    BY <1>0, <1>1, LogFacts DEF CatchUp
  <2>2. a + 1 \in 1 .. Len(log)
    BY <2>1
  <2> QED
    BY <1>0, <1>1, <2>2 DEF CatchUp
<1>3. \A m \in Node : m # n => applied'[m] = applied[m] /\ stash'[m] = stash[m]
  BY <1>0 DEF CatchUp
<1>4. ASSUME NEW m \in Node
      PROVE  NodeOK(log', applied'[m], w[m], cache'[m], stash'[m])
  <2>1. /\ w[m] \in Task /\ NodeOK(log, applied[m], w[m], cache[m], stash[m])
        /\ cache[m] \in Commit \union {None} /\ (w[m].pc = "publish" => w[m].c # None)
    BY HistFacts
  <2>2. CASE m = n
    <3>1. NodeOK(log, a, w[m], cache[m], stash[m]) /\ stash[m] \ log[a + 1].taken \subseteq stash'[m]
      BY <1>1, <1>2, <2>1, <2>2
    <3>2. NodeOK(log, a + 1, w[m], cache[m], stash'[m])
      BY <1>0, <1>2, <2>1, <3>1, NodeAdvances
    <3> QED
      BY <1>0, <1>2, <2>2, <3>2
  <2>3. CASE m # n
    BY <1>0, <1>3, <2>1, <2>3
  <2> QED
    BY <2>2, <2>3
<1>5. ASSUME NEW k \in calls
      PROVE  CallOK(log', k) /\ AwaitOK(log'[applied'[k.from]], w[k.from], k)
  <2>1. /\ k \in Call /\ k.from \in Node /\ (k.kind = "head" => k.c # None) /\ CallOK(log, k)
        /\ w[k.from] \in Task /\ AwaitOK(log[applied[k.from]], w[k.from], k)
    BY HistFacts
  <2>2. CASE k.from = n
    <3>1. log[a] \in Change /\ log[a + 1] \in Change /\ Before(log[a], log[a + 1])
      BY <1>0, <1>2, LogFacts
    <3>2. AwaitOK(log[a], w[n], k) /\ w[n] \in Task
      BY <1>1, <2>1, <2>2
    <3>3. AwaitOK(log[a + 1], w[n], k)
      BY <2>1, <3>1, <3>2, AwaitStays
    <3> QED
      BY <1>0, <1>2, <2>1, <2>2, <3>3
  <2>3. CASE k.from # n
    BY <1>0, <1>3, <2>1, <2>3
  <2> QED
    BY <2>2, <2>3
<1>6. /\ \A p \in 1 .. Len(log') : log'[p].head # None => log'[p].head \in blobs
      /\ \A j \in calls : j.c # None => \A p \in 1 .. Len(log') : log'[p].head # j.c
      /\ \A m \in Node : w[m].c # None => \A p \in 1 .. Len(log') : log'[p].head = w[m].c =>
            w[m].pc = "settle" /\ w[m].result \in {"Ok", "Raft"}
  BY <1>0, HeadsStay
<1>7. LogOK(log') /\ recently_cleared'[main] = None /\ retracted' = {} /\ UNCHANGED <<w, calls>>
  BY <1>0 DEF vars
<1> QED
  BY <1>0, <1>4, <1>5, <1>6, <1>7, CallsGoOn, OuterHist

\* The listener refreshes the handle.
LEMMA ListenerHist ==
    ASSUME HistInv, LayerInv', NEW n \in Node, ListenerRefresh(n)
    PROVE  HistInv'
<1>0. /\ LogOK(log) /\ cache \in [Node -> Commit \union {None}]
      /\ UNCHANGED <<vars, log, applied, owned, w, stash, calls, blobs>>
      /\ recently_cleared[main] = None /\ retracted = {}
      /\ cache' = [cache EXCEPT ![n] = Refreshed(n)]
  BY HistFacts DEF ListenerRefresh, WorkerTypeOK, HistInv, CalmInv
<1>1. ASSUME NEW m \in Node
      PROVE  NodeOK(log', applied'[m], w[m], cache'[m], stash'[m])
  <2>1. NodeOK(log, applied[m], w[m], cache[m], stash[m]) /\ applied[m] \in 1 .. Len(log)
    BY HistFacts
  <2>2. CASE m = n
    <3>1. HandleOK(log, applied[m], w[m], Refreshed(m))
      BY <1>0, <2>1, HandleRefreshes DEF Refreshed, ViewHead, NodeOK
    <3>2. NodeOK(log, applied[m], w[m], Refreshed(m), stash[m])
      BY <2>1, <3>1 DEF NodeOK
    <3> QED
      BY <1>0, <2>2, <3>2
  <2>3. CASE m # n
    BY <1>0, <2>1, <2>3
  <2> QED
    BY <2>2, <2>3
<1>2. \A k \in calls : CallOK(log', k) /\ AwaitOK(log'[applied'[k.from]], w[k.from], k)
  BY <1>0, HistFacts
<1>3. /\ \A p \in 1 .. Len(log') : log'[p].head # None => log'[p].head \in blobs
      /\ \A j \in calls : j.c # None => \A p \in 1 .. Len(log') : log'[p].head # j.c
      /\ \A m \in Node : w[m].c # None => \A p \in 1 .. Len(log') : log'[p].head = w[m].c =>
            w[m].pc = "settle" /\ w[m].result \in {"Ok", "Raft"}
  BY <1>0, HeadsStay
<1>4. LogOK(log') /\ recently_cleared'[main] = None /\ retracted' = {} /\ UNCHANGED <<w, calls>>
  BY <1>0 DEF vars
<1> QED
  BY <1>0, <1>1, <1>2, <1>3, <1>4, CallsGoOn, OuterHist

\* A step of calls over a log that stays.
LEMMA CallStepHist ==
    ASSUME HistInv, LayerInv', UNCHANGED <<log, applied, owned, cache, blobs>>,
           recently_cleared'[main] = None, retracted' = {},
           \A m \in Node : w'[m] = w[m] \/ Hears(m),
           \A m \in Node : w[m].pc = "publish" => stash[m] \subseteq stash'[m],
           \A j \in calls' : \E k \in calls : GoesOn(j, k),
           \A j \in calls' : j.stage \in {"sent", "handling"} => j.to # j.from,
           \A i, j \in calls' : i.awaited /\ j.awaited /\ i.from = j.from => i = j,
           \A i, j \in calls' : j.c # None /\ i.c = j.c => i = j
    PROVE  HistInv'
<1>1. LogOK(log') /\ \A k \in calls : CallOK(log', k) /\ AwaitOK(log'[applied'[k.from]], w[k.from], k)
  BY HistFacts
<1>2. \A m \in Node : NodeOK(log', applied'[m], w[m], cache'[m], stash'[m])
  BY HistFacts, NodeStash
<1>3. BlobInv
  BY DEF HistInv
<1>4. \A p \in 1 .. Len(log') : log'[p].head # None => log'[p].head \in blobs
  BY <1>3 DEF BlobInv
<1>5. ASSUME NEW j \in calls', j.c # None, NEW p \in 1 .. Len(log')
      PROVE  log'[p].head # j.c
  <2>1. PICK k \in calls : k.c = j.c
    BY DEF GoesOn
  <2> QED
    BY <1>3, <1>5, <2>1 DEF BlobInv
<1>6. ASSUME NEW m \in Node, w'[m].c # None, NEW p \in 1 .. Len(log'), log'[p].head = w'[m].c
      PROVE  w'[m].pc = "settle" /\ w'[m].result \in {"Ok", "Raft"}
  <2>1. w'[m].c = w[m].c
    BY DEF Hears
  <2>2. w[m].pc = "settle" /\ w[m].result \in {"Ok", "Raft"}
    BY <1>3, <1>6, <2>1 DEF BlobInv
  <2> QED
    BY <2>2 DEF Hears
<1> QED
  BY <1>1, <1>2, <1>4, <1>5, <1>6, OuterHist

\* One call ends or goes on, and its task may hear of it.
LEMMA OneCall ==
    ASSUME HistInv, NEW k \in calls, NEW K, calls' = (calls \ {k}) \union K,
           \A h \in K : GoesOn(h, k) /\ (h.stage \in {"sent", "handling"} => h.to # h.from),
           \A h, j \in K : h = j,
           OnlyTask(k.from), w'[k.from] = w[k.from] \/ (k.awaited /\ Hears(k.from))
    PROVE  /\ \A m \in Node : w'[m] = w[m] \/ Hears(m)
           /\ \A j \in calls' : \E i \in calls : GoesOn(j, i)
           /\ \A j \in calls' : j.stage \in {"sent", "handling"} => j.to # j.from
           /\ \A i, j \in calls' : i.awaited /\ j.awaited /\ i.from = j.from => i = j
           /\ \A i, j \in calls' : j.c # None /\ i.c = j.c => i = j
<1>0. /\ k.from \in Node
      /\ \A i, j \in calls : i.awaited /\ j.awaited /\ i.from = j.from => i = j
      /\ \A i, j \in calls : j.c # None /\ i.c = j.c => i = j
      /\ \A j \in calls : j.from \in Node /\ (j.stage \in {"sent", "handling"} => j.to # j.from)
  BY HistFacts DEF HistInv, CallsInv, BlobInv, CalmInv
<1>1. \A m \in Node : w'[m] = w[m] \/ Hears(m)
  BY DEF OnlyTask
<1>2. ASSUME NEW j \in calls, j # k
      PROVE  GoesOn(j, j)
  <2>1. j.awaited => w'[j.from] = w[j.from]
    <3>1. CASE j.from = k.from
      BY <1>0, <1>2, <3>1
    <3>2. CASE j.from # k.from
      BY <1>0, <3>2 DEF OnlyTask
    <3> QED
      BY <3>1, <3>2
  <2> QED
    BY <2>1 DEF GoesOn
<1>3. \A j \in calls' : \E i \in calls : GoesOn(j, i)
  BY <1>2
<1>4. \A j \in calls' : j.stage \in {"sent", "handling"} => j.to # j.from
  BY <1>0
<1>5. \A h \in K : h.from = k.from /\ h.c = k.c /\ (h.awaited => k.awaited)
  BY DEF GoesOn
<1>6. \A i, j \in calls' : i.awaited /\ j.awaited /\ i.from = j.from => i = j
  BY <1>0, <1>5
<1>7. \A i, j \in calls' : j.c # None /\ i.c = j.c => i = j
  BY <1>0, <1>5
<1> QED
  BY <1>1, <1>3, <1>4, <1>6, <1>7

\* The task of an awaited call hears an answer it may act on.
LEMMA AnswerHears ==
    ASSUME HistInv, NEW k \in calls, NEW r \in {"Ok", "Stale", "Lagged", "Raft"},
           w' = Answer(k, r), k.awaited => AnswerOK(log', w'[k.from])
    PROVE  /\ OnlyTask(k.from) /\ (w'[k.from] = w[k.from] \/ (k.awaited /\ Hears(k.from)))
           /\ k.awaited => w'[k.from].pc = "settle" /\ w'[k.from].result = r
           /\ ~k.awaited => w' = w
<1>1. k \in Call /\ WorkerTypeOK
  BY HistFacts
<1>2. /\ OnlyTask(k.from) /\ Keeps(k.from) /\ w'[k.from].c = w[k.from].c
      /\ k.awaited => w'[k.from].pc = "settle" /\ w'[k.from].result = r
      /\ ~k.awaited => w' = w
  BY <1>1, AnswerMoves
<1>3. k.awaited => w[k.from].pc = "wait"
  BY HistFacts DEF AwaitOK
<1> QED
  BY <1>2, <1>3 DEF Hears

\* An answer without news is always one it may act on.
LEMMA EmptyAnswer ==
    ASSUME HistInv, NEW k \in calls, NEW r \in {"Lagged", "Raft"}, w' = Answer(k, r),
           LogOK(log'), Longer(log, log')
    PROVE  AnswerOK(log', w'[k.from])
<1>1. k \in Call /\ WorkerTypeOK /\ LogOK(log) /\ k.from \in Node /\ w[k.from] \in Task
      /\ AnswerOK(log, w[k.from])
  BY HistFacts DEF NodeOK
<1>2. /\ Keeps(k.from)
      /\ k.awaited => w'[k.from].pc = "settle" /\ w'[k.from].result = r
      /\ ~k.awaited => w' = w
  BY <1>1, AnswerMoves
<1>3. AnswerOK(log', w[k.from])
  BY <1>1, AnswerGrows
<1>4. CASE k.awaited
  <2>1. w'[k.from].done = w[k.from].done /\ w'[k.from].result \in {"Lagged", "Raft"}
    BY <1>2, <1>4 DEF Keeps
  <2> QED
    BY <1>3, <2>1, NoAnswer
<1>5. CASE ~k.awaited
  BY <1>2, <1>3, <1>5
<1> QED
  BY <1>4, <1>5

\* A leader that handles a call of another node runs no task.
LEMMA HandlerIsNoOwner ==
    ASSUME Regime, HistInv, NEW k \in calls, k.stage = "handling"
    PROVE  k.to = leader /\ w[leader].pc = "none"
<1>1. k.from \in owned /\ k.to # k.from /\ k.to = leader
  BY HistFacts DEF HistInv, CalmInv
<1>2. leader \in Candidate /\ owned \subseteq Owner /\ leader \in Node
  BY HistFacts DEF WorkerTypeOK
<1>3. leader \notin owned
  BY <1>1, <1>2 DEF Regime
<1> QED
  BY <1>1, <1>2, <1>3, HistFacts

LEMMA LogStays ==
    ASSUME HistInv, log' = log
    PROVE  LogOK(log') /\ Longer(log, log')
BY HistFacts, LogFacts DEF Longer

\* The handler of a ferry refuses it or takes it in.
LEMMA HandlerHist ==
    ASSUME Regime, HistInv, LayerInv', NEW k \in calls, apply_staged_commit(k)
    PROVE  HistInv'
<1>0. /\ k \in Call /\ k.stage = "sent" /\ k.from \in Node /\ k.to # k.from
      /\ WorkerTypeOK /\ leader \in Node
      /\ UNCHANGED <<vars, log, applied, owned, cache, blobs>>
      /\ recently_cleared[main] = None /\ retracted = {}
  BY HistFacts DEF apply_staged_commit, HistInv, CalmInv
<1>1. recently_cleared'[main] = None /\ retracted' = {}
  BY <1>0 DEF vars
<1>2. LogOK(log') /\ Longer(log, log')
  BY <1>0, LogStays
<1>3. ASSUME NEW r \in {"Lagged", "Raft"}, calls' = calls \ {k}, w' = Answer(k, r), stash' = stash
      PROVE  HistInv'
  <2>1. AnswerOK(log', w'[k.from])
    BY <1>2, <1>3, EmptyAnswer
  <2>2. OnlyTask(k.from) /\ (w'[k.from] = w[k.from] \/ (k.awaited /\ Hears(k.from)))
    BY <1>3, <2>1, AnswerHears
  <2>31. PICK K : K = {}
    OBVIOUS
  <2>3. calls' = (calls \ {k}) \union K
    BY <1>3, <2>31
  <2>4. /\ \A m \in Node : w'[m] = w[m] \/ Hears(m)
        /\ \A j \in calls' : \E i \in calls : GoesOn(j, i)
        /\ \A j \in calls' : j.stage \in {"sent", "handling"} => j.to # j.from
        /\ \A i, j \in calls' : i.awaited /\ j.awaited /\ i.from = j.from => i = j
        /\ \A i, j \in calls' : j.c # None /\ i.c = j.c => i = j
    BY <2>2, <2>31, <2>3, OneCall
  <2> QED
    BY <1>0, <1>1, <1>3, <2>4, CallStepHist
<1>4. ASSUME calls' = (calls \ {k}) \union {[k EXCEPT !.stage = "handling"]},
             stash' = IF k.kind = "head" THEN [stash EXCEPT ![leader] = @ \union {k.id}] ELSE stash,
             w' = w
      PROVE  HistInv'
  <2> DEFINE h == [k EXCEPT !.stage = "handling"]
  <2>1. /\ h.from = k.from /\ h.to = k.to /\ h.kind = k.kind /\ h.id = k.id /\ h.c = k.c
        /\ h.awaited = k.awaited
    BY <1>0 DEF Call
  <2>2. calls' = (calls \ {k}) \union {h}
    BY <1>4
  <2> HIDE DEF h
  <2>3. PICK K : K = {h}
    OBVIOUS
  <2>31. GoesOn(h, k) /\ h.to # h.from
    BY <1>0, <1>4, <2>1 DEF GoesOn
  <2>32. /\ calls' = (calls \ {k}) \union K /\ \A x, y \in K : x = y
         /\ \A x \in K : GoesOn(x, k) /\ (x.stage \in {"sent", "handling"} => x.to # x.from)
    BY <2>2, <2>3, <2>31
  <2>4. OnlyTask(k.from) /\ w'[k.from] = w[k.from]
    BY <1>0, <1>4 DEF OnlyTask, WorkerTypeOK
  <2>5. /\ \A m \in Node : w'[m] = w[m] \/ Hears(m)
        /\ \A j \in calls' : \E i \in calls : GoesOn(j, i)
        /\ \A j \in calls' : j.stage \in {"sent", "handling"} => j.to # j.from
        /\ \A i, j \in calls' : i.awaited /\ j.awaited /\ i.from = j.from => i = j
        /\ \A i, j \in calls' : j.c # None /\ i.c = j.c => i = j
    BY <2>32, <2>4, OneCall
  <2>6. \A m \in Node : stash[m] \subseteq stash'[m]
    BY <1>0, <1>4 DEF WorkerTypeOK
  <2> QED
    BY <1>0, <1>1, <2>5, <2>6, CallStepHist
<1> QED
  BY <1>3, <1>4 DEF apply_staged_commit

\* An answer or an attempt is lost.
LEMMA LossHist ==
    ASSUME Regime, HistInv, LayerInv', NEW k \in calls, LoseAnswer(k) \/ LoseCall(k)
    PROVE  HistInv'
<1>0. /\ k \in Call /\ k.from \in Node /\ (k.stage \in {"sent", "handling"} => k.to # k.from)
      /\ WorkerTypeOK /\ leader \in Node
      /\ UNCHANGED <<vars, log, applied, owned, cache, blobs>>
      /\ recently_cleared[main] = None /\ retracted = {}
  BY HistFacts DEF LoseAnswer, LoseCall, HistInv, CalmInv
<1>1. recently_cleared'[main] = None /\ retracted' = {}
  BY <1>0 DEF vars
<1>2. LogOK(log') /\ Longer(log, log')
  BY <1>0, LogStays
<1>3. CASE LoseAnswer(k)
  <2> DEFINE h == [k EXCEPT !.awaited = FALSE]
  <2>1. k.awaited /\ w' = Answer(k, "Raft") /\ stash' = stash
    BY <1>3 DEF LoseAnswer
  <2>2. /\ h.from = k.from /\ h.to = k.to /\ h.kind = k.kind /\ h.id = k.id /\ h.c = k.c
        /\ ~h.awaited /\ h.stage = k.stage
    BY <1>0, UnawaitedFacts
  <2>3. calls' = (calls \ {k}) \union {h}
    BY <1>3 DEF LoseAnswer
  <2> HIDE DEF h
  <2>4. AnswerOK(log', w'[k.from])
    BY <1>2, <2>1, EmptyAnswer
  <2>5. /\ OnlyTask(k.from) /\ (w'[k.from] = w[k.from] \/ (k.awaited /\ Hears(k.from)))
        /\ w'[k.from].pc = "settle" /\ w'[k.from].result = "Raft"
    BY <2>1, <2>4, AnswerHears
  <2>6. GoesOn(h, k) /\ (h.stage \in {"sent", "handling"} => h.to # h.from)
    BY <1>0, <2>2, <2>5 DEF GoesOn
  <2>61. PICK K : K = {h}
    OBVIOUS
  <2>62. /\ calls' = (calls \ {k}) \union K /\ \A x, y \in K : x = y
         /\ \A x \in K : GoesOn(x, k) /\ (x.stage \in {"sent", "handling"} => x.to # x.from)
    BY <2>3, <2>6, <2>61
  <2>7. /\ \A m \in Node : w'[m] = w[m] \/ Hears(m)
        /\ \A j \in calls' : \E i \in calls : GoesOn(j, i)
        /\ \A j \in calls' : j.stage \in {"sent", "handling"} => j.to # j.from
        /\ \A i, j \in calls' : i.awaited /\ j.awaited /\ i.from = j.from => i = j
        /\ \A i, j \in calls' : j.c # None /\ i.c = j.c => i = j
    BY <2>5, <2>62, OneCall
  <2> QED
    BY <1>0, <1>1, <2>1, <2>7, CallStepHist
<1>4. CASE LoseCall(k)
  <2>0. PICK K : K = {}
    OBVIOUS
  <2>1. w' = w /\ calls' = (calls \ {k}) \union K
    BY <1>4, <2>0 DEF LoseCall
  <2>2. OnlyTask(k.from) /\ w'[k.from] = w[k.from]
    BY <1>0, <2>1 DEF OnlyTask, WorkerTypeOK
  <2>3. /\ \A m \in Node : w'[m] = w[m] \/ Hears(m)
        /\ \A j \in calls' : \E i \in calls : GoesOn(j, i)
        /\ \A j \in calls' : j.stage \in {"sent", "handling"} => j.to # j.from
        /\ \A i, j \in calls' : i.awaited /\ j.awaited /\ i.from = j.from => i = j
        /\ \A i, j \in calls' : j.c # None /\ i.c = j.c => i = j
    BY <2>0, <2>1, <2>2, OneCall
  <2>4. \A m \in Node : w[m].pc = "publish" => stash[m] \subseteq stash'[m]
    <3>1. CASE k.stage = "handling"
      BY <1>0, <1>4, <3>1, HandlerIsNoOwner DEF LoseCall, WorkerTypeOK
    <3>2. CASE k.stage # "handling"
      BY <1>4, <3>2 DEF LoseCall
    <3> QED
      BY <3>1, <3>2
  <2> QED
    BY <1>0, <1>1, <2>3, <2>4, CallStepHist
<1> QED
  BY <1>3, <1>4

\* A leader steps down: its handlers and its proposals go on unheard.
LEMMA ElectionHist ==
    ASSUME Regime, HistInv, LayerInv', NEW n \in Node, ChangeLeader(n)
    PROVE  HistInv'
<1> DEFINE cut == {k \in calls : k.to = leader /\ k.stage \in {"handling", "proposed"}}
           Orphan(k) == [k EXCEPT !.stage = "orphan", !.awaited = FALSE]
           Cut(m) == \E k \in cut : k.from = m /\ k.awaited
<1>0. /\ WorkerTypeOK /\ leader \in Node /\ calls \subseteq Call
      /\ UNCHANGED <<vars, log, applied, owned, cache, blobs>>
      /\ recently_cleared[main] = None /\ retracted = {}
      /\ \A i, j \in calls : i.awaited /\ j.awaited /\ i.from = j.from => i = j
      /\ \A i, j \in calls : j.c # None /\ i.c = j.c => i = j
      /\ \A j \in calls : j.from \in Node /\ (j.stage \in {"sent", "handling"} => j.to # j.from)
  BY HistFacts DEF ChangeLeader, HistInv, CalmInv, CallsInv, BlobInv
<1>1. /\ calls' = (calls \ cut) \union {Orphan(k) : k \in cut}
      /\ w' = [m \in Node |-> IF Cut(m) THEN [w[m] EXCEPT !.pc = "settle", !.result = "Raft"]
                              ELSE w[m]]
      /\ stash' = [stash EXCEPT ![leader] =
                       @ \ {k.id : k \in {j \in cut : j.stage = "handling" /\ j.kind = "head"}}]
  BY DEF ChangeLeader
<1>2. recently_cleared'[main] = None /\ retracted' = {}
  BY <1>0 DEF vars
<1>3. \A k \in cut : k \in calls
  OBVIOUS
<1>4. ASSUME NEW k \in cut
      PROVE  /\ Orphan(k).from = k.from /\ Orphan(k).kind = k.kind /\ Orphan(k).id = k.id
             /\ Orphan(k).c = k.c /\ ~Orphan(k).awaited /\ Orphan(k).stage = "orphan"
  <2>1. k \in Call
    BY <1>0, <1>3
  <2> QED
    BY <2>1 DEF Call
<1>5. ASSUME NEW m \in Node
      PROVE  /\ Cut(m) => /\ w'[m].pc = "settle" /\ w'[m].result = "Raft" /\ w'[m].c = w[m].c
                          /\ Keeps(m) /\ w[m].pc = "wait"
             /\ ~Cut(m) => w'[m] = w[m]
  <2>1. w'[m] = IF Cut(m) THEN [w[m] EXCEPT !.pc = "settle", !.result = "Raft"] ELSE w[m]
    BY <1>1
  <2>2. w[m] \in Task
    BY HistFacts
  <2>3. CASE Cut(m)
    <3>1. w[m].pc = "wait"
      BY <1>3, <2>3, HistFacts DEF AwaitOK
    <3>2. w'[m] = [w[m] EXCEPT !.pc = "settle", !.result = "Raft"]
      BY <2>1, <2>3
    <3> QED
      BY <2>2, <2>3, <3>1, <3>2 DEF Keeps, Task
  <2>4. CASE ~Cut(m)
    BY <2>1, <2>4
  <2> QED
    BY <2>3, <2>4
<1> HIDE DEF Orphan
<1>6. ASSUME NEW m \in Node
      PROVE  w'[m] = w[m] \/ Hears(m)
  <2>1. CASE Cut(m)
    <3>1. AnswerOK(log, w[m])
      BY HistFacts DEF NodeOK
    <3>2. w'[m].done = w[m].done /\ w'[m].result = "Raft"
      BY <1>5, <2>1 DEF Keeps
    <3>3. AnswerOK(log, w'[m])
      BY <3>1, <3>2, NoAnswer
    <3> QED
      BY <1>0, <1>5, <2>1, <3>3 DEF Hears
  <2>2. CASE ~Cut(m)
    BY <1>5, <2>2
  <2> QED
    BY <2>1, <2>2
<1>7. ASSUME NEW m \in Node, w[m].pc = "publish"
      PROVE  stash[m] \subseteq stash'[m]
  <2>1. CASE m = leader
    <3>1. \A k \in cut : k.stage # "handling"
      BY <1>3, <1>7, <2>1, HandlerIsNoOwner
    <3>2. {k.id : k \in {j \in cut : j.stage = "handling" /\ j.kind = "head"}} = {}
      BY <3>1
    <3> QED
      BY <1>0, <1>1, <2>1, <3>2 DEF WorkerTypeOK
  <2>2. CASE m # leader
    BY <1>0, <1>1, <2>2 DEF WorkerTypeOK
  <2> QED
    BY <2>1, <2>2
<1>8. ASSUME NEW j \in calls \ cut
      PROVE  GoesOn(j, j)
  <2>1. j.awaited => ~Cut(j.from)
    BY <1>0, <1>3
  <2> QED
    BY <1>0, <1>5, <2>1 DEF GoesOn
<1>9. ASSUME NEW k \in cut
      PROVE  GoesOn(Orphan(k), k)
  <2>1. k.awaited => Cut(k.from)
    OBVIOUS
  <2>2. k.from \in Node
    BY <1>0, <1>3
  <2>3. k.awaited => w'[k.from].pc = "settle" /\ w'[k.from].result = "Raft"
    BY <1>5, <2>1, <2>2
  <2> QED
    BY <1>4, <2>3 DEF GoesOn
<1>10. ASSUME NEW j \in calls'
       PROVE  j \in calls \ cut \/ \E k \in cut : j = Orphan(k)
  BY <1>1
<1> HIDE DEF cut, Cut
<1>11. ASSUME NEW j \in calls'
       PROVE  \E k \in calls : GoesOn(j, k)
  BY <1>3, <1>8, <1>9, <1>10
<1>12. ASSUME NEW j \in calls', j.stage \in {"sent", "handling"}
       PROVE  j.to # j.from
  BY <1>0, <1>4, <1>10, <1>12
<1>13. ASSUME NEW i \in calls', NEW j \in calls', i.awaited /\ j.awaited /\ i.from = j.from
       PROVE  i = j
  BY <1>0, <1>4, <1>10, <1>13
<1>14. ASSUME NEW i \in calls', NEW j \in calls', j.c # None /\ i.c = j.c
       PROVE  i = j
  <2>1. CASE i \in calls \ cut /\ j \in calls \ cut
    BY <1>0, <1>14, <2>1
  <2>2. ASSUME NEW k \in cut, i = Orphan(k)
        PROVE  i = j
    <3>1. CASE j \in calls \ cut
      BY <1>0, <1>3, <1>4, <1>14, <2>2, <3>1
    <3>2. ASSUME NEW h \in cut, j = Orphan(h)
          PROVE  i = j
      <4>1. h = k
        BY <1>0, <1>3, <1>4, <1>14, <2>2, <3>2
      <4> QED
        BY <2>2, <3>2, <4>1
    <3> QED
      BY <1>10, <3>1, <3>2
  <2>3. ASSUME NEW k \in cut, j = Orphan(k), i \in calls \ cut
        PROVE  i = j
    BY <1>0, <1>3, <1>4, <1>14, <2>3
  <2> QED
    BY <1>10, <2>1, <2>2, <2>3
<1> QED
  BY <1>0, <1>2, <1>6, <1>7, <1>11, <1>12, <1>13, <1>14, CallStepHist

-----------------------------------------------------------------------------
(* A proposal is applied.                                                  *)

\* The last change is the present state.
LEMMA LastFacts ==
    ASSUME HistInv
    PROVE  LET d == log[Len(log)] IN
           /\ d \in Change /\ Shape(d) /\ InOrder(d) /\ Len(log) \in 1 .. Len(log)
           /\ d.queue = queues[main] /\ d.head = HeadOf(refs) /\ d.next = next_queue_id
           /\ \A p \in 1 .. Len(log) : Before(log[p], d)
<1>1. LogOK(log) /\ LastInv
  BY HistFacts DEF HistInv, LayerInv
<1>2. Len(log) \in 1 .. Len(log) /\ \A p \in 1 .. Len(log) : p <= Len(log)
  BY <1>1, LogFacts
<1> QED
  BY <1>1, <1>2, LogFacts DEF LastInv

\* An awaited call whose entry is not at the front comes too late.
LEMMA NotFrontOver ==
    ASSUME HistInv, NEW k \in calls, k.awaited, FrontCheck(main, k.id) # "Ok"
    PROVE  w[k.from].id < Lo(log[Len(log)])
<1>1. PICK d \in Change : /\ d = log[Len(log)] /\ Shape(d) /\ d.queue = queues[main]
                          /\ \A p \in 1 .. Len(log) : Before(log[p], d)
  BY LastFacts
<1>2. PICK a \in 1 .. Len(log) : a = applied[k.from]
  BY HistFacts
<1>3. PICK v \in Change : v = log[a] /\ Before(v, d)
  BY <1>1, <1>2, HistFacts
<1>4. PICK t \in Task : t = w[k.from] /\ EntryOK(v, t) /\ AwaitOK(v, t, k)
  BY <1>2, <1>3, HistFacts DEF NodeOK
<1>5. t.id <= Lo(v) /\ t.id < v.next /\ (k.id = t.id \/ t.id < Lo(v)) /\ t.id \in Nat
  BY <1>4, TaskFacts DEF EntryOK, AwaitOK, Busy, Late
<1>6. /\ Lo(v) \in Int /\ Lo(d) \in Int /\ Lo(v) <= Lo(d) /\ v.next \in Nat /\ d.next \in Nat
      /\ v.next <= d.next /\ Len(d.queue) \in Nat /\ d.queue \in Seq(QueueEntry)
  BY <1>3, ChangeFacts DEF Before
<1>7. ASSUME k.id = t.id
      PROVE  t.id # Lo(d)
  <2> SUFFICES ASSUME t.id = Lo(d)
               PROVE  FALSE
    OBVIOUS
  <2>1. Len(d.queue) > 0
    BY <1>5, <1>6 DEF Lo
  <2>2. d.queue # <<>> /\ Head(d.queue) = d.queue[1] /\ 1 \in 1 .. Len(d.queue)
    BY <1>6, <2>1
  <2>3. d.queue[1].queue_id = Lo(d)
    BY <1>1, <1>6, <2>2 DEF Shape
  <2>4. recently_cleared[main] = None
    BY DEF HistInv, CalmInv
  <2> QED
    BY <1>1, <1>7, <2>2, <2>3, <2>4 DEF FrontCheck
<1> QED
  BY <1>1, <1>4, <1>5, <1>6, <1>7

\* A task hears that its entry is over.
LEMMA OverAnswer ==
    ASSUME HistInv, NEW k \in calls, NEW r \in {"Ok", "Stale"}, w' = Answer(k, r), k.awaited,
           LogOK(log'), Longer(log, log'), w[k.from].id < Lo(log'[Len(log')]),
           r = "Stale" \/ k.c = None
    PROVE  AnswerOK(log', w'[k.from])
<1>1. k \in Call /\ WorkerTypeOK /\ LogOK(log) /\ k.from \in Node /\ w[k.from] \in Task
      /\ AnswerOK(log, w[k.from]) /\ w[k.from].c = k.c
  BY HistFacts DEF NodeOK, AwaitOK
<1>2. /\ Keeps(k.from) /\ w'[k.from].c = w[k.from].c
      /\ w'[k.from].pc = "settle" /\ w'[k.from].result = r
  BY <1>1, AnswerMoves
<1>3. AnswerOK(log', w[k.from])
  BY <1>1, AnswerGrows
<1> QED
  BY <1>1, <1>2, <1>3 DEF AnswerOK, Keeps

\* No marker is in the way of a proposal.
LEMMA WriteIsPlain ==
    ASSUME HistInv, NEW k \in calls, client_write(k)
    PROVE  /\ recently_cleared' = recently_cleared /\ retracted' = retracted
           /\ FrontCheck(main, k.id) # "QueueCleared"
           /\ k.kind = "poison" /\ FrontCheck(main, k.id) = "Ok" => queues' # queues
           /\ k.kind = "head" => HeadResponse(main, k.id, k.c) \in
                 {"HeadApplied", "HeadNotMonotonic", "WrongFront", "InvariantViolated"}
           /\ k.kind = "head" /\ FrontCheck(main, k.id) = "Ok" =>
                 HeadResponse(main, k.id, k.c) \in {"HeadApplied", "HeadNotMonotonic"}
<1>0. recently_cleared[main] = None /\ retracted = {} /\ TypeOK /\ main \in Branch
  BY WorkerConstants DEF HistInv, CalmInv, LayerInv
<1>1. FrontCheck(main, k.id) \in {"Ok", "WrongFront", "InvariantViolated"}
  BY <1>0 DEF FrontCheck
<1>2. /\ HeadResponse(main, k.id, k.c) \in
            {"HeadApplied", "HeadNotMonotonic", "WrongFront", "InvariantViolated"}
      /\ FrontCheck(main, k.id) = "Ok" =>
            HeadResponse(main, k.id, k.c) \in {"HeadApplied", "HeadNotMonotonic"}
  BY <1>0, <1>1 DEF HeadResponse
<1>3. recently_cleared' = recently_cleared /\ retracted' = retracted
  BY <1>1, <1>2 DEF client_write, apply_head, apply_poison_queue_entry, PopFront, vars, registryVars
<1>4. ASSUME k.kind = "poison", FrontCheck(main, k.id) = "Ok"
      PROVE  queues' # queues
  <2>1. queues' = [queues EXCEPT ![main] = Tail(@)]
    BY <1>4 DEF client_write, apply_poison_queue_entry, PopFront
  <2>2. queues[main] # <<>> /\ queues[main] \in Seq(QueueEntry)
    BY <1>0, <1>4 DEF FrontCheck, TypeOK
  <2>3. Len(Tail(queues[main])) # Len(queues[main])
    BY <2>2
  <2>4. queues'[main] = Tail(queues[main])
    BY <1>0, <2>1 DEF TypeOK
  <2> QED
    BY <2>3, <2>4
<1> QED
  BY <1>1, <1>2, <1>3, <1>4

\* The proposal changes nothing, and its task learns so.
LEMMA RefusedHist ==
    ASSUME Regime, HistInv, LayerInv', NEW k \in calls, client_write(k), queues' = queues
    PROVE  HistInv'
<1>0. /\ k \in Call /\ k.from \in Node /\ WorkerTypeOK /\ leader \in Node /\ LayerInv
      /\ k.kind \in {"head", "poison"} /\ (k.kind = "head" => k.c \in Commit)
      /\ (k.kind = "head" <=> k.c # None) /\ k.awaited \in BOOLEAN
  BY HistFacts DEF HistInv
<1>1. UNCHANGED <<log, applied, owned, cache, blobs>> /\ calls' = calls \ {k}
  BY DEF client_write
<1>2. recently_cleared'[main] = None /\ retracted' = {}
  BY WriteIsPlain DEF HistInv, CalmInv
<1>3. LogOK(log') /\ Longer(log, log')
  BY <1>1, LogStays
<1>4. \E r \in {"Ok", "Stale", "Lagged", "Raft"} :
         w' = Answer(k, r) /\ (k.awaited => AnswerOK(log', w'[k.from]))
  <2>1. k.kind = "head" => HeadResponse(main, k.id, k.c) # "HeadApplied"
    BY <1>0, WriteKeepsState DEF LayerInv
  <2>2. CASE k.kind = "head" /\ HeadResponse(main, k.id, k.c) = "HeadNotMonotonic"
    <3>1. w' = Answer(k, "Lagged")
      BY <2>2 DEF client_write, PublishResult
    <3> QED
      BY <1>3, <3>1, EmptyAnswer
  <2>3. CASE k.kind = "head" /\ HeadResponse(main, k.id, k.c) # "HeadNotMonotonic"
    <3>1. w' = Answer(k, "Stale")
      BY <2>1, <2>3 DEF client_write, PublishResult
    <3>2. FrontCheck(main, k.id) # "Ok"
      BY <2>1, <2>3, WriteIsPlain
    <3>3. k.awaited => w[k.from].id < Lo(log'[Len(log')])
      BY <1>1, <3>2, NotFrontOver
    <3> QED
      BY <1>3, <3>1, <3>3, OverAnswer
  <2>4. CASE k.kind = "poison"
    <3>1. w' = Answer(k, "Ok") /\ k.c = None
      BY <1>0, <2>4 DEF client_write
    <3>2. FrontCheck(main, k.id) # "Ok"
      BY <2>4, WriteIsPlain
    <3>3. k.awaited => w[k.from].id < Lo(log'[Len(log')])
      BY <1>1, <3>2, NotFrontOver
    <3> QED
      BY <1>3, <3>1, <3>3, OverAnswer
  <2> QED
    BY <1>0, <2>2, <2>3, <2>4
<1>5. OnlyTask(k.from) /\ (w'[k.from] = w[k.from] \/ (k.awaited /\ Hears(k.from)))
  BY <1>4, AnswerHears
<1>6. PICK K : K = {}
  OBVIOUS
<1>7. calls' = (calls \ {k}) \union K
  BY <1>1, <1>6
<1>8. /\ \A m \in Node : w'[m] = w[m] \/ Hears(m)
      /\ \A j \in calls' : \E i \in calls : GoesOn(j, i)
      /\ \A j \in calls' : j.stage \in {"sent", "handling"} => j.to # j.from
      /\ \A i, j \in calls' : i.awaited /\ j.awaited /\ i.from = j.from => i = j
      /\ \A i, j \in calls' : j.c # None /\ i.c = j.c => i = j
  BY <1>5, <1>6, <1>7, OneCall
<1>9. \A m \in Node : w[m].pc = "publish" => stash[m] \subseteq stash'[m]
  <2>1. CASE k.stage = "handling"
    BY <1>0, <2>1, HandlerIsNoOwner DEF client_write, WorkerTypeOK
  <2>2. CASE k.stage # "handling"
    BY <2>2 DEF client_write
  <2> QED
    BY <2>1, <2>2
<1> QED
  BY <1>1, <1>2, <1>8, <1>9, CallStepHist

\* A commit that becomes the head is its entry's change on top of the head it
\* replaces: the response is not that of a republished head, since no call has
\* one, and a commit staged on an older head is not later than the present one.
LEMMA LandsOnHead ==
    ASSUME HistInv, NEW k \in calls, k.kind = "head",
           HeadResponse(main, k.id, k.c) = "HeadApplied"
    PROVE  LET d == log[Len(log)] IN
           /\ Len(k.c) > T(d.head)
           /\ \E s \in 0 .. MaxStamp : k.c = Append(Chain(d.head), <<k.id, s>>)
<1>0. k.c \in Commit /\ k.c # None /\ CallOK(log, k) /\ LogOK(log)
  BY HistFacts
<1>1. PICK d \in Change : /\ d = log[Len(log)] /\ d.head = HeadOf(refs)
                          /\ Len(log) \in 1 .. Len(log)
                          /\ \A p \in 1 .. Len(log) : Before(log[p], d)
  BY LastFacts
<1>2. Len(k.c) = CommitT[k.c] /\ Len(k.c) \in Nat /\ Len(k.c) > 0
  <2>1. k.c \in Seq((0 .. MaxQueueId - 1) \X Nat) /\ k.c # <<>>
    BY <1>0, ChainAssumption
  <2> QED
    BY <1>0, <2>1, ChainAssumption
<1>3. T(d.head) \in Nat /\ d.head \in Commit \union {None}
  BY ChangeFacts
<1>4. k.c # d.head
  BY <1>0, <1>1 DEF HistInv, BlobInv
<1>5. Len(k.c) > T(d.head)
  <2>1. CASE refs[main] = None
    <3>1. T(d.head) = 0
      BY <1>1, <2>1 DEF HeadOf, T
    <3> QED
      BY <1>2, <3>1
  <2>2. CASE refs[main] # None
    <3>1. d.head = refs[main].head /\ d.head \in Commit /\ d.head # None
      <4>1. TypeOK /\ main \in Branch
        BY WorkerConstants DEF HistInv, LayerInv
      <4>2. refs[main] \in RefEntry
        BY <2>2, <4>1 DEF TypeOK
      <4> QED
        BY <1>1, <2>2, <4>2, WorkerConstants DEF HeadOf, RefEntry
    <3>2. ~NoopCompletion(main, k.c)
      BY <1>4, <3>1 DEF NoopCompletion
    <3>3. ~(CommitT[k.c] <= HeadT(main))
      <4>1. main \notin retracted /\ FrontCheck(main, k.id) = "Ok"
        BY HeadAppliedWhen
      <4> QED
        BY <2>2, <3>2, <4>1 DEF HeadResponse
    <3>4. HeadT(main) = T(d.head)
      BY <2>2, <3>1 DEF HeadT, T
    <3> QED
      BY <1>2, <1>3, <3>3, <3>4
  <2> QED
    BY <2>1, <2>2
<1>6. PICK i \in Ids : Extends(log, k.c, i) /\ (k.id = i \/ Len(k.c) <= T(d.head))
  BY <1>0, <1>1 DEF CallOK
<1>7. k.id = i
  BY <1>2, <1>3, <1>5, <1>6
<1>8. PICK p \in 1 .. Len(log), s \in 0 .. MaxStamp : k.c = Append(Chain(log[p].head), <<k.id, s>>)
  BY <1>6, <1>7 DEF Extends
<1>9. PICK e \in Change : e = log[p] /\ Before(e, d)
  BY <1>0, <1>1, LogFacts
<1>10. /\ T(e.head) \in Nat /\ e.head \in Commit \union {None}
       /\ Chain(e.head) \in Seq(Ids \X Nat) /\ Len(Chain(e.head)) = T(e.head)
  BY ChangeFacts, TFacts
<1>11. Len(k.c) = T(e.head) + 1
  BY <1>8, <1>9, <1>10
<1>12. T(e.head) = T(d.head)
  BY <1>2, <1>3, <1>5, <1>9, <1>10, <1>11 DEF Before
<1>13. e.head = d.head
  BY <1>9, <1>12 DEF Before
<1> QED
  BY <1>1, <1>5, <1>8, <1>9, <1>13

\* The chain of a commit on top of the head has been a head all along.
LEMMA PrefixesLanded ==
    ASSUME NEW l, LogOK(l), NEW c \in Commit, NEW x, c = Append(Chain(l[Len(l)].head), x),
           NEW i \in 1 .. Len(c), i # Len(c)
    PROVE  \E r \in 1 .. Len(l) : l[r].head \in {SubSeq(c, 1, i)} \ {None}
<1>1. PICK h \in Commit \union {None} : h = l[Len(l)].head /\ Len(l) \in 1 .. Len(l)
  BY LogFacts, ChangeFacts
<1>2. PICK b \in Seq(Ids \X Nat) : b = Chain(h) /\ Len(b) = T(h)
  BY TFacts
<1>3. c = Append(b, x) /\ c \in Seq(Ids \X Nat) /\ Len(b) \in Nat
  <2>1. c = Append(b, x)
    BY <1>1, <1>2
  <2>2. c \in Seq(Ids \X Nat)
    BY ChainAssumption DEF Ids
  <2> QED
    BY <2>1, <2>2
<1>4. Len(c) = Len(b) + 1 /\ i \in 1 .. Len(b)
  BY <1>3
<1>5. h # None
  BY <1>2, <1>4, TFacts
<1>6. b = h
  BY <1>2, <1>5 DEF Chain
<1>7. SubSeq(c, 1, i) = SubSeq(b, 1, i)
  <2>1. \A j \in 1 .. i : c[j] = b[j]
    BY <1>3, <1>4
  <2>2. /\ SubSeq(c, 1, i) = [j \in 1 .. i |-> c[j]]
        /\ SubSeq(b, 1, i) = [j \in 1 .. i |-> b[j]]
    BY <1>3, <1>4
  <2> QED
    BY <2>1, <2>2
<1>8. \E r \in 1 .. Len(l) : l[r].head \in {SubSeq(h, 1, i)} \ {None}
  BY <1>1, <1>4, <1>5, <1>6 DEF LogOK
<1> QED
  BY <1>6, <1>7, <1>8

\* The change a proposal makes.
LEMMA WriteChange ==
    ASSUME HistInv, LayerInv', NEW k \in calls, client_write(k), queues' # queues
    PROVE  \E e \in Change :
              /\ log' = Append(log, e) /\ LogOK(log') /\ Longer(log, log')
              /\ Len(log') = Len(log) + 1 /\ log'[Len(log')] = e
              /\ applied' = [applied EXCEPT ![leader] = Len(log')]
              /\ e.taken = {k.id} /\ k.id = Lo(log[Len(log)]) /\ Lo(e) = k.id + 1
              /\ e.head = IF k.kind = "head" THEN k.c ELSE log[Len(log)].head
              /\ k.kind = "head" => Len(k.c) > T(log[Len(log)].head)
<1>0. /\ k \in Call /\ LogOK(log) /\ LayerInv /\ TypeOK /\ QueueInv /\ main \in Branch
      /\ k.kind \in {"head", "poison"} /\ (k.kind = "head" => k.c \in Commit)
      /\ (k.kind = "head" => k.c # None)
      /\ CallOK(log, k) /\ k.id \in Ids
  BY HistFacts, WorkerConstants DEF HistInv, LayerInv
<1>1. /\ next_queue_id' = next_queue_id /\ queues[main] # <<>>
      /\ k.id = Head(queues[main]).queue_id /\ queues' = [queues EXCEPT ![main] = Tail(@)]
      /\ k.kind = "head" => /\ HeadResponse(main, k.id, k.c) = "HeadApplied"
                            /\ refs' = [refs EXCEPT ![main] = AdvancedRef(main, k.c)]
      /\ k.kind = "poison" => refs' = refs
  BY <1>0, WriteKeepsState
<1>2. PICK d \in Change : /\ d = log[Len(log)] /\ Shape(d) /\ InOrder(d) /\ d.queue = queues[main]
                          /\ d.head = HeadOf(refs) /\ d.next = next_queue_id
                          /\ Len(log) \in 1 .. Len(log)
  BY LastFacts
<1> DEFINE e == [queue |-> queues'[main], head |-> HeadOf(refs'),
                 next |-> next_queue_id', taken |-> {k.id}]
<1>3. log' = Append(log, e) /\ applied' = [applied EXCEPT ![leader] = Len(log')]
  BY DEF client_write, Committed
<1>4. e \in Change /\ Len(log') = Len(log) + 1 /\ log'[Len(log')] = e /\ Longer(log, log')
  <2>1. log' \in Seq(Change) /\ log \in Seq(Change) /\ Len(log) \in Nat
    BY <1>0, LogFacts DEF LayerInv, WorkerTypeOK, LogOK
  <2>2. /\ Len(log') = Len(log) + 1 /\ log'[Len(log) + 1] = e
        /\ \A p \in 1 .. Len(log) : log'[p] = log[p]
    BY <1>3, <2>1
  <2> QED
    BY <2>1, <2>2 DEF Longer
<1>5. e.head = IF k.kind = "head" THEN k.c ELSE d.head
  <2>1. CASE k.kind = "head"
    <3>1. refs'[main] = AdvancedRef(main, k.c)
      BY <1>0, <1>1, <2>1 DEF TypeOK
    <3>2. refs'[main] # None /\ refs'[main].head = k.c
      <4>1. refs[main] \in RefEntry \union {None}
        BY <1>0 DEF TypeOK
      <4>2. AdvancedRef(main, k.c).head = k.c
        BY <4>1 DEF AdvancedRef, RefEntry
      <4>3. AdvancedRef(main, k.c) \in RefEntry
        BY <1>0, <2>1, <4>1 DEF AdvancedRef, RefEntry
      <4> QED
        BY <3>1, <4>2, <4>3, NoneAssumption
    <3> QED
      BY <2>1, <3>2 DEF HeadOf
  <2>2. CASE k.kind = "poison"
    BY <1>1, <1>2, <2>2 DEF HeadOf
  <2> QED
    BY <1>0, <2>1, <2>2
<1>6. e.queue = Tail(d.queue) /\ e.next = d.next /\ e.taken = {k.id} /\ d.queue # <<>>
  BY <1>0, <1>1, <1>2 DEF TypeOK
<1> HIDE DEF e
<1>7. /\ Lo(e) = Lo(d) + 1 /\ Queued(d, Lo(d)) /\ Lo(d) = k.id
  BY <1>1, <1>2, <1>4, <1>6, PopChange
<1>8. /\ Shape(e) /\ InOrder(e) /\ Before(d, e) /\ Takes(d, e)
      /\ (k.kind = "head" => Len(k.c) > T(d.head))
      /\ e.head # None => \A i \in 1 .. Len(e.head) :
            i = Len(e.head) \/ \E r \in 1 .. Len(log) : log[r].head \in {SubSeq(e.head, 1, i)} \ {None}
  <2>1. CASE k.kind = "head"
    <3>1. PICK s \in 0 .. MaxStamp : k.c = Append(Chain(d.head), <<k.id, s>>) /\ Len(k.c) > T(d.head)
      BY <1>1, <1>2, <2>1, LandsOnHead
    <3>2. e.head = Append(Chain(d.head), <<Lo(d), s>>) /\ e.head \in Commit /\ e.taken = {Lo(d)}
      BY <1>0, <1>5, <1>6, <1>7, <2>1, <3>1
    <3>3. Shape(e) /\ InOrder(e) /\ Before(d, e) /\ Takes(d, e)
      BY <1>2, <1>4, <1>6, <3>2, LandChange
    <3>4. ASSUME NEW i \in 1 .. Len(e.head), i # Len(e.head)
          PROVE  \E r \in 1 .. Len(log) : log[r].head \in {SubSeq(e.head, 1, i)} \ {None}
      <4>1. PICK x : x = <<Lo(d), s>>
        OBVIOUS
      <4>2. e.head = Append(Chain(log[Len(log)].head), x)
        BY <1>2, <3>2, <4>1
      <4>3. PICK c \in Commit : c = e.head
        BY <3>2
      <4>4. c = Append(Chain(log[Len(log)].head), x) /\ i \in 1 .. Len(c) /\ i # Len(c)
        BY <3>4, <4>2, <4>3
      <4>5. \E r \in 1 .. Len(log) : log[r].head \in {SubSeq(c, 1, i)} \ {None}
        BY <1>0, <4>4, PrefixesLanded
      <4> QED
        BY <4>3, <4>5
    <3> QED
      BY <3>1, <3>3, <3>4
  <2>2. CASE k.kind = "poison"
    <3>1. BodyAt(d, Lo(d)) = "malformed"
      BY <1>0, <1>2, <1>7, <2>2 DEF CallOK
    <3>2. e.head = d.head /\ e.taken = {Lo(d)}
      BY <1>5, <1>6, <1>7, <2>2
    <3>3. Shape(e) /\ InOrder(e) /\ Before(d, e) /\ Takes(d, e)
      BY <1>2, <1>4, <1>6, <3>1, <3>2, PoisonChange
    <3>4. e.head # None => \A i \in 1 .. Len(e.head) : \E r \in 1 .. Len(log) :
             log[r].head \in {SubSeq(e.head, 1, i)} \ {None}
      <4>1. e.head = log[Len(log)].head
        BY <1>2, <3>2
      <4> QED
        BY <1>0, <1>2, <4>1 DEF LogOK
    <3> QED
      BY <2>2, <3>3, <3>4
  <2> QED
    BY <1>0, <2>1, <2>2
<1>9. LogOK(log')
  <2>1. LogOK(Append(log, e))
    BY <1>0, <1>2, <1>4, <1>8, LogGrows
  <2> QED
    BY <1>3, <2>1
<1> QED
  BY <1>2, <1>3, <1>4, <1>5, <1>6, <1>7, <1>8, <1>9

\* A task hears that its commit is the head.
LEMMA LandedAnswer ==
    ASSUME HistInv, LayerInv', NEW k \in calls, client_write(k), queues' # queues,
           k.kind = "head", k.awaited, w' = Answer(k, "Ok")
    PROVE  AnswerOK(log', w'[k.from])
<1>0. /\ k \in Call /\ WorkerTypeOK /\ LogOK(log) /\ k.from \in Node /\ w[k.from] \in Task
      /\ k.c # None
  BY HistFacts
<1>1. PICK e \in Change :
         /\ LogOK(log') /\ Longer(log, log') /\ Len(log') = Len(log) + 1 /\ log'[Len(log')] = e
         /\ k.id = Lo(log[Len(log)]) /\ Lo(e) = k.id + 1 /\ e.head = k.c
         /\ Len(k.c) > T(log[Len(log)].head)
  BY WriteChange
<1>2. PICK d \in Change : /\ d = log[Len(log)] /\ \A p \in 1 .. Len(log) : Before(log[p], d)
  BY LastFacts
<1>3. PICK a \in 1 .. Len(log) : a = applied[k.from]
  BY HistFacts
<1>4. PICK v \in Change : v = log[a] /\ Before(v, d)
  BY <1>2, <1>3, HistFacts
<1>5. PICK t \in Task : t = w[k.from] /\ AnswerOK(log, t) /\ AwaitOK(v, t, k)
  BY <1>3, <1>4, HistFacts DEF NodeOK
<1>6. PICK u : u = w'[k.from]
  OBVIOUS
<1>7. /\ u.id = t.id /\ u.done = t.done /\ u.c = t.c /\ u.pc = "settle" /\ u.result = "Ok"
  BY <1>0, <1>5, <1>6, AnswerMoves DEF Keeps
<1>8. t.c = k.c /\ t.id = k.id
  <2>1. t.c = k.c /\ (k.id = t.id \/ Late(v, t))
    BY <1>5 DEF AwaitOK
  <2>2. T(v.head) \in Nat /\ T(d.head) \in Nat /\ T(v.head) <= T(d.head)
    BY <1>4, ChangeFacts DEF Before
  <2>3. Len(k.c) \in Nat
    BY <1>0, <1>5, <2>1, TaskFacts
  <2>4. ~Late(v, t)
    BY <1>1, <1>2, <2>1, <2>2, <2>3 DEF Late
  <2> QED
    BY <2>1, <2>4
<1>9. AnswerOK(log', t)
  BY <1>0, <1>1, <1>5, AnswerGrows
<1>10. Len(log) \in Nat /\ Len(log') \in 1 .. Len(log') /\ k.id \in Nat
  BY <1>0, <1>1, <1>5, <1>8, LogFacts, TaskFacts
<1>11. ASSUME NEW p \in 1 .. Len(log') - 1
       PROVE  Lo(log'[p]) <= u.id
  <2>1. p \in 1 .. Len(log)
    BY <1>1, <1>10
  <2>2. log'[p] = log[p] /\ Before(log[p], d)
    BY <1>1, <1>2, <2>1 DEF Longer
  <2> QED
    BY <1>1, <1>2, <1>7, <1>8, <2>2 DEF Before
<1>12. /\ log'[Len(log')].head = u.c /\ u.id < Lo(log'[Len(log')])
       /\ u.c # None
  BY <1>0, <1>1, <1>7, <1>8, <1>10
<1>13. u.done <= Lo(log'[Len(log')])
  BY <1>7, <1>9 DEF AnswerOK
<1>14. AnswerOK(log', u)
  BY <1>7, <1>10, <1>11, <1>12, <1>13 DEF AnswerOK
<1> QED
  BY <1>6, <1>14

\* The proposal ends the entry at the front.
LEMMA AcceptedHist ==
    ASSUME HistInv, LayerInv', NEW k \in calls, client_write(k), queues' # queues
    PROVE  HistInv'
<1>0. /\ k \in Call /\ k.from \in Node /\ WorkerTypeOK /\ leader \in Node /\ LayerInv /\ BlobInv
      /\ k.kind \in {"head", "poison"} /\ (k.kind = "head" => k.c \in Commit) /\ LogOK(log)
      /\ (k.kind = "head" <=> k.c # None) /\ k.awaited \in BOOLEAN
      /\ stash \in [Node -> SUBSET Ids]
  BY HistFacts DEF HistInv, WorkerTypeOK
<1>1. PICK e \in Change :
         /\ log' = Append(log, e) /\ LogOK(log') /\ Longer(log, log')
         /\ Len(log') = Len(log) + 1 /\ log'[Len(log')] = e
         /\ applied' = [applied EXCEPT ![leader] = Len(log')]
         /\ e.taken = {k.id} /\ k.id = Lo(log[Len(log)]) /\ Lo(e) = k.id + 1
         /\ e.head = IF k.kind = "head" THEN k.c ELSE log[Len(log)].head
  BY WriteChange
<1>2. /\ UNCHANGED <<owned, cache, blobs>> /\ calls' = calls \ {k}
      /\ stash' = [stash EXCEPT ![leader] = @ \ {k.id}]
  BY DEF client_write
<1>3. recently_cleared'[main] = None /\ retracted' = {}
  BY WriteIsPlain DEF HistInv, CalmInv
<1>4. /\ \A m \in Node : NodeOK(log', applied'[m], w[m], cache[m], stash'[m])
      /\ \A j \in calls : CallOK(log', j) /\ AwaitOK(log'[applied'[j.from]], w[j.from], j)
  <2>1. /\ \A m \in Node : m # leader /\ w[m].pc = "publish" => stash[m] \subseteq stash'[m]
        /\ stash[leader] \ e.taken \subseteq stash'[leader]
    BY <1>0, <1>1, <1>2
  <2> QED
    BY <1>1, <2>1, GrowthHist
<1>5. w' = Answer(k, "Ok") /\ (k.awaited => AnswerOK(log', w'[k.from]))
  <2>1. CASE k.kind = "head"
    <3>1. HeadResponse(main, k.id, k.c) = "HeadApplied"
      BY <1>0, <2>1, WriteKeepsState DEF LayerInv
    <3>2. w' = Answer(k, "Ok")
      BY <2>1, <3>1 DEF client_write, PublishResult
    <3> QED
      BY <2>1, <3>2, LandedAnswer
  <2>2. CASE k.kind = "poison"
    <3>1. w' = Answer(k, "Ok") /\ k.c = None
      BY <1>0, <2>2 DEF client_write
    <3>2. ASSUME k.awaited
          PROVE  w[k.from].id < Lo(log'[Len(log')])
      <4>1. w[k.from].id = k.id /\ w[k.from].id \in Nat
        BY <2>2, <3>2, HistFacts, TaskFacts DEF AwaitOK
      <4> QED
        BY <1>1, <4>1
    <3> QED
      BY <1>1, <3>1, <3>2, OverAnswer
  <2> QED
    BY <1>0, <2>1, <2>2
<1>6. /\ OnlyTask(k.from) /\ (w'[k.from] = w[k.from] \/ (k.awaited /\ Hears(k.from)))
      /\ k.awaited => w'[k.from].pc = "settle" /\ w'[k.from].result = "Ok"
      /\ ~k.awaited => w' = w
  BY <1>5, AnswerHears
<1>7. PICK K : K = {}
  OBVIOUS
<1>8. calls' = (calls \ {k}) \union K
  BY <1>2, <1>7
<1>9. /\ \A m \in Node : w'[m] = w[m] \/ Hears(m)
      /\ \A j \in calls' : \E i \in calls : GoesOn(j, i)
      /\ \A j \in calls' : j.stage \in {"sent", "handling"} => j.to # j.from
      /\ \A i, j \in calls' : i.awaited /\ j.awaited /\ i.from = j.from => i = j
      /\ \A i, j \in calls' : j.c # None /\ i.c = j.c => i = j
  BY <1>6, <1>7, <1>8, OneCall
<1>10. ASSUME NEW p \in 1 .. Len(log')
       PROVE  \/ \E q \in 1 .. Len(log) : log'[p].head = log[q].head
              \/ k.kind = "head" /\ log'[p].head = k.c
  <2>1. Len(log) \in Nat /\ Len(log) \in 1 .. Len(log)
    BY <1>0, LogFacts
  <2>2. CASE p = Len(log')
    BY <1>1, <2>1, <2>2
  <2>3. CASE p # Len(log')
    <3>1. p \in 1 .. Len(log)
      BY <1>1, <2>1, <2>3
    <3> QED
      BY <1>1, <3>1 DEF Longer
  <2> QED
    BY <2>2, <2>3
<1>11. ASSUME NEW p \in 1 .. Len(log'), log'[p].head # None
       PROVE  log'[p].head \in blobs
  BY <1>0, <1>10, <1>11 DEF BlobInv
<1>12. ASSUME NEW j \in calls', j.c # None, NEW p \in 1 .. Len(log')
       PROVE  log'[p].head # j.c
  <2>1. j \in calls /\ j # k
    BY <1>2
  <2>2. CASE \E q \in 1 .. Len(log) : log'[p].head = log[q].head
    BY <1>0, <1>12, <2>1, <2>2 DEF BlobInv
  <2>3. CASE k.kind = "head" /\ log'[p].head = k.c
    BY <1>0, <1>12, <2>1, <2>3 DEF BlobInv
  <2> QED
    BY <1>10, <2>2, <2>3
<1>13. ASSUME NEW m \in Node, w'[m].c # None, NEW p \in 1 .. Len(log'), log'[p].head = w'[m].c
       PROVE  w'[m].pc = "settle" /\ w'[m].result \in {"Ok", "Raft"}
  <2>1. w'[m].c = w[m].c /\ (w[m].pc # "wait" => w'[m] = w[m])
    BY <1>9 DEF Hears
  <2>2. CASE \E q \in 1 .. Len(log) : log'[p].head = log[q].head
    <3>1. w[m].pc = "settle" /\ w[m].result \in {"Ok", "Raft"}
      BY <1>0, <1>13, <2>1, <2>2 DEF BlobInv
    <3> QED
      BY <2>1, <3>1
  <2>3. CASE k.kind = "head" /\ log'[p].head = k.c
    <3>1. k.from = m /\ (k.awaited \/ (w[m].pc = "settle" /\ w[m].result = "Raft"))
      <4>1. w[m].c # None /\ k.c = w[m].c
        BY <1>13, <2>1, <2>3
      <4> QED
        BY <1>0, <4>1 DEF BlobInv
    <3> QED
      BY <1>6, <3>1
  <2> QED
    BY <1>10, <2>2, <2>3
<1> QED
  BY <1>1, <1>2, <1>3, <1>4, <1>9, <1>11, <1>12, <1>13, OuterHist

-----------------------------------------------------------------------------
(* The history's invariant.                                                *)

LEMMA HistStep ==
    ASSUME Regime, HistInv, [WorkerNext]_allVars
    PROVE  HistInv'
<1>1. LayerInv /\ LayerInv'
  BY LayerStep DEF HistInv
<1>2. ASSUME NEW body \in Body, Submit(body)
      PROVE  HistInv'
  BY <1>1, <1>2, SubmitHist
<1>3. ~Rollback /\ \A n \in Node : ~OwnershipFlap(n)
  BY DEF Regime, Rollback, OwnershipFlap, Happens
<1>4. ASSUME NEW n \in Node, ChangeLeader(n)
      PROVE  HistInv'
  BY <1>1, <1>4, ElectionHist
<1>5. ASSUME NEW n \in Node, CatchUp(n) \/ ListenerRefresh(n) \/ WorkerStep(n)
      PROVE  HistInv'
  BY <1>1, <1>5, CatchUpHist, ListenerHist, WorkerStepHist
<1>6. ASSUME NEW k \in calls, apply_staged_commit(k) \/ LoseAnswer(k) \/ LoseCall(k)
      PROVE  HistInv'
  BY <1>1, <1>6, HandlerHist, LossHist
<1>7. ASSUME NEW k \in calls, client_write(k)
      PROVE  HistInv'
  BY <1>1, <1>7, AcceptedHist, RefusedHist
<1>8. CASE UNCHANGED allVars
  BY <1>1, <1>8 DEF allVars, vars, workerVars, HistInv, LogInv, NodesInv, CallsInv, BlobInv, CalmInv
<1> QED
  BY <1>2, <1>3, <1>4, <1>5, <1>6, <1>7, <1>8 DEF WorkerNext

LEMMA HistStart ==
    ASSUME WorkerInit
    PROVE  HistInv
<1>1. LayerInv
  BY LayerStart
<1> DEFINE e == [queue |-> <<>>, head |-> None, next |-> 0, taken |-> {}]
<1>2. /\ log = <<e>> /\ applied = [n \in Node |-> 1] /\ w = [n \in Node |-> NoTask]
      /\ cache = [n \in Node |-> None] /\ calls = {} /\ blobs = {} /\ retracted = {}
      /\ recently_cleared = [b \in Branch |-> None] /\ main \in Branch
  BY WorkerConstants DEF WorkerInit
<1>3. Len(log) = 1 /\ log[1] = e /\ e.queue = <<>> /\ e.head = None /\ e.next = 0 /\ e.taken = {}
  BY <1>2
<1>4. e \in Change /\ Lo(e) = 0
  <2>1. Len(e.queue) = 0 /\ e.next = 0
    OBVIOUS
  <2>2. WorkerTypeOK /\ 1 \in 1 .. Len(log)
    BY <1>1, <1>3 DEF LayerInv
  <2>3. log[1] \in Change
    BY <2>2, LogAt
  <2> QED
    BY <1>3, <2>1, <2>3 DEF Lo
<1> HIDE DEF e
<1>5. LogOK(log)
  <2>1. Shape(e) /\ InOrder(e)
    <3>1. Len(e.queue) = 0
      BY <1>3
    <3> QED
      BY <1>3, <1>4, <3>1 DEF Shape, InOrder
  <2>2. Before(e, e)
    BY <1>4, BeforeSame
  <2>3. log \in Seq(Change) /\ log # <<>>
    BY <1>1 DEF LayerInv, WorkerTypeOK, LastInv
  <2>4. \A p \in 1 .. Len(log) : p = 1
    BY <1>3
  <2>5. ~ \E p \in 1 .. Len(log) - 1 : TRUE
    BY <1>3
  <2> QED
    BY <1>3, <2>1, <2>2, <2>3, <2>4, <2>5 DEF LogOK
<1>6. NoTask.pc = "none" /\ NoTask.c = None /\ NoTask.done = 0
  BY DEF NoTask
<1>7. ASSUME NEW n \in Node
      PROVE  NodeOK(log, applied[n], w[n], cache[n], stash[n])
  <2>1. applied[n] = 1 /\ w[n] = NoTask /\ cache[n] = None
    BY <1>2
  <2>2. HandleOK(log, 1, NoTask, None)
    BY DEF HandleOK
  <2>3. NodeOK(log, 1, NoTask, None, stash[n])
    BY <1>3, <1>4, <1>6, <2>2, NodeEnds
  <2> QED
    BY <2>1, <2>3
<1>8. NodesInv /\ CallsInv /\ LogInv
  BY <1>2, <1>5, <1>7 DEF NodesInv, CallsInv, LogInv
<1>9. \A n \in Node : w[n].c = None /\ w[n].pc = "none"
  BY <1>2, <1>6
<1>10. BlobInv /\ CalmInv
  <2>1. \A p \in 1 .. Len(log) : log[p].head = None
    BY <1>3
  <2> QED
    BY <1>2, <1>9, <2>1 DEF BlobInv, CalmInv
<1> QED
  BY <1>1, <1>8, <1>10 DEF HistInv

\* The properties follow from the invariant.
LEMMA HistImplies ==
    ASSUME HistInv
    PROVE  HistoryInQueueOrder /\ CompletedMeansTerminal /\ HeadBlobDurable
<1>0. PICK d \in Change : /\ d = log[Len(log)] /\ Shape(d) /\ InOrder(d) /\ d.queue = queues[main]
                          /\ d.head = HeadOf(refs) /\ Len(log) \in 1 .. Len(log)
  BY LastFacts
<1>1. HistoryInQueueOrder
  BY <1>0 DEF HistoryInQueueOrder, InOrder
<1>2. CompletedMeansTerminal
  <2> SUFFICES ASSUME NEW n \in Node, NEW i \in EntryIds(queues[main])
               PROVE  i >= w[n].done
    BY DEF CompletedMeansTerminal
  <2>1. w[n].done <= Lo(d) /\ w[n].done \in Nat
    BY <1>0, HistFacts, TaskFacts DEF NodeOK, AnswerOK
  <2>2. d.queue \in Seq(QueueEntry) /\ Lo(d) \in Int
    BY ChangeFacts
  <2>3. PICK j \in 1 .. Len(d.queue) : i = d.queue[j].queue_id
    BY <1>0, <2>2 DEF EntryIds
  <2>4. i = Lo(d) + j - 1
    BY <1>0, <2>3 DEF Shape
  <2> QED
    BY <2>1, <2>2, <2>3, <2>4
<1>3. HeadBlobDurable
  <2> SUFFICES ASSUME HeadOf(refs) # None, NEW i \in 1 .. Len(HeadOf(refs))
               PROVE  SubSeq(HeadOf(refs), 1, i) \in blobs
    BY DEF HeadBlobDurable
  <2>1. LogOK(log) /\ BlobInv
    BY HistFacts DEF HistInv
  <2>2. log[Len(log)].head # None /\ i \in 1 .. Len(log[Len(log)].head)
    BY <1>0
  <2>3. PICK r \in 1 .. Len(log) : log[r].head \in {SubSeq(log[Len(log)].head, 1, i)} \ {None}
    BY <1>0, <2>1, <2>2 DEF LogOK
  <2>4. log[r].head \in blobs
    BY <2>1, <2>3 DEF BlobInv
  <2> QED
    BY <1>0, <2>3, <2>4
<1> QED
  BY <1>1, <1>2, <1>3

\* What a step does to the branch.
LEMMA BranchSteps ==
    ASSUME Regime, HistInv, [WorkerNext]_allVars
    PROVE  \/ UNCHANGED <<refs, queues, next_queue_id>>
           \/ /\ refs' = refs /\ next_queue_id' = next_queue_id + 1
              /\ \E x \in QueueEntry : /\ x.queue_id = next_queue_id
                                       /\ queues'[main] = Append(queues[main], x)
           \/ /\ next_queue_id' = next_queue_id /\ queues[main] # <<>>
              /\ queues'[main] = Tail(queues[main])
              /\ \/ HeadOf(refs') = HeadOf(refs)
                 \/ \E s \in 0 .. MaxStamp :
                       /\ HeadOf(refs') \in Commit
                       /\ HeadOf(refs') = Append(Chain(HeadOf(refs)), <<Head(queues[main]).queue_id, s>>)
<1>0. /\ LayerInv /\ LayerInv' /\ TypeOK /\ QueueInv /\ main \in Branch
      /\ next_queue_id \in Nat
  BY LayerStep, WorkerConstants DEF HistInv, LayerInv, TypeOK
<1>1. ASSUME NEW body \in Body, Submit(body)
      PROVE  /\ refs' = refs /\ next_queue_id' = next_queue_id + 1
             /\ \E x \in QueueEntry : /\ x.queue_id = next_queue_id
                                      /\ queues'[main] = Append(queues[main], x)
  <2> DEFINE x == [queue_id |-> next_queue_id, key |-> None, body |-> body]
  <2>1. /\ refs' = refs /\ next_queue_id' = next_queue_id + 1
        /\ queues' = [queues EXCEPT ![main] = Append(@, x)]
    BY <1>1 DEF Submit, apply_enqueue_command, registryVars
  <2>2. x \in QueueEntry /\ x.queue_id = next_queue_id
    BY <1>0 DEF QueueEntry
  <2> HIDE DEF x
  <2>3. queues'[main] = Append(queues[main], x)
    BY <1>0, <2>1 DEF TypeOK
  <2> QED
    BY <2>1, <2>2, <2>3
<1>2. ~Rollback /\ \A n \in Node : ~OwnershipFlap(n)
  BY DEF Regime, Rollback, OwnershipFlap, Happens
<1>3. ASSUME NEW n \in Node, ChangeLeader(n) \/ CatchUp(n) \/ ListenerRefresh(n)
      PROVE  UNCHANGED <<refs, queues, next_queue_id>>
  BY <1>3 DEF ChangeLeader, CatchUp, ListenerRefresh, vars
<1>4. ASSUME NEW n \in Node, WorkerStep(n)
      PROVE  UNCHANGED <<refs, queues, next_queue_id>>
  BY <1>4 DEF WorkerStep, spawn_worker, abort_worker, snapshot_front, stage_and_persist,
     stage_no_change, process_push, stage_fails, refresh, publish_commit, propose_poison,
     settle_landed, settle_stale, settle_lagged, settle_unknown, settle_poison, vars
<1>5. ASSUME NEW k \in calls, apply_staged_commit(k) \/ LoseAnswer(k) \/ LoseCall(k)
      PROVE  UNCHANGED <<refs, queues, next_queue_id>>
  BY <1>5 DEF apply_staged_commit, LoseAnswer, LoseCall, vars
<1>6. ASSUME NEW k \in calls, client_write(k), queues' = queues
      PROVE  UNCHANGED <<refs, queues, next_queue_id>>
  BY <1>0, <1>6, HistFacts, WriteKeepsState
<1>7. ASSUME NEW k \in calls, client_write(k), queues' # queues
      PROVE  /\ next_queue_id' = next_queue_id /\ queues[main] # <<>>
             /\ queues'[main] = Tail(queues[main])
             /\ \/ HeadOf(refs') = HeadOf(refs)
                \/ \E s \in 0 .. MaxStamp :
                      /\ HeadOf(refs') \in Commit
                      /\ HeadOf(refs') = Append(Chain(HeadOf(refs)), <<Head(queues[main]).queue_id, s>>)
  <2>1. k \in Call /\ k.kind \in {"head", "poison"} /\ (k.kind = "head" => k.c \in Commit)
    BY HistFacts
  <2>2. /\ next_queue_id' = next_queue_id /\ queues[main] # <<>>
        /\ k.id = Head(queues[main]).queue_id /\ queues' = [queues EXCEPT ![main] = Tail(@)]
        /\ (k.kind = "head" => HeadResponse(main, k.id, k.c) = "HeadApplied")
        /\ (k.kind = "poison" => refs' = refs)
    BY <1>0, <1>7, <2>1, WriteKeepsState
  <2>3. queues'[main] = Tail(queues[main])
    BY <1>0, <2>2 DEF TypeOK
  <2>4. CASE k.kind = "poison"
    BY <2>2, <2>3, <2>4 DEF HeadOf
  <2>5. CASE k.kind = "head"
    <3>1. HeadOf(refs') = k.c
      <4>1. \E e \in Change : log'[Len(log')] = e /\ e.head = k.c
        BY <1>0, <1>7, <2>5, WriteChange
      <4> QED
        BY <1>0, <4>1 DEF LayerInv, LastInv
    <3>2. PICK s \in 0 .. MaxStamp : k.c = Append(Chain(log[Len(log)].head), <<k.id, s>>)
      BY <2>2, <2>5, LandsOnHead
    <3>3. log[Len(log)].head = HeadOf(refs)
      BY LastFacts
    <3> QED
      BY <2>1, <2>2, <2>3, <2>5, <3>1, <3>2, <3>3
  <2> QED
    BY <2>1, <2>4, <2>5
<1>8. CASE UNCHANGED allVars
  BY <1>8 DEF allVars, vars
<1> QED
  BY <1>1, <1>2, <1>3, <1>4, <1>5, <1>6, <1>7, <1>8 DEF WorkerNext

\* In the regime, the branch's history holds the entries' changes in queue order
\* and each at most once, for any number of nodes that own the branch, of entries,
\* of stagings and of lost answers (apply_head's front and t checks, run).  It
\* fails where the leader owns the branch beside another node.
LEMMA EntriesInOrder ==
    ASSUME Regime
    PROVE  WorkerSpec => []HistoryInQueueOrder
<1>1. WorkerInit => HistInv
  BY HistStart
<1>2. HistInv /\ [WorkerNext]_allVars => HistInv'
  BY HistStep
<1>3. HistInv => HistoryInQueueOrder
  BY HistImplies
<1> QED
  BY <1>1, <1>2, <1>3, PTL DEF WorkerSpec

\* In the regime, an entry a worker has put behind it has left the queue: no
\* answer, late or lost, makes it skip one (process_entry, run).  It fails for a
\* request that turns out to change nothing, after a lost answer.
LEMMA CompletionsTrue ==
    ASSUME Regime
    PROVE  WorkerSpec => []CompletedMeansTerminal
<1>1. WorkerInit => HistInv
  BY HistStart
<1>2. HistInv /\ [WorkerNext]_allVars => HistInv'
  BY HistStep
<1>3. HistInv => CompletedMeansTerminal
  BY HistImplies
<1> QED
  BY <1>1, <1>2, <1>3, PTL DEF WorkerSpec

\* In the regime, every commit of the head's chain stays in the content store: a
\* commit is released by the task that staged it, after a rejection, and then no
\* call and no head has it (try_advance_head, release_orphaned_commit_blob).  It
\* fails for a push, which is staged as the same commit each time.
LEMMA HeadsKeepTheirBlobs ==
    ASSUME Regime
    PROVE  WorkerSpec => []HeadBlobDurable
<1>1. WorkerInit => HistInv
  BY HistStart
<1>2. HistInv /\ [WorkerNext]_allVars => HistInv'
  BY HistStep
<1>3. HistInv => HeadBlobDurable
  BY HistImplies
<1> QED
  BY <1>1, <1>2, <1>3, PTL DEF WorkerSpec

\* A step that moves the head ends the entry whose change it adds.
LEMMA OwnWork ==
    ASSUME Regime, HistInv, [WorkerNext]_allVars, HeadOf(refs') # HeadOf(refs)
    PROVE  LET h == HeadOf(refs') IN h[Len(h)][1] = Head(queues[main]).queue_id
<1>1. PICK s \in 0 .. MaxStamp :
         HeadOf(refs') = Append(Chain(HeadOf(refs)), <<Head(queues[main]).queue_id, s>>)
  BY BranchSteps DEF HeadOf
<1>2. PICK b \in Seq(Ids \X Nat) : b = Chain(HeadOf(refs))
  BY HeadOfType, TFacts DEF HistInv, LayerInv
<1>3. PICK x : x = <<Head(queues[main]).queue_id, s>>
  OBVIOUS
<1>4. HeadOf(refs') = Append(b, x)
  BY <1>1, <1>2, <1>3
<1>5. Append(b, x)[Len(Append(b, x))] = x
  BY <1>2
<1> QED
  BY <1>3, <1>4, <1>5

\* In the regime, the head a popped entry leaves is its own work: the claimed
\* queue id and the published commit belong together whenever the proposal is
\* accepted (build_apply_head_command, take_pending).
LEMMA OwnWorkApplied ==
    ASSUME Regime
    PROVE  WorkerSpec => AppliedWorkIsTheEntrys
<1>1. WorkerInit => HistInv
  BY HistStart
<1>2. HistInv /\ [WorkerNext]_allVars => HistInv'
  BY HistStep
<1>3. HistInv /\ [WorkerNext]_allVars =>
         [HeadOf(refs') # HeadOf(refs) /\ faults' = faults =>
            LET h == HeadOf(refs') IN h[Len(h)][1] = Head(queues[main]).queue_id]_allVars
  BY OwnWork
<1> QED
  BY <1>1, <1>2, <1>3, PTL DEF WorkerSpec, AppliedWorkIsTheEntrys

-----------------------------------------------------------------------------
(* The refinement of BranchLog.                                            *)

LEMMA SameSequence ==
    ASSUME NEW a \in Seq(Nat), NEW b \in Seq(Nat), Len(a) = Len(b),
           \A j \in 1 .. Len(a) : a[j] = b[j]
    PROVE  a = b
  OBVIOUS

LEMMA EntrySeqs ==
    ASSUME NEW q \in Seq(QueueEntry)
    PROVE  /\ EntrySeq(q) \in Seq(Nat) /\ Len(EntrySeq(q)) = Len(q)
           /\ \A x \in QueueEntry : EntrySeq(Append(q, x)) = Append(EntrySeq(q), x.queue_id)
           /\ q # <<>> => /\ EntrySeq(q) # <<>> /\ EntrySeq(Tail(q)) = Tail(EntrySeq(q))
                          /\ Head(EntrySeq(q)) = Head(q).queue_id
<1>1. ASSUME NEW j \in 1 .. Len(q)
      PROVE  q[j] \in QueueEntry /\ q[j].queue_id \in Nat
  <2>1. q[j] \in QueueEntry
    OBVIOUS
  <2> QED
    BY <2>1 DEF QueueEntry
<1>2. EntrySeq(q) \in Seq(Nat) /\ Len(EntrySeq(q)) = Len(q)
  BY <1>1 DEF EntrySeq
<1>3. ASSUME NEW x \in QueueEntry
      PROVE  EntrySeq(Append(q, x)) = Append(EntrySeq(q), x.queue_id)
  <2>1. /\ Append(q, x) \in Seq(QueueEntry) /\ Len(Append(q, x)) = Len(q) + 1
        /\ \A j \in 1 .. Len(q) : Append(q, x)[j] = q[j]
        /\ Append(q, x)[Len(q) + 1] = x
    OBVIOUS
  <2>2. EntrySeq(Append(q, x)) = [j \in 1 .. Len(q) + 1 |-> Append(q, x)[j].queue_id]
    BY <2>1 DEF EntrySeq
  <2>3. Append(EntrySeq(q), x.queue_id) =
           [j \in 1 .. Len(q) + 1 |-> IF j = Len(q) + 1 THEN x.queue_id ELSE EntrySeq(q)[j]]
    BY <1>2
  <2>4. \A j \in 1 .. Len(q) : EntrySeq(q)[j] = q[j].queue_id
    BY DEF EntrySeq
  <2>5. \A j \in 1 .. Len(q) + 1 : Append(q, x)[j].queue_id =
           IF j = Len(q) + 1 THEN x.queue_id ELSE EntrySeq(q)[j]
    BY <2>1, <2>4
  <2> QED
    BY <2>2, <2>3, <2>5
<1>4. ASSUME q # <<>>
      PROVE  /\ EntrySeq(q) # <<>> /\ EntrySeq(Tail(q)) = Tail(EntrySeq(q))
             /\ Head(EntrySeq(q)) = Head(q).queue_id
  <2>1. /\ Tail(q) \in Seq(QueueEntry) /\ Len(Tail(q)) = Len(q) - 1 /\ Len(q) > 0
        /\ \A j \in 1 .. Len(q) - 1 : Tail(q)[j] = q[j + 1]
        /\ Head(q) = q[1]
    BY <1>4
  <2>2. EntrySeq(q) # <<>> /\ Head(EntrySeq(q)) = EntrySeq(q)[1]
    BY <1>2, <2>1
  <2>3. EntrySeq(q)[1] = q[1].queue_id
    BY <2>1 DEF EntrySeq
  <2>4. PICK e \in Seq(Nat) : e = EntrySeq(q) /\ Len(e) = Len(q) /\ e # <<>>
    BY <1>2, <2>2
  <2>5. /\ Tail(e) \in Seq(Nat) /\ Len(Tail(e)) = Len(q) - 1
        /\ \A j \in 1 .. Len(q) - 1 : Tail(e)[j] = e[j + 1]
    BY <2>4
  <2>6. \A j \in 1 .. Len(q) - 1 : Tail(q)[j] = q[j + 1] /\ e[j + 1] = q[j + 1].queue_id
    BY <2>1, <2>4 DEF EntrySeq
  <2>7. /\ EntrySeq(Tail(q)) \in Seq(Nat) /\ Len(EntrySeq(Tail(q))) = Len(q) - 1
        /\ \A j \in 1 .. Len(q) - 1 : EntrySeq(Tail(q))[j] = e[j + 1]
    <3>1. EntrySeq(Tail(q)) = [j \in 1 .. Len(q) - 1 |-> Tail(q)[j].queue_id]
      BY <2>1 DEF EntrySeq
    <3>2. \A j \in 1 .. Len(q) - 1 : Tail(q)[j].queue_id \in Nat
      BY <2>1, <1>1
    <3>3. PICK n \in Nat : n = Len(q) - 1
      <4>1. PICK m \in Nat : m = Len(q) /\ m > 0
        <5>1. Len(q) \in Nat
          OBVIOUS
        <5>2. Len(q) > 0
          BY <2>1
        <5> QED
          BY <5>1, <5>2
      <4>2. m - 1 \in Nat
        BY <4>1
      <4> QED
        BY <4>1, <4>2
    <3>4. PICK f : f = [j \in 1 .. n |-> Tail(q)[j].queue_id]
      OBVIOUS
    <3>5. f \in [1 .. n -> Nat] /\ \A j \in 1 .. n : f[j] = Tail(q)[j].queue_id
      BY <3>2, <3>3, <3>4
    <3>6. f \in Seq(Nat) /\ Len(f) = n
      BY <3>5
    <3> QED
      BY <2>6, <3>1, <3>3, <3>4, <3>5, <3>6
  <2>8. PICK a \in Seq(Nat) : a = EntrySeq(Tail(q))
    BY <2>7
  <2>9. PICK d \in Seq(Nat) : d = Tail(e)
    BY <2>5
  <2>10. a = d
    BY <2>5, <2>7, <2>8, <2>9, SameSequence
  <2> QED
    BY <2>1, <2>2, <2>3, <2>4, <2>8, <2>9, <2>10
<1> QED
  BY <1>2, <1>3, <1>4

LEMMA EntriesOfLanded ==
    ASSUME NEW h \in Commit \union {None}, NEW c \in Commit, NEW i \in Nat, NEW s,
           c = Append(Chain(h), <<i, s>>)
    PROVE  EntriesOf(c) = Append(EntriesOf(h), i)
<1>1. PICK b \in Seq(Ids \X Nat) : b = Chain(h)
  BY TFacts
<1>2. PICK x : x = <<i, s>>
  OBVIOUS
<1>3. c = Append(b, x) /\ c # None /\ x[1] = i
  BY <1>1, <1>2, WorkerConstants
<1>4. EntriesOf(h) = [j \in 1 .. Len(b) |-> b[j][1]]
  <2>1. CASE h = None
    BY <1>1, <2>1 DEF EntriesOf, Chain
  <2>2. CASE h # None
    BY <1>1, <2>2 DEF EntriesOf, Chain
  <2> QED
    BY <2>1, <2>2
<1>5. EntriesOf(h) \in Seq(Nat) /\ Len(EntriesOf(h)) = Len(b) /\ Len(b) \in Nat
  <2>1. \A j \in 1 .. Len(b) : b[j] \in Ids \X Nat
    OBVIOUS
  <2>2. \A j \in 1 .. Len(b) : b[j][1] \in Nat
    BY <2>1 DEF Ids
  <2> QED
    BY <1>4, <2>2
<1>6. EntriesOf(c) = [j \in 1 .. Len(b) + 1 |-> c[j][1]]
  <2>1. Len(c) = Len(b) + 1
    BY <1>3
  <2> QED
    BY <1>3, <2>1 DEF EntriesOf
<1>7. /\ Append(EntriesOf(h), i) \in Seq(Nat)
      /\ Len(Append(EntriesOf(h), i)) = Len(b) + 1
      /\ \A j \in 1 .. Len(b) + 1 :
            Append(EntriesOf(h), i)[j] = IF j = Len(b) + 1 THEN i ELSE EntriesOf(h)[j]
  <2>1. PICK e \in Seq(Nat) : e = EntriesOf(h) /\ Len(e) = Len(b)
    BY <1>5
  <2>2. /\ Append(e, i) \in Seq(Nat) /\ Len(Append(e, i)) = Len(e) + 1
        /\ Append(e, i)[Len(e) + 1] = i
        /\ \A j \in 1 .. Len(e) : Append(e, i)[j] = e[j]
    OBVIOUS
  <2>3. \A j \in 1 .. Len(e) + 1 : j # Len(e) + 1 => j \in 1 .. Len(e)
    OBVIOUS
  <2> QED
    BY <2>1, <2>2, <2>3
<1>8. ASSUME NEW j \in 1 .. Len(b) + 1
      PROVE  c[j] = IF j = Len(b) + 1 THEN x ELSE b[j]
  <2>1. /\ Append(b, x)[Len(b) + 1] = x
        /\ \A m \in 1 .. Len(b) : Append(b, x)[m] = b[m]
    OBVIOUS
  <2>2. j # Len(b) + 1 => j \in 1 .. Len(b)
    BY <1>5
  <2> QED
    BY <1>3, <2>1, <2>2
<1>9. \A j \in 1 .. Len(b) + 1 : c[j][1] = IF j = Len(b) + 1 THEN i ELSE EntriesOf(h)[j]
  BY <1>3, <1>4, <1>5, <1>8
<1>10. PICK d \in Seq(Nat) : d = Append(EntriesOf(h), i)
  BY <1>7
<1>11. /\ Len(d) = Len(b) + 1
       /\ \A j \in 1 .. Len(b) + 1 : d[j] = c[j][1]
  BY <1>7, <1>9, <1>10
<1>12. d = [j \in 1 .. Len(d) |-> d[j]]
  OBVIOUS
<1> QED
  BY <1>6, <1>10, <1>11, <1>12

LEMMA RefinementStep ==
    ASSUME Regime, HistInv, [WorkerNext]_allVars
    PROVE  [Abstract!LogNext]_(Abstract!logVars)
<1>0. queues[main] \in Seq(QueueEntry) /\ HeadOf(refs) \in Commit \union {None}
  <2>1. TypeOK /\ main \in Branch
    BY WorkerConstants DEF HistInv, LayerInv
  <2> QED
    BY <2>1, HeadOfType DEF TypeOK
<1>1. CASE UNCHANGED <<refs, queues, next_queue_id>>
  BY <1>1 DEF Abstract!logVars, HeadOf
<1>2. CASE /\ refs' = refs /\ next_queue_id' = next_queue_id + 1
           /\ \E x \in QueueEntry : /\ x.queue_id = next_queue_id
                                    /\ queues'[main] = Append(queues[main], x)
  <2>1. PICK x \in QueueEntry : x.queue_id = next_queue_id /\ queues'[main] = Append(queues[main], x)
    BY <1>2
  <2>2. EntrySeq(queues'[main]) = Append(EntrySeq(queues[main]), next_queue_id)
    BY <1>0, <2>1, EntrySeqs
  <2>3. HeadOf(refs') = HeadOf(refs)
    BY <1>2 DEF HeadOf
  <2>4. Abstract!Accept
    BY <1>2, <2>2, <2>3 DEF Abstract!Accept
  <2> QED
    BY <2>4 DEF Abstract!LogNext
<1>3. ASSUME next_queue_id' = next_queue_id, queues[main] # <<>>,
             queues'[main] = Tail(queues[main])
      PROVE  /\ EntrySeq(queues[main]) # <<>>
             /\ EntrySeq(queues'[main]) = Tail(EntrySeq(queues[main]))
             /\ Head(EntrySeq(queues[main])) = Head(queues[main]).queue_id
  BY <1>0, <1>3, EntrySeqs
<1>4. CASE /\ next_queue_id' = next_queue_id /\ queues[main] # <<>>
           /\ queues'[main] = Tail(queues[main]) /\ HeadOf(refs') = HeadOf(refs)
  <2>1. Abstract!Discard
    BY <1>3, <1>4 DEF Abstract!Discard
  <2> QED
    BY <2>1 DEF Abstract!LogNext
<1>5. CASE /\ next_queue_id' = next_queue_id /\ queues[main] # <<>>
           /\ queues'[main] = Tail(queues[main])
           /\ \E s \in 0 .. MaxStamp :
                 /\ HeadOf(refs') \in Commit
                 /\ HeadOf(refs') = Append(Chain(HeadOf(refs)), <<Head(queues[main]).queue_id, s>>)
  <2>1. PICK s \in 0 .. MaxStamp :
           /\ HeadOf(refs') \in Commit
           /\ HeadOf(refs') = Append(Chain(HeadOf(refs)), <<Head(queues[main]).queue_id, s>>)
    BY <1>5
  <2>2. PICK i \in Nat : i = Head(queues[main]).queue_id
    <3>1. Head(queues[main]) \in QueueEntry
      BY <1>0, <1>5
    <3> QED
      BY <3>1 DEF QueueEntry
  <2>3. PICK h \in Commit \union {None} : h = HeadOf(refs)
    BY <1>0
  <2>4. PICK c \in Commit : c = HeadOf(refs') /\ c = Append(Chain(h), <<i, s>>)
    BY <2>1, <2>2, <2>3
  <2>5. EntriesOf(c) = Append(EntriesOf(h), i)
    BY <2>4, EntriesOfLanded
  <2>6. Abstract!Land
    BY <1>3, <1>5, <2>2, <2>3, <2>4, <2>5 DEF Abstract!Land
  <2> QED
    BY <2>6 DEF Abstract!LogNext
<1> QED
  BY <1>1, <1>2, <1>4, <1>5, BranchSteps

\* In the regime, the queued commit path implements the log of BranchLog: whoever
\* stages, retries, ferries or loses what, entries end one at a time and in order,
\* and a commit extends the history it found by its own entry.
LEMMA BranchIsALog ==
    ASSUME Regime
    PROVE  WorkerSpec => ImplementsBranchLog
<1>1. WorkerInit => HistInv
  BY HistStart
<1>2. HistInv /\ [WorkerNext]_allVars => HistInv'
  BY HistStep
<1>3. WorkerInit => Abstract!LogInit
  <2> SUFFICES ASSUME WorkerInit PROVE Abstract!LogInit
    OBVIOUS
  <2>1. queues[main] = <<>> /\ HeadOf(refs) = None /\ next_queue_id = 0
    BY WorkerConstants DEF WorkerInit, HeadOf
  <2>2. EntrySeq(queues[main]) = <<>>
    BY <2>1 DEF EntrySeq
  <2>3. EntriesOf(HeadOf(refs)) = <<>>
    BY <2>1 DEF EntriesOf
  <2> QED
    BY <2>1, <2>2, <2>3 DEF Abstract!LogInit
<1>4. HistInv /\ [WorkerNext]_allVars => [Abstract!LogNext]_(Abstract!logVars)
  BY RefinementStep
<1> QED
  BY <1>1, <1>2, <1>3, <1>4, PTL DEF WorkerSpec, ImplementsBranchLog, Abstract!LogSpec

=============================================================================
