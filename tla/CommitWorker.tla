---------------------------- MODULE CommitWorker ----------------------------
(***************************************************************************)
(* The commit workers of one branch over the replicated state machine:     *)
(* raft/commit_worker.rs (supervisor, run loop, staging, settlement),      *)
(* raft/staged_receipt.rs (the per-node stash) and the publish paths of    *)
(* raft/nameservice.rs (leader-local propose, cross-node ferry).           *)
(*                                                                         *)
(* The variables of NameServiceState hold the state after every committed  *)
(* log entry.  The leader has applied all of them; any other node has      *)
(* applied a prefix of `log`.  A worker acts on three views that may all   *)
(* be out of date: the queue and the head its node has applied, the head   *)
(* its node's ledger handle holds, and the answer to its last call.         *)
(*                                                                         *)
(* Content ids are content addressed: a commit is the chain of changes     *)
(* that leads to it, so its t is the length of the chain.  A change is     *)
(* <<entry, stamp>>.  A transaction staged twice has two stamps, since the *)
(* commit carries the time of its staging, unless the client gave it an    *)
(* event time ("timed"); a pushed commit is the client's and has one.      *)
(***************************************************************************)
EXTENDS NameServiceState

CONSTANTS
    Node,              \* cluster members
    Owner,             \* nodes that may come to believe they own the branch
    Candidate,         \* nodes that may lead
    main,              \* the branch
    MaxStamp,          \* bound: stagings of one change in existence at a time
    MaxStageAttempts,  \* MAX_STAGE_ATTEMPTS
    Fault,             \* which faults and operator actions may happen
    MaxFaults          \* bound: how many of them

ASSUME WorkerAssumption ==
    /\ main \in Branch /\ MaxQueueId # 0
    /\ Owner \subseteq Node /\ Candidate \subseteq Node
    /\ MaxStamp \in Nat /\ MaxStageAttempts \in Nat \ {0} /\ MaxFaults \in Nat
    /\ Fault \subseteq {"lose", "flap", "elect", "reset", "hiccup"}
    /\ Body \subseteq {"transact", "timed", "sync", "push", "malformed"}

\* A commit is a chain of changes and its t the length of the chain.  A rollback
\* may name any commit, and nothing in the worker depends on clock readings.
ASSUME ChainAssumption ==
    /\ Commit \subseteq Seq((0 .. MaxQueueId - 1) \X Nat) \ {<<>>}
    /\ \A c \in Commit : CommitT[c] = Len(c)
    /\ [head : Commit, index : {None}] \subseteq Snapshot
    /\ 0 \in Millis

VARIABLES
    log,       \* what each committed change of the branch left, and its stash effect
    applied,   \* applied[n]: how much of the log node n has applied
    leader,    \* the node whose proposals commit
    owned,     \* nodes that believe they own the branch
    w,         \* w[n]: the worker task of node n
    cache,     \* cache[n]: the head of node n's ledger handle
    stash,     \* stash[n]: queue ids in node n's StagedReceiptMap
    calls,     \* ApplyHead and PoisonQueueEntry attempts in flight
    blobs,     \* commits in the content store, which all nodes share
    pushed,    \* pushed[i]: the commit entry i pushes
    faults     \* how many faults have happened

workerVars == <<log, applied, leader, owned, w, cache, stash, calls, blobs, pushed, faults>>
allVars == <<vars, workerVars>>

Ids == 0 .. MaxQueueId - 1

\* What a committed log entry leaves: the branch's queue and head and the next
\* queue id, and the queue ids whose receipts every observer takes.
Change == [queue : Seq(QueueEntry), head : Commit \union {None}, next : 0 .. MaxQueueId,
           taken : SUBSET Ids]

\* The worker of node n: where it is, the entry and the staged commit it
\* holds, how often it staged, the answer it got, and `done`, one above the
\* last_committed queue id.
Task == [pc : {"none", "idle", "stage", "publish", "wait", "settle", "refresh", "poison"},
         id : Ids, body : Body \union {None}, c : Commit \union {None},
         attempt : 0 .. MaxStageAttempts,
         result : {"none", "Ok", "Stale", "Lagged", "Raft"}, done : 0 .. MaxQueueId]

NoTask == [pc |-> "none", id |-> 0, body |-> None, c |-> None, attempt |-> 0,
           result |-> "none", done |-> 0]

\* An attempt: who made it, where it was sent, its stage (on the wire, in the
\* leader's handler with a stash slot, proposed by a worker on its own node,
\* or left behind by a leader that stepped down), and whether it is awaited.
Call == [from : Node, to : Node, kind : {"head", "poison"}, id : Ids,
         c : Commit \union {None}, stage : {"sent", "handling", "proposed", "orphan"},
         awaited : BOOLEAN]

HeadOf(r) == IF r[main] = None THEN None ELSE r[main].head

ViewQueue(n) == log[applied[n]].queue

ViewHead(n) == log[applied[n]].head

-----------------------------------------------------------------------------
(* An empty cluster with the branch created; create_ledger is the only     *)
(* command that has been applied.                                          *)
WorkerInit ==
    /\ branches = {main}
    /\ refs = [b \in Branch |-> None]
    /\ retracted = {}
    /\ idempotency = [b \in Branch |-> [k \in Key |-> None]]
    /\ queues = [b \in Branch |-> <<>>]
    /\ next_queue_id = 0
    /\ recently_cleared = [b \in Branch |-> None]
    /\ released = [i \in Ids |-> 0]
    /\ log = <<[queue |-> <<>>, head |-> None, next |-> 0, taken |-> {}]>>
    /\ applied = [n \in Node |-> 1]
    /\ leader \in Candidate
    /\ owned \in SUBSET Owner \ {{}}
    /\ w = [n \in Node |-> NoTask]
    /\ cache = [n \in Node |-> None]
    /\ stash = [n \in Node |-> {}]
    /\ calls = {}
    /\ blobs = {}
    /\ pushed = [i \in Ids |-> None]
    /\ faults = 0

\* A log entry that changed the branch is committed.  The leader applies it
\* now, its observer taking the stashed receipts of the entries it ended.
Committed(taken) ==
    /\ log' = Append(log, [queue |-> queues'[main], head |-> HeadOf(refs'),
                           next |-> next_queue_id', taken |-> taken])
    /\ applied' = [applied EXCEPT ![leader] = Len(log')]

\* The apply loop of a node that does not lead.
CatchUp(n) ==
    /\ applied[n] < Len(log)
    /\ applied' = [applied EXCEPT ![n] = @ + 1]
    /\ stash' = [stash EXCEPT ![n] = @ \ log[applied[n] + 1].taken]
    /\ UNCHANGED <<vars, log, leader, owned, w, cache, calls, blobs, pushed, faults>>

T(c) == IF c = None THEN 0 ELSE CommitT[c]

\* The ledger handle follows the applied head forward; a head that is not
\* later than what it holds is ignored.
Refreshed(n) == IF T(ViewHead(n)) > T(cache[n]) THEN ViewHead(n) ELSE cache[n]

\* The commit-event listener refreshes the handle, unless a worker holds its
\* write guard.
ListenerRefresh(n) ==
    /\ w[n].pc \in {"publish", "wait", "settle"} => w[n].body = "sync"
    /\ cache[n] # Refreshed(n)
    /\ cache' = [cache EXCEPT ![n] = Refreshed(n)]
    /\ UNCHANGED <<vars, log, applied, leader, owned, w, stash, calls, blobs, pushed, faults>>

-----------------------------------------------------------------------------
(* Submissions and operators.                                              *)

\* A keyless submission is enqueued.  The commits of a push are in the
\* content store before its entry is, on top of a head the client has seen.
Submit(body) ==
    /\ apply_enqueue_command(main, None, body)
    /\ IF body = "push"
       THEN LET base == IF HeadOf(refs) = None THEN <<>> ELSE HeadOf(refs)
                c == Append(base, <<next_queue_id, 0>>) IN
            /\ c \in Commit
            /\ pushed' = [pushed EXCEPT ![next_queue_id] = c]
            /\ blobs' = blobs \union {c}
       ELSE UNCHANGED <<pushed, blobs>>
    /\ Committed({})
    /\ UNCHANGED <<leader, owned, w, cache, stash, calls, faults>>

Happens(kind) == kind \in Fault /\ faults < MaxFaults /\ faults' = faults + 1

\* A rollback to an earlier head of the branch.  Every receipt stashed for the
\* branch is drained.
Rollback ==
    /\ Happens("reset")
    /\ HeadOf(refs) # None
    /\ \E k \in 1 .. Len(log) :
          /\ log[k].head \notin {None, HeadOf(refs)}
          /\ reset_head(main, [head |-> log[k].head, index |-> None], 0)
    /\ Committed(Ids)
    /\ stash' = [stash EXCEPT ![leader] = {}]
    /\ UNCHANGED <<leader, owned, w, cache, calls, blobs, pushed>>

\* A node's opinion of who owns the branch changes: rendezvous hashing over
\* the eligible voters it has applied.
OwnershipFlap(n) ==
    /\ Happens("flap")
    /\ n \in Owner
    /\ owned' = IF n \in owned THEN owned \ {n} ELSE owned \union {n}
    /\ UNCHANGED <<vars, log, applied, leader, w, cache, stash, calls, blobs, pushed>>

\* Worker n hears `result` of its call, or something else became of the call.
Answer(call, result) ==
    IF call.awaited
    THEN [w EXCEPT ![call.from] = [@ EXCEPT !.pc = "settle", !.result = result]]
    ELSE w

\* A leader steps down for one that has applied everything.  What it had
\* proposed may or may not survive; its handlers and its own worker learn
\* nothing about that.
ChangeLeader(n) ==
    /\ Happens("elect")
    /\ n \in Candidate \ {leader}
    /\ applied[n] = Len(log)
    /\ leader' = n
    /\ LET cut == {k \in calls : k.to = leader /\ k.stage \in {"handling", "proposed"}} IN
       /\ calls' = (calls \ cut) \union
                   {[k EXCEPT !.stage = "orphan", !.awaited = FALSE] : k \in cut}
       /\ w' = [m \in Node |->
                   IF \E k \in cut : k.from = m /\ k.awaited
                   THEN [w[m] EXCEPT !.pc = "settle", !.result = "Raft"] ELSE w[m]]
       /\ stash' = [stash EXCEPT ![leader] =
                       @ \ {k.id : k \in {j \in cut : j.stage = "handling" /\ j.kind = "head"}}]
    /\ UNCHANGED <<vars, log, applied, owned, cache, blobs, pushed>>

-----------------------------------------------------------------------------
(* The supervisor.                                                         *)

Desired(n) == n \in owned /\ ViewQueue(n) # <<>>

spawn_worker(n) ==
    /\ Desired(n) /\ w[n].pc = "none"
    /\ w' = [w EXCEPT ![n] = [NoTask EXCEPT !.pc = "idle"]]
    /\ UNCHANGED <<vars, log, applied, leader, owned, cache, stash, calls, blobs, pushed, faults>>

\* The task is dropped wherever it is.  Its StashGuard frees the slot; its
\* call goes on without it.
HoldsGuard(n) == w[n].pc \in {"publish", "wait", "settle"} /\ w[n].c # None

DropGuard(n) == IF HoldsGuard(n) THEN [stash EXCEPT ![n] = @ \ {w[n].id}] ELSE stash

\* Mutant: the receipt of an aborted task stays in the stash.
abort_worker_KeepsStash(n) ==
    /\ ~Desired(n) /\ w[n].pc # "none"
    /\ calls' = {IF k.from = n THEN [k EXCEPT !.awaited = FALSE] ELSE k : k \in calls}
    /\ w' = [w EXCEPT ![n] = NoTask]
    /\ UNCHANGED <<vars, log, applied, leader, owned, cache, stash, blobs, pushed, faults>>

abort_worker(n) ==
    /\ ~Desired(n) /\ w[n].pc # "none"
    /\ stash' = DropGuard(n)
    /\ calls' = {IF k.from = n THEN [k EXCEPT !.awaited = FALSE] ELSE k : k \in calls}
    /\ w' = [w EXCEPT ![n] = NoTask]
    /\ UNCHANGED <<vars, log, applied, leader, owned, cache, blobs, pushed, faults>>

-----------------------------------------------------------------------------
(* The worker: run, process_entry, try_advance_head.                       *)

\* An entry whose pop this node has not applied yet is not staged again.
snapshot_front(n) ==
    /\ w[n].pc = "idle"
    /\ ViewQueue(n) # <<>>
    /\ Head(ViewQueue(n)).queue_id >= w[n].done
    /\ w' = [w EXCEPT ![n] = [NoTask EXCEPT !.pc = "stage", !.done = w[n].done,
                !.id = Head(ViewQueue(n)).queue_id, !.body = Head(ViewQueue(n)).body,
                !.attempt = 1]]
    /\ UNCHANGED <<vars, log, applied, leader, owned, cache, stash, calls, blobs, pushed, faults>>

\* The commits a transaction on top of the cached head may become.  A stamp
\* may come back once no trace of its commit is left; a client's event time is
\* the same at every staging.
FreshCommits(n) ==
    LET base == IF cache[n] = None THEN <<>> ELSE cache[n]
        Free(s) == /\ Append(base, <<w[n].id, s>>) \in Commit \ blobs
                   /\ \A k \in calls : k.c # Append(base, <<w[n].id, s>>) IN
    IF w[n].body = "timed" THEN {Append(base, <<w[n].id, 0>>)} \intersect Commit
    ELSE {Append(base, <<w[n].id, s>>) : s \in {s \in 1 .. MaxStamp :
             Free(s) /\ \A r \in 1 .. s - 1 : ~Free(r)}}

\* Stash the receipt and go on to publish c.
Staged(n, c) ==
    /\ w' = [w EXCEPT ![n] = [@ EXCEPT !.pc = "publish", !.c = c]]
    /\ stash' = [stash EXCEPT ![n] = @ \union {w[n].id}]

stage_and_persist(n) ==
    /\ w[n].pc = "stage" /\ w[n].body \in {"transact", "timed"}
    /\ \E c \in FreshCommits(n) : Staged(n, c) /\ blobs' = blobs \union {c}
    /\ UNCHANGED <<vars, log, applied, leader, owned, cache, calls, pushed, faults>>

\* A transaction that changes nothing republishes the head of the handle.
stage_no_change(n) ==
    /\ w[n].pc = "stage" /\ w[n].body = "sync" /\ cache[n] # None
    /\ Staged(n, cache[n])
    /\ UNCHANGED <<vars, log, applied, leader, owned, cache, calls, blobs, pushed, faults>>

PushFits(n) == LET c == pushed[w[n].id] IN
    SubSeq(c, 1, Len(c) - 1) = IF cache[n] = None THEN <<>> ELSE cache[n]

process_push(n) ==
    /\ w[n].pc = "stage" /\ w[n].body = "push"
    /\ pushed[w[n].id] \in blobs /\ PushFits(n)
    /\ Staged(n, pushed[w[n].id])
    /\ UNCHANGED <<vars, log, applied, leader, owned, cache, calls, blobs, pushed, faults>>

\* A push that does not extend the handle's head is a transient failure until
\* the attempts are used up.
TransientFailure(n) == w[n].body = "push" /\ pushed[w[n].id] \in blobs /\ ~PushFits(n)

DeterministicFailure(n) ==
    \/ w[n].body = "malformed"
    \/ w[n].body = "sync" /\ cache[n] = None
    \/ w[n].body = "push" /\ pushed[w[n].id] \notin blobs

\* Mutant: one attempt too many.
StageRetry_OffByOne(n) ==
    w' = IF w[n].attempt <= MaxStageAttempts
         THEN [w EXCEPT ![n] = [@ EXCEPT !.pc = "refresh", !.attempt = w[n].attempt + 1]]
         ELSE [w EXCEPT ![n] = [@ EXCEPT !.pc = "poison"]]

StageRetry(n) ==
    w' = IF w[n].attempt < MaxStageAttempts
         THEN [w EXCEPT ![n] = [@ EXCEPT !.pc = "refresh", !.attempt = w[n].attempt + 1]]
         ELSE [w EXCEPT ![n] = [@ EXCEPT !.pc = "poison"]]

\* The content store may also fail for a while, whatever the body.
stage_fails(n) ==
    /\ w[n].pc = "stage"
    /\ \/ TransientFailure(n) /\ StageRetry(n) /\ UNCHANGED faults
       \/ Happens("hiccup") /\ StageRetry(n)
       \/ /\ DeterministicFailure(n)
          /\ w' = [w EXCEPT ![n] = [@ EXCEPT !.pc = "poison"]]
          /\ UNCHANGED faults
    /\ UNCHANGED <<vars, log, applied, leader, owned, cache, stash, calls, blobs, pushed>>

\* Between attempts the handle is refreshed.
refresh(n) ==
    /\ w[n].pc = "refresh"
    /\ cache' = [cache EXCEPT ![n] = Refreshed(n)]
    /\ w' = [w EXCEPT ![n] = [@ EXCEPT !.pc = "stage"]]
    /\ UNCHANGED <<vars, log, applied, leader, owned, stash, calls, blobs, pushed, faults>>

-----------------------------------------------------------------------------
(* Publishing.                                                             *)

\* The smallest id stashed on the node for the branch, if there is one.
peek_queue_id_for(n) == {i \in stash[n] : \A j \in stash[n] : i <= j}

\* Mutant: the publisher samples the queue front, as it once did.
ClaimedIds_QueueFront(n) ==
    IF ViewQueue(n) # <<>> THEN {Head(ViewQueue(n)).queue_id} ELSE {}

\* The id a publish claims: that of a stashed receipt, else the front of the
\* queue as the node sees it.
ClaimedIds(n) ==
    IF stash[n] # {} THEN peek_queue_id_for(n)
    ELSE IF ViewQueue(n) # <<>> THEN {Head(ViewQueue(n)).queue_id} ELSE {}

publish_commit(n) ==
    /\ w[n].pc = "publish"
    /\ \/ \E i \in ClaimedIds(n) :
            /\ calls' = calls \union
                  {[from |-> n, to |-> leader, kind |-> "head", id |-> i, c |-> w[n].c,
                    stage |-> IF n = leader THEN "proposed" ELSE "sent", awaited |-> TRUE]}
            /\ stash' = IF n = leader THEN stash ELSE [stash EXCEPT ![n] = @ \ {i}]
            /\ w' = [w EXCEPT ![n] = [@ EXCEPT !.pc = "wait"]]
       \/ /\ ClaimedIds(n) = {}
          /\ w' = [w EXCEPT ![n] = [@ EXCEPT !.pc = "settle", !.result = "Raft"]]
          /\ UNCHANGED <<calls, stash>>
    /\ UNCHANGED <<vars, log, applied, leader, owned, cache, blobs, pushed, faults>>

propose_poison(n) ==
    /\ w[n].pc = "poison"
    /\ calls' = calls \union
          {[from |-> n, to |-> leader, kind |-> "poison", id |-> w[n].id, c |-> None,
            stage |-> IF n = leader THEN "proposed" ELSE "sent", awaited |-> TRUE]}
    /\ w' = [w EXCEPT ![n] = [@ EXCEPT !.pc = "wait"]]
    /\ UNCHANGED <<vars, log, applied, leader, owned, cache, stash, blobs, pushed, faults>>

\* The handler of a ferry.  A node that does not lead cannot propose; a slot
\* that is taken is refused; otherwise the receipt is stashed here.
apply_staged_commit(k) ==
    /\ k.stage = "sent"
    /\ \/ /\ k.to # leader
          /\ calls' = calls \ {k}
          /\ w' = Answer(k, "Raft")
          /\ UNCHANGED stash
       \/ /\ k.to = leader /\ k.kind = "head" /\ k.id \in stash[leader]
          /\ calls' = calls \ {k}
          /\ w' = Answer(k, "Lagged")
          /\ UNCHANGED stash
       \/ /\ k.to = leader /\ (k.kind = "head" => k.id \notin stash[leader])
          /\ calls' = (calls \ {k}) \union {[k EXCEPT !.stage = "handling"]}
          /\ stash' = IF k.kind = "head"
                      THEN [stash EXCEPT ![leader] = @ \union {k.id}] ELSE stash
          /\ UNCHANGED w
    /\ UNCHANGED <<vars, log, applied, leader, owned, cache, blobs, pushed, faults>>

\* Mutant: a commit behind the head counts as stale.
PublishResult_NotMonotonicIsStale(k) ==
    IF HeadResponse(main, k.id, k.c) = "HeadApplied" THEN "Ok" ELSE "Stale"

\* What the two publish paths make of the state machine's response.
PublishResult(k) ==
    CASE HeadResponse(main, k.id, k.c) = "HeadApplied" -> "Ok"
      [] HeadResponse(main, k.id, k.c) = "HeadNotMonotonic" -> "Lagged"
      [] OTHER -> "Stale"

\* The proposal commits and is applied on the leader; then the handler's
\* guard goes and the answer returns.
client_write(k) ==
    /\ k.stage \in {"handling", "proposed", "orphan"}
    /\ calls' = calls \ {k}
    /\ \/ /\ k.kind = "head"
          /\ w' = Answer(k, PublishResult(k))
          /\ \/ apply_head(main, k.id, k.c, 0)
             \/ /\ HeadResponse(main, k.id, k.c) \notin {"HeadApplied", "QueueCleared"}
                /\ UNCHANGED vars
       \/ /\ k.kind = "poison"
          /\ w' = Answer(k, "Ok")
          /\ \/ apply_poison_queue_entry(main, k.id, 0)
             \/ FrontCheck(main, k.id) \notin {"Ok", "QueueCleared"} /\ UNCHANGED vars
    /\ \/ queues' # queues /\ Committed({k.id})
       \/ queues' = queues /\ UNCHANGED <<log, applied>>
    /\ stash' = IF queues' # queues \/ (k.stage = "handling" /\ k.kind = "head")
                THEN [stash EXCEPT ![leader] = @ \ {k.id}] ELSE stash
    /\ UNCHANGED <<leader, owned, cache, blobs, pushed, faults>>

\* The answer is lost: a timeout, a broken connection, a raft error after the
\* entry was accepted.  The attempt lives on.
LoseAnswer(k) ==
    /\ Happens("lose")
    /\ k.awaited
    /\ calls' = (calls \ {k}) \union {[k EXCEPT !.awaited = FALSE]}
    /\ w' = Answer(k, "Raft")
    /\ UNCHANGED <<vars, log, applied, leader, owned, cache, stash, blobs, pushed>>

\* An attempt nobody waits for comes to nothing: the request never arrives,
\* the handler dies before it proposes, the log entry is overwritten.
LoseCall(k) ==
    /\ ~k.awaited
    /\ calls' = calls \ {k}
    /\ stash' = IF k.stage = "handling" /\ k.kind = "head"
                THEN [stash EXCEPT ![leader] = @ \ {k.id}] ELSE stash
    /\ UNCHANGED <<vars, log, applied, leader, owned, w, cache, blobs, pushed, faults>>

-----------------------------------------------------------------------------
(* Settling: the tail of try_advance_head, and what process_entry and run   *)
(* make of it.                                                             *)

\* A different head, even a later one, is not ours.
commit_replicated(n) == w[n].c # None /\ ViewHead(n) = w[n].c

Settling(n) == w[n].pc = "settle"

\* The entry is over for this worker.
Done(n) == [w EXCEPT ![n] = [NoTask EXCEPT !.pc = "idle", !.done = w[n].id + 1]]

\* The head landed, by this call or as the applied state shows: install the
\* staged state.  A no-change transaction has nothing to install.
settle_landed(n) ==
    /\ Settling(n) /\ w[n].c # None
    /\ w[n].result = "Ok" \/ commit_replicated(n)
    /\ cache' = IF w[n].body = "sync" THEN cache ELSE [cache EXCEPT ![n] = w[n].c]
    /\ stash' = DropGuard(n)
    /\ w' = Done(n)
    /\ UNCHANGED <<vars, log, applied, leader, owned, calls, blobs, pushed, faults>>

Rejected(n, result) ==
    Settling(n) /\ w[n].c # None /\ w[n].result = result /\ ~commit_replicated(n)

\* release_orphaned_commit_blob.
settle_stale(n) ==
    /\ Rejected(n, "Stale")
    /\ blobs' = blobs \ {w[n].c}
    /\ stash' = DropGuard(n)
    /\ w' = Done(n)
    /\ UNCHANGED <<vars, log, applied, leader, owned, cache, calls, pushed, faults>>

settle_lagged(n) ==
    /\ Rejected(n, "Lagged")
    /\ blobs' = blobs \ {w[n].c}
    /\ stash' = DropGuard(n)
    /\ w' = [w EXCEPT ![n] = [@ EXCEPT !.pc = "refresh", !.c = None, !.attempt = 1]]
    /\ UNCHANGED <<vars, log, applied, leader, owned, cache, calls, pushed, faults>>

\* Mutants: an unknown outcome is taken for a rejection; for a completed entry.
settle_unknown_Releases(n) ==
    /\ Rejected(n, "Raft")
    /\ blobs' = blobs \ {w[n].c}
    /\ stash' = DropGuard(n)
    /\ w' = [w EXCEPT ![n] = [NoTask EXCEPT !.pc = "idle", !.done = w[n].done]]
    /\ UNCHANGED <<vars, log, applied, leader, owned, cache, calls, pushed, faults>>

settle_unknown_Completes(n) ==
    /\ Rejected(n, "Raft")
    /\ stash' = DropGuard(n)
    /\ w' = Done(n)
    /\ UNCHANGED <<vars, log, applied, leader, owned, cache, calls, blobs, pushed, faults>>

\* The outcome is unknown: the blob is kept and the front is tried again.
settle_unknown(n) ==
    /\ Rejected(n, "Raft")
    /\ stash' = DropGuard(n)
    /\ w' = [w EXCEPT ![n] = [NoTask EXCEPT !.pc = "idle", !.done = w[n].done]]
    /\ UNCHANGED <<vars, log, applied, leader, owned, cache, calls, blobs, pushed, faults>>

settle_poison(n) ==
    /\ Settling(n) /\ w[n].c = None
    /\ w' = IF w[n].result = "Ok" THEN Done(n)
            ELSE [w EXCEPT ![n] = [NoTask EXCEPT !.pc = "idle", !.done = w[n].done]]
    /\ UNCHANGED <<vars, log, applied, leader, owned, cache, stash, calls, blobs, pushed, faults>>

-----------------------------------------------------------------------------
WorkerStep(n) ==
    \/ spawn_worker(n) \/ abort_worker(n) \/ snapshot_front(n)
    \/ stage_and_persist(n) \/ stage_no_change(n) \/ process_push(n) \/ stage_fails(n)
    \/ refresh(n) \/ publish_commit(n) \/ propose_poison(n)
    \/ settle_landed(n) \/ settle_stale(n) \/ settle_lagged(n) \/ settle_unknown(n)
    \/ settle_poison(n)

WorkerNext ==
    \/ \E body \in Body : Submit(body)
    \/ Rollback
    \/ \E n \in Node : OwnershipFlap(n) \/ ChangeLeader(n)
    \/ \E n \in Node : CatchUp(n) \/ ListenerRefresh(n) \/ WorkerStep(n)
    \/ \E k \in calls : apply_staged_commit(k) \/ client_write(k) \/ LoseAnswer(k) \/ LoseCall(k)

WorkerSpec == WorkerInit /\ [][WorkerNext]_allVars

\* Fairness.  Tokio runs a ready task, raft replicates and answers what it
\* was given, and the event listener runs; faults, operators and clients owe
\* nothing.  The handler of an abandoned call has a fairness of its own: it is
\* not starved by newer calls.
Fairness ==
    /\ \A n \in Node : WF_allVars(CatchUp(n)) /\ WF_allVars(WorkerStep(n))
    /\ WF_allVars(\E k \in calls : k.awaited /\ (apply_staged_commit(k) \/ client_write(k)))
    /\ WF_allVars(\E k \in calls :
                     ~k.awaited /\ k.stage = "handling" /\ (client_write(k) \/ LoseCall(k)))

FairWorkerSpec == WorkerSpec /\ Fairness

-----------------------------------------------------------------------------
(* Properties.                                                             *)

\* Every variable of the worker layer has its type.
WorkerTypeOK ==
    /\ log \in Seq(Change)
    /\ applied \in [Node -> 1 .. Len(log)] /\ applied[leader] = Len(log)
    /\ leader \in Candidate /\ owned \subseteq Owner
    /\ w \in [Node -> Task]
    /\ cache \in [Node -> Commit \union {None}]
    /\ stash \in [Node -> SUBSET Ids]
    /\ calls \subseteq Call
    /\ blobs \subseteq Commit
    /\ pushed \in [Ids -> Commit \union {None}]
    /\ faults \in 0 .. MaxFaults

\* Every commit of the replicated head's chain is in the content store: a
\* worker that gives up a staged commit never deletes one the cluster kept
\* (try_advance_head, is_rejection, release_orphaned_commit_blob).
HeadBlobDurable ==
    HeadOf(refs) # None =>
        \A i \in 1 .. Len(HeadOf(refs)) : SubSeq(HeadOf(refs), 1, i) \in blobs

\* The branch's history holds the entries' changes in queue order, each at
\* most once, however often an entry was staged, by however many workers
\* (run's comment: a second ApplyHead would carry "our body but pops the next
\* entry").
HistoryInQueueOrder ==
    HeadOf(refs) # None =>
        \A i, j \in 1 .. Len(HeadOf(refs)) : i < j => HeadOf(refs)[i][1] < HeadOf(refs)[j][1]

\* A worker that has put an entry behind it is right: the entry has left the
\* queue ("Returns once the entry has reached a terminal state in the queue
\* (advanced or poisoned)", process_entry; run never looks at it again).
CompletedMeansTerminal ==
    \A n \in Node : \A i \in EntryIds(queues[main]) : i >= w[n].done

\* The head a popped entry leaves is its own work, or the head it found: the
\* claimed queue id and the published commit belong together
\* (build_apply_head_command, take_pending).
AppliedWorkIsTheEntrys ==
    [][HeadOf(refs') # HeadOf(refs) /\ faults' = faults =>
          LET h == HeadOf(refs') IN h[Len(h)][1] = Head(queues[main]).queue_id]_allVars

\* A stash slot belongs to a task or to a handler that will clear it: aborts,
\* step-downs and lost calls strand no receipt (StashGuard).
StashHasOwner ==
    \A n \in Node : \A i \in stash[n] :
        \/ HoldsGuard(n) /\ w[n].id = i
        \/ \E k \in calls : k.stage = "handling" /\ k.to = n /\ k.id = i

EntrySeq(queue) == [j \in 1 .. Len(queue) |-> queue[j].queue_id]

EntriesOf(c) == IF c = None THEN <<>> ELSE [j \in 1 .. Len(c) |-> c[j][1]]

Abstract == INSTANCE BranchLog WITH
    accepted <- next_queue_id,
    pending <- EntrySeq(queues[main]),
    history <- EntriesOf(HeadOf(refs))

\* However many nodes stage an entry and whatever answers are lost, the branch
\* is a log: entries end one at a time and in order, and a commit extends the
\* history it found by its own entry, so no update is lost or overwritten by
\* one that was staged on an older head (apply_head's front and t checks, the
\* workers' three stale views).
ImplementsBranchLog == Abstract!LogSpec

\* Every entry leaves the queue: an entry whose outcome a worker could not learn
\* is taken up again until it is decided (run, settle).
QueueDrains ==
    \A i \in Ids : i \in EntryIds(queues[main]) ~> i \notin EntryIds(queues[main])

=============================================================================
