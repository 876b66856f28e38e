-------------------------- MODULE NameServiceState --------------------------
(***************************************************************************)
(* The replicated state machine of fluree-db-consensus's Raft mode         *)
(* (raft/state_machine.rs): the branch registry, the branch heads, the     *)
(* per-branch command queues, the idempotency cache and the admin-clear    *)
(* markers of `NameServiceState`, with one action per `Command` that       *)
(* touches them.  A step of this specification is the apply of one log     *)
(* entry, which is atomic on every node.  Anyone may propose anything at   *)
(* any time, so the arguments of a command are not related to the present  *)
(* state: a worker that lags may propose a head for an entry that was      *)
(* consumed or cleared long ago.                                           *)
(*                                                                         *)
(* A refused command leaves the state as it is.  It is a stuttering step,  *)
(* so most actions below are written for their success only; the three     *)
(* queue commands keep their refusals because CommitWorker.tla needs to    *)
(* know them.                                                              *)
(*                                                                         *)
(* The model has one ledger name: branches of different ledgers meet only  *)
(* in the global queue cap and in the eviction batch, and so do branches   *)
(* of one ledger.  `branches` is `LedgerRecord.branches`; the record is    *)
(* there exactly when the set is not empty.  A commit id stands for a      *)
(* commit blob, which contains its own `t`, so heads carry no separate t.  *)
(***************************************************************************)
EXTENDS Naturals, Sequences, FiniteSets

CONSTANTS
    Branch,          \* branch names
    Key,             \* client-supplied idempotency keys
    Body,            \* canonical request bodies (body_cid)
    Commit,          \* commit content ids
    CommitT,         \* the logical time inside each commit
    IndexRoot,       \* index root content ids
    IndexT,          \* the logical time each index root covers
    Snapshot,        \* what callers of ResetHead may pass
    Millis,          \* leader-supplied wall-clock readings
    PerBranchCap,    \* QueueConfig.per_branch_cap
    GlobalCap,       \* QueueConfig.global_cap
    EvictBatchSize,  \* EVICT_BATCH_SIZE
    MaxQueueId,      \* bound: how many entries are ever enqueued
    MaxChildCount,   \* bound: how far a branch's child count goes
    None             \* Rust's Option::None

RefEntry ==
    [head : Commit, index : IndexRoot \union {None},
     source_branch : Branch \union {None}, branches : Nat]

\* ResetHeadSnapshot.  head = None is the unborn snapshot.
ResetHeadSnapshot ==
    [head : Commit \union {None}, index : IndexRoot \union {None}]

\* `request_cid` names the envelope of the submission.  The envelope of the
\* entry with queue_id i is called i (distinct submissions are taken to have
\* distinct envelopes).
QueueEntry ==
    [queue_id : Nat, key : Key \union {None}, body : Body]

ApplyOutcome ==
    [kind : {"Applied", "Failed"}, request_cid : Nat, body : Body,
     recorded_at : Nat, head : Commit \union {None}]

ClearReason == {"BranchRetracted", "BranchPurged", "BranchDropped", "BranchHeadReset"}

ClearMarker == [reason : ClearReason, applied_at : Nat]

ASSUME ConstantsAssumption ==
    /\ CommitT \in [Commit -> Nat \ {0}]
    /\ IndexT \in [IndexRoot -> Nat \ {0}]
    /\ Snapshot \subseteq ResetHeadSnapshot
    /\ Millis \subseteq Nat
    /\ MaxQueueId \in Nat /\ MaxChildCount \in Nat
    /\ PerBranchCap \in Nat /\ GlobalCap \in Nat /\ EvictBatchSize \in Nat

ASSUME NoneAssumption ==
    /\ None \notin Branch \union Key \union Commit \union IndexRoot
    /\ None \notin RefEntry
    /\ None \notin ApplyOutcome
    /\ None \notin ClearMarker

\* A snapshot is a copy of some branch's record, and a record's index never
\* covers more than its commits.
ASSUME SnapshotAssumption ==
    \A s \in Snapshot : s.index # None =>
        s.head # None /\ IndexT[s.index] <= CommitT[s.head]

VARIABLES
    branches,          \* LedgerRecord.branches
    refs,              \* refs: Branch -> RefEntry, None while unborn
    retracted,         \* retracted: soft-dropped branches
    idempotency,       \* idempotency[b][k]: the outcome recorded for (b, k)
    queues,            \* queues: a missing queue is the empty one
    next_queue_id,     \* next_queue_id
    recently_cleared,  \* recently_cleared: the marker of an admin clear
    released           \* how often the release of envelope i was ordered
                       \* (Response.released_envelope(s), summed over the log)

vars == <<branches, refs, retracted, idempotency, queues, next_queue_id,
          recently_cleared, released>>

registryVars == <<branches, refs, retracted>>
queueVars    == <<queues, next_queue_id, recently_cleared>>

-----------------------------------------------------------------------------
Init ==
    /\ branches = {}
    /\ refs = [b \in Branch |-> None]
    /\ retracted = {}
    /\ idempotency = [b \in Branch |-> [k \in Key |-> None]]
    /\ queues = [b \in Branch |-> <<>>]
    /\ next_queue_id = 0
    /\ recently_cleared = [b \in Branch |-> None]
    /\ released = [i \in 0 .. MaxQueueId - 1 |-> 0]

\* The ids of the envelopes a sequence of entries holds.
EntryIds(q) == {q[i].queue_id : i \in DOMAIN q}

\* Order the release of the envelopes in S.
Release(S) ==
    released' = [i \in DOMAIN released |->
                    IF i \in S THEN released[i] + 1 ELSE released[i]]

-----------------------------------------------------------------------------
(* Ledger lifecycle.                                                       *)

create_ledger(b) ==
    /\ b \notin branches
    /\ branches' = branches \union {b}
    /\ UNCHANGED <<refs, retracted, idempotency, queueVars, released>>

\* The queue goes, its envelopes are released, and a marker is left if there
\* was anything in it.
clear_queue_for_admin(b, reason, at) ==
    /\ queues' = [queues EXCEPT ![b] = <<>>]
    /\ recently_cleared' =
          IF queues[b] = <<>> THEN recently_cleared
          ELSE [recently_cleared EXCEPT ![b] = [reason |-> reason, applied_at |-> at]]
    /\ Release(EntryIds(queues[b]))
    /\ UNCHANGED next_queue_id

retract_ledger(b, at) ==
    /\ b \in branches
    /\ b \notin retracted
    /\ retracted' = retracted \union {b}
    /\ clear_queue_for_admin(b, "BranchRetracted", at)
    /\ UNCHANGED <<branches, refs, idempotency>>

\* Mutant: the parent's count is not brought down.
decrement_child_count_Forgotten(r, p) == r

\* The child count of b's source branch, one less (saturating); nothing when
\* the source is gone.
decrement_child_count(r, p) ==
    IF p = None \/ r[p] = None THEN r
    ELSE [r EXCEPT ![p].branches = IF @ = 0 THEN 0 ELSE @ - 1]

\* Mutant: the lineage guard is gone.
HasChildren_Unguarded(b) == FALSE

HasChildren(b) == refs[b] # None /\ refs[b].branches > 0

\* Mutant: the retraction mark outlives the branch.
RemoveBranch_KeepsMark(b) ==
    /\ ~HasChildren(b)
    /\ branches' = branches \ {b}
    /\ retracted' = retracted
    /\ refs' = decrement_child_count(
                   [refs EXCEPT ![b] = None],
                   IF refs[b] = None THEN None ELSE refs[b].source_branch)

\* What purge_branch and drop_branch have in common: the ref, the retraction
\* mark and the registration go, and the parent loses a child.
RemoveBranch(b) ==
    /\ ~HasChildren(b)
    /\ branches' = branches \ {b}
    /\ retracted' = retracted \ {b}
    /\ refs' = decrement_child_count(
                   [refs EXCEPT ![b] = None],
                   IF refs[b] = None THEN None ELSE refs[b].source_branch)

\* A branch that is not registered may be purged too (AlreadyPurged): it has
\* no queue, so nothing changes (RegistryConsistent).
purge_branch(b, at) ==
    /\ RemoveBranch(b)
    /\ clear_queue_for_admin(b, "BranchPurged", at)
    /\ UNCHANGED idempotency

drop_branch(b, at) ==
    /\ b \in branches
    /\ RemoveBranch(b)
    /\ clear_queue_for_admin(b, "BranchDropped", at)
    /\ UNCHANGED idempotency

\* Fork b from src, at src's head or at the commit the caller named.  A
\* retracted source is not refused.
create_branch(b, src, at_commit) ==
    /\ branches # {}
    /\ b \notin branches
    /\ refs[src] # None /\ refs[src].branches < MaxChildCount
    /\ branches' = branches \union {b}
    /\ refs' = [refs EXCEPT
          ![src].branches = @ + 1,
          ![b] = [head |-> IF at_commit = None THEN refs[src].head ELSE at_commit,
                  index |-> None, source_branch |-> src, branches |-> 0]]
    /\ UNCHANGED <<retracted, idempotency, queueVars, released>>

\* Mutant: the unborn arm is missing.
ResetRef_WritesUnborn(r, snapshot) ==
    [head |-> snapshot.head, index |-> snapshot.index,
     source_branch |-> IF r = None THEN None ELSE r.source_branch,
     branches |-> IF r = None THEN 0 ELSE r.branches]

\* Mutant: the prior index is carried over.
ResetRef_KeepsIndex(r, snapshot) ==
    IF snapshot.head = None THEN None
    ELSE [head |-> snapshot.head, index |-> IF r = None THEN None ELSE r.index,
          source_branch |-> IF r = None THEN None ELSE r.source_branch,
          branches |-> IF r = None THEN 0 ELSE r.branches]

\* The branch's RefEntry after a reset.  An unborn snapshot removes the whole
\* entry, lineage fields included.
ResetRef(r, snapshot) ==
    IF snapshot.head = None THEN None
    ELSE [head |-> snapshot.head, index |-> snapshot.index,
          source_branch |-> IF r = None THEN None ELSE r.source_branch,
          branches |-> IF r = None THEN 0 ELSE r.branches]

\* The non-monotonic reset used by rollbacks.
reset_head(b, snapshot, at) ==
    /\ b \in branches
    /\ b \notin retracted
    /\ refs' = [refs EXCEPT ![b] = ResetRef(refs[b], snapshot)]
    /\ clear_queue_for_admin(b, "BranchHeadReset", at)
    /\ UNCHANGED <<branches, retracted, idempotency>>

-----------------------------------------------------------------------------
(* Refs.                                                                   *)

HeadT(b) == IF refs[b] = None THEN 0 ELSE CommitT[refs[b].head]

IndexOf(b) == IF refs[b] = None THEN None ELSE refs[b].index

IndexTOf(b) == IF IndexOf(b) = None THEN 0 ELSE IndexT[IndexOf(b)]

\* Mutant: an index publish does not look at the tombstone.
set_index_head_Retracted(b, x, is_stale) ==
    /\ branches # {}
    /\ refs[b] # None
    /\ refs[b].index = None \/ ~is_stale
    /\ IndexT[x] <= HeadT(b)
    /\ refs' = [refs EXCEPT ![b].index = x]
    /\ UNCHANGED <<branches, retracted, idempotency, queueVars, released>>

\* advance_index_head and rewrite_index_head differ in what counts as stale.
set_index_head(b, x, is_stale) ==
    /\ branches # {}
    /\ b \notin retracted
    /\ refs[b] # None
    /\ refs[b].index = None \/ ~is_stale
    /\ IndexT[x] <= HeadT(b)
    /\ refs' = [refs EXCEPT ![b].index = x]
    /\ UNCHANGED <<branches, retracted, idempotency, queueVars, released>>

advance_index_head(b, x) == set_index_head(b, x, IndexT[x] <= IndexTOf(b))

rewrite_index_head(b, x) == set_index_head(b, x, IndexT[x] < IndexTOf(b))

\* CompareAndSetRef on the commit head.  The queue is left alone.
compare_and_set_commit(b, expected, c) ==
    /\ b \in branches
    /\ b \notin retracted
    /\ IF refs[b] = None THEN expected = None ELSE expected = refs[b].head
    /\ CommitT[c] > HeadT(b)
    /\ refs' = [refs EXCEPT ![b] =
          IF refs[b] = None
          THEN [head |-> c, index |-> None, source_branch |-> None, branches |-> 0]
          ELSE [refs[b] EXCEPT !.head = c]]
    /\ UNCHANGED <<branches, retracted, idempotency, queueVars, released>>

\* CompareAndSetRef on the index head.  new.id may be None, with any t that is
\* monotonic and not ahead of the commits: `t` is then forgotten.
compare_and_set_index(b, expected, x, t) ==
    /\ b \in branches
    /\ b \notin retracted
    /\ expected = IndexOf(b)
    /\ x # None => t = IndexT[x]
    /\ t >= IndexTOf(b)
    /\ refs[b] # None
    /\ t <= HeadT(b)
    /\ refs' = [refs EXCEPT ![b].index = x]
    /\ UNCHANGED <<branches, retracted, idempotency, queueVars, released>>

-----------------------------------------------------------------------------
(* The command queue.                                                      *)

QueueDepth(b) == Len(queues[b])

\* The sum of the depths, as the number of occupied places of all the queues.
QueuedPlaces == UNION {{b} \X (1 .. QueueDepth(b)) : b \in Branch}

GlobalDepth == Cardinality(QueuedPlaces)

\* Mutant: the two caps are off by one.
QueueFull_OffByOne(b) == QueueDepth(b) > PerBranchCap \/ GlobalDepth > GlobalCap

QueueFull(b) == QueueDepth(b) >= PerBranchCap \/ GlobalDepth >= GlobalCap

\* Mutant: only the front of the queue is searched for the key.
InFlight_FrontOnly(b, key) ==
    {i \in DOMAIN queues[b] : i = 1 /\ key # None /\ queues[b][i].key = key}

InFlight(b, key) == {i \in DOMAIN queues[b] : key # None /\ queues[b][i].key = key}

\* Mutant: a recorded failure does not count.
Recorded_AppliedOnly(b, key) ==
    key # None /\ idempotency[b][key] # None /\ idempotency[b][key].kind = "Applied"

Recorded(b, key) == key # None /\ idempotency[b][key] # None

\* Mutant: a queued key is joined whatever the body.
EnqueueResponse_AnyBody(b, key, body) ==
    CASE b \notin branches -> "LedgerNotFound"
      [] b \in branches /\ b \in retracted -> "LedgerRetracted"
      [] b \in branches \ retracted /\ Recorded(b, key) ->
            IF idempotency[b][key].body # body THEN "BodyHashMismatch"
            ELSE IF idempotency[b][key].kind = "Applied"
                 THEN "IdempotencyHit" ELSE "IdempotencyFailed"
      [] b \in branches \ retracted /\ ~Recorded(b, key) /\ InFlight(b, key) # {} ->
            "InFlight"
      [] b \in branches \ retracted /\ ~Recorded(b, key) /\ InFlight(b, key) = {} ->
            IF QueueFull(b)
            THEN "QueueFull" ELSE "Enqueued"

\* The response EnqueueCommand gets; checked in the order of the code.
EnqueueResponse(b, key, body) ==
    CASE b \notin branches -> "LedgerNotFound"
      [] b \in branches /\ b \in retracted -> "LedgerRetracted"
      [] b \in branches \ retracted /\ Recorded(b, key) ->
            IF idempotency[b][key].body # body THEN "BodyHashMismatch"
            ELSE IF idempotency[b][key].kind = "Applied"
                 THEN "IdempotencyHit" ELSE "IdempotencyFailed"
      [] b \in branches \ retracted /\ ~Recorded(b, key) /\ InFlight(b, key) # {} ->
            IF \E i \in InFlight(b, key) : queues[b][i].body = body
            THEN "InFlight" ELSE "BodyHashMismatch"
      [] b \in branches \ retracted /\ ~Recorded(b, key) /\ InFlight(b, key) = {} ->
            IF QueueFull(b)
            THEN "QueueFull" ELSE "Enqueued"

\* Mutant: the marker stays when a fresh entry is queued.
apply_enqueue_command_KeepsMarker(b, key, body) ==
    /\ EnqueueResponse(b, key, body) = "Enqueued"
    /\ next_queue_id < MaxQueueId
    /\ next_queue_id' = next_queue_id + 1
    /\ queues' = [queues EXCEPT ![b] =
          Append(@, [queue_id |-> next_queue_id, key |-> key, body |-> body])]
    /\ UNCHANGED <<registryVars, idempotency, released, recently_cleared>>

apply_enqueue_command(b, key, body) ==
    /\ EnqueueResponse(b, key, body) = "Enqueued"
    /\ next_queue_id < MaxQueueId
    /\ recently_cleared' = [recently_cleared EXCEPT ![b] = None]
    /\ next_queue_id' = next_queue_id + 1
    /\ queues' = [queues EXCEPT ![b] =
          Append(@, [queue_id |-> next_queue_id, key |-> key, body |-> body])]
    /\ UNCHANGED <<registryVars, idempotency, released>>

\* Mutant: whatever is at the front is popped.
FrontCheck_AnyFront(b, id) ==
    IF recently_cleared[b] # None THEN "QueueCleared"
    ELSE IF queues[b] = <<>> THEN "InvariantViolated"
    ELSE "Ok"

\* What pop_validated_front says of a claim on the front of b's queue.
FrontCheck(b, id) ==
    IF recently_cleared[b] # None THEN "QueueCleared"
    ELSE IF queues[b] = <<>> THEN "InvariantViolated"
    ELSE IF Head(queues[b]).queue_id # id THEN "WrongFront"
    ELSE "Ok"

\* A marker is good for one answer.
ConsumeMarker(b) ==
    /\ recently_cleared' = [recently_cleared EXCEPT ![b] = None]
    /\ UNCHANGED <<registryVars, idempotency, queues, next_queue_id, released>>

\* The worker staged nothing and republishes the branch's head.
NoopCompletion(b, c) == refs[b] # None /\ refs[b].head = c

\* Mutant: a rival head at the same t passes the monotonicity guard.
HeadResponse_SameT(b, id, c) ==
    IF b \in retracted THEN "LedgerRetracted"
    ELSE IF FrontCheck(b, id) # "Ok" THEN FrontCheck(b, id)
    ELSE IF refs[b] # None /\ CommitT[c] < HeadT(b) THEN "HeadNotMonotonic"
    ELSE "HeadApplied"

\* The response ApplyHead gets.
HeadResponse(b, id, c) ==
    IF b \in retracted THEN "LedgerRetracted"
    ELSE IF FrontCheck(b, id) # "Ok" THEN FrontCheck(b, id)
    ELSE IF refs[b] # None /\ ~NoopCompletion(b, c) /\ CommitT[c] <= HeadT(b)
         THEN "HeadNotMonotonic"
    ELSE "HeadApplied"

\* Mutant: the envelope is released although the record still names it.
PopFront_ReleasesKeyed(b, kind, c, at) ==
    LET entry == Head(queues[b]) IN
    /\ queues' = [queues EXCEPT ![b] = Tail(@)]
    /\ Release({entry.queue_id})
    /\ idempotency' = IF entry.key = None THEN idempotency
          ELSE [idempotency EXCEPT ![b][entry.key] =
                  [kind |-> kind, request_cid |-> entry.queue_id, body |-> entry.body,
                   recorded_at |-> at, head |-> c]]
    /\ UNCHANGED <<next_queue_id, recently_cleared>>

\* Pop the front.  A keyed entry leaves a record, which keeps its envelope; a
\* keyless entry's envelope is released.
PopFront(b, kind, c, at) ==
    LET entry == Head(queues[b]) IN
    /\ queues' = [queues EXCEPT ![b] = Tail(@)]
    /\ IF entry.key = None
       THEN Release({entry.queue_id}) /\ UNCHANGED idempotency
       ELSE /\ idempotency' = [idempotency EXCEPT ![b][entry.key] =
                  [kind |-> kind, request_cid |-> entry.queue_id, body |-> entry.body,
                   recorded_at |-> at, head |-> c]]
            /\ UNCHANGED released
    /\ UNCHANGED <<next_queue_id, recently_cleared>>

\* The head a completed entry leaves.  A fresh branch gets its RefEntry.
AdvancedRef(b, c) ==
    IF refs[b] = None
    THEN [head |-> c, index |-> None, source_branch |-> None, branches |-> 0]
    ELSE [refs[b] EXCEPT !.head = c]

\* HeadNotMonotonic pops the entry and pushes it back to the front: nothing
\* changes.
apply_head(b, id, c, at) ==
    \/ /\ HeadResponse(b, id, c) = "HeadApplied"
       /\ PopFront(b, "Applied", c, at)
       /\ refs' = [refs EXCEPT ![b] = AdvancedRef(b, c)]
       /\ branches' = IF branches = {} THEN branches ELSE branches \union {b}
       /\ UNCHANGED retracted
    \/ /\ HeadResponse(b, id, c) = "QueueCleared"
       /\ ConsumeMarker(b)

\* No look at `retracted`: a retracted branch has no queue.
apply_poison_queue_entry(b, id, at) ==
    \/ /\ FrontCheck(b, id) = "Ok"
       /\ PopFront(b, "Failed", None, at)
       /\ UNCHANGED registryVars
    \/ /\ FrontCheck(b, id) = "QueueCleared"
       /\ ConsumeMarker(b)

Expired(cutoff) ==
    {p \in Branch \X Key :
        idempotency[p[1]][p[2]] # None /\ idempotency[p[1]][p[2]].recorded_at < cutoff}

\* The oldest records past the cutoff, at most a batch of them.  The code
\* breaks ties by log index; here the order of equal times is open.
EvictionBatches(cutoff) ==
    LET expired == Expired(cutoff)
        At(p) == idempotency[p[1]][p[2]].recorded_at IN
    {S \in SUBSET expired :
        /\ Cardinality(S) <= EvictBatchSize
        /\ S # expired => Cardinality(S) = EvictBatchSize
        /\ \A p \in S, q \in expired \ S : At(p) <= At(q)}

apply_evict_idempotency(cutoff, marker_cutoff) ==
    /\ \E S \in EvictionBatches(cutoff) :
          /\ idempotency' = [b \in Branch |-> [k \in Key |->
                IF <<b, k>> \in S THEN None ELSE idempotency[b][k]]]
          /\ Release({idempotency[p[1]][p[2]].request_cid : p \in S})
    /\ recently_cleared' = [b \in Branch |->
          IF recently_cleared[b] # None /\ recently_cleared[b].applied_at < marker_cutoff
          THEN None ELSE recently_cleared[b]]
    /\ UNCHANGED <<registryVars, queues, next_queue_id>>

-----------------------------------------------------------------------------
IssuedIds == 0 .. next_queue_id - 1

Next ==
    \/ \E b \in Branch : create_ledger(b)
    \/ \E b \in Branch, at \in Millis : retract_ledger(b, at)
    \/ \E b \in Branch, at \in Millis : purge_branch(b, at)
    \/ \E b \in Branch, at \in Millis : drop_branch(b, at)
    \/ \E b, src \in Branch, c \in Commit \union {None} : create_branch(b, src, c)
    \/ \E b \in Branch, s \in Snapshot, at \in Millis : reset_head(b, s, at)
    \/ \E b \in Branch, x \in IndexRoot : advance_index_head(b, x)
    \/ \E b \in Branch, x \in IndexRoot : rewrite_index_head(b, x)
    \/ \E b \in Branch, e \in Commit \union {None}, c \in Commit :
          compare_and_set_commit(b, e, c)
    \/ \E b \in Branch, e, x \in IndexRoot \union {None} :
          \E t \in {IndexT[y] : y \in IndexRoot} : compare_and_set_index(b, e, x, t)
    \/ \E b \in Branch, k \in Key \union {None}, body \in Body :
          apply_enqueue_command(b, k, body)
    \/ \E b \in Branch, id \in IssuedIds, c \in Commit, at \in Millis :
          apply_head(b, id, c, at)
    \/ \E b \in Branch, id \in IssuedIds, at \in Millis :
          apply_poison_queue_entry(b, id, at)
    \/ \E cutoff, marker_cutoff \in Millis : apply_evict_idempotency(cutoff, marker_cutoff)

Spec == Init /\ [][Next]_vars

-----------------------------------------------------------------------------
(* Properties.                                                             *)

\* Every variable has its type.
TypeOK ==
    /\ branches \subseteq Branch
    /\ refs \in [Branch -> RefEntry \union {None}]
    /\ retracted \subseteq Branch
    /\ idempotency \in [Branch -> [Key -> ApplyOutcome \union {None}]]
    /\ queues \in [Branch -> Seq(QueueEntry)]
    /\ next_queue_id \in 0 .. MaxQueueId
    /\ recently_cleared \in [Branch -> ClearMarker \union {None}]
    /\ released \in [0 .. MaxQueueId - 1 -> Nat]

\* Queue ids are strictly increasing along every queue, no two queues share
\* one, and none is at or above the generator: pop_validated_front tells
\* entries apart by queue_id alone, so a worker's claim names one entry.
QueueIdsOrdered ==
    /\ \A b \in Branch : \A i, j \in 1 .. Len(queues[b]) :
          i < j => queues[b][i].queue_id < queues[b][j].queue_id
    /\ \A b \in Branch : \A i \in 1 .. Len(queues[b]) :
          queues[b][i].queue_id < next_queue_id
    /\ \A a, b \in Branch : \A i \in 1 .. Len(queues[a]), j \in 1 .. Len(queues[b]) :
          queues[a][i].queue_id = queues[b][j].queue_id => a = b

\* A key is live in at most one place: two queued entries of a branch never
\* share a key, and a queued key has no recorded outcome.  So a request is
\* never run again while its outcome is on record, and recording an outcome
\* never overwrites one (apply_enqueue_command's two dedup checks).
KeyLiveOnce ==
    \A b \in Branch : \A i, j \in 1 .. Len(queues[b]) :
        queues[b][i].key # None =>
            /\ queues[b][i].key = queues[b][j].key => i = j
            /\ idempotency[b][queues[b][i].key] = None

\* An admin-clear marker exists only while the branch's queue is empty:
\* otherwise pop_validated_front would answer QueueCleared to the valid claim
\* on a fresh entry (apply_enqueue_command, step 4).
MarkerOnlyWhenIdle ==
    \A b \in Branch : recently_cleared[b] # None => queues[b] = <<>>

\* A retracted branch is registered and has no queue, and a branch that is
\* not registered has neither head nor queue: apply_head's retraction check
\* and its self-healing registration are never needed.
RegistryConsistent ==
    /\ retracted \subseteq branches
    /\ \A b \in retracted : queues[b] = <<>>
    /\ \A b \in Branch \ branches : refs[b] = None /\ queues[b] = <<>>

\* A queue entry or a record names envelope i.
Held(i) ==
    \/ \E b \in Branch : \E j \in 1 .. Len(queues[b]) : queues[b][j].queue_id = i
    \/ \E b \in Branch, k \in Key :
          idempotency[b][k] # None /\ idempotency[b][k].request_cid = i

\* A queued or recorded envelope was never released, and every other envelope
\* of an enqueued request was released exactly once: nothing is freed under a
\* reader, freed twice, or leaked (released_envelope(s) of ApplyHead,
\* PoisonQueueEntry, EvictIdempotency and the admin clears together).
EnvelopeAccounting ==
    \A i \in IssuedIds : released[i] = IF Held(i) THEN 0 ELSE 1

\* Queue depths stay within QueueConfig's two caps.
CapsRespected ==
    /\ \A b \in Branch : QueueDepth(b) <= PerBranchCap
    /\ GlobalDepth <= GlobalCap

\* An index never covers commits its branch does not have (IndexState.t),
\* whatever order index publishes, head advances and resets arrive in.
IndexBehindHead == \A b \in Branch : IndexTOf(b) <= HeadT(b)

Children(p) == {b \in Branch : refs[b] # None /\ refs[b].source_branch = p}

\* The child count of p; none while p is unborn.
ChildCount(p) == IF refs[p] = None THEN 0 ELSE refs[p].branches

CountExact(p) == ChildCount(p) = Cardinality(Children(p))

\* A step that removes the RefEntry of b, lineage fields included, and leaves b
\* registered.
ResetToUnborn(b) == b \in branches' /\ refs[b] # None /\ refs'[b] = None

\* The child count that guards purge_branch and drop_branch stays the number of
\* branches forked from the branch, through forks, removals, resets and head
\* advances in any order.  The one exception is reset_head's early return: the
\* reset of the branch, or of a fork of it, to an unborn snapshot.
LineageKept ==
    [][\A p \in Branch : CountExact(p) =>
          CountExact(p)' \/ \E b \in Children(p) \union {p} : ResetToUnborn(b)]_vars

\* "a purge can't strand a child with a dangling `source_branch`" (purge_branch;
\* drop_branch has the same guard): no branch is left whose source was removed.
PurgeStrandsNoChild ==
    [][\A p \in branches : p \notin branches' => Children(p)' = {}]_vars

\* While a branch is retracted its head and index do not change; only the
\* removal of the branch ends that.
RetractedFrozen ==
    [][\A b \in retracted : b \in branches' =>
          /\ b \in retracted'
          /\ (refs'[b] = None) = (refs[b] = None)
          /\ refs[b] # None => /\ refs'[b].head = refs[b].head
                               /\ refs'[b].index = refs[b].index]_vars

\* The head of a branch moves backwards, sideways or away only in a step that
\* leaves the branch's queue empty, so no entry queued on the abandoned head
\* survives to be applied onto the new one (apply_head's monotonicity guard,
\* clear_queue_for_admin).
RegressionEmptiesQueue ==
    [][\A b \in Branch :
          refs[b] # None /\ refs'[b] # refs[b] =>
              \/ /\ refs'[b] # None
                 /\ \/ refs'[b].head = refs[b].head
                    \/ CommitT[refs'[b].head] > CommitT[refs[b].head]
              \/ queues'[b] = <<>>]_vars

\* A recorded outcome never turns into another one: the retry of a request gets
\* the first answer for as long as there is a record, and when the record goes its
\* envelope is released, for the first time (apply_evict_idempotency).
OutcomeStable ==
    [][\A b \in Branch, k \in Key :
          idempotency[b][k] # None =>
              \/ idempotency'[b][k] = idempotency[b][k]
              \/ /\ idempotency'[b][k] = None
                 /\ released'[idempotency[b][k].request_cid] = 1]_vars

\* "Each has companion entries to clear matching idempotency entries / queues"
\* (raft-command-queue.md, of the ledger lifecycle commands): by the time a purged
\* or dropped branch is created again, no outcome of its former life is recorded.
FreshBranchHasNoRecords ==
    [][\A b \in branches' \ branches : \A k \in Key : idempotency'[b][k] = None]_vars

=============================================================================
