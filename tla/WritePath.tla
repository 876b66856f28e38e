----------------------------- MODULE WritePath -----------------------------
(***************************************************************************)
(* The local write path of one process: a transaction is staged on a       *)
(* snapshot of a cached ledger, re-based over the commits that got in      *)
(* between or staged again, and published by a compare-and-set of the      *)
(* durable head, with the cache slot emptied while the commit runs.        *)
(*                                                                         *)
(* A ledger handle has a lock, a state and a ring of recent commits'       *)
(* footprints; the manager names one handle and drops it when it is idle,  *)
(* so writers of one process may hold different handles.  Another process  *)
(* advances the same durable head.                                         *)
(***************************************************************************)
EXTENDS Integers, Sequences, FiniteSets, FiniteSetsExt, SequencesExt

CONSTANTS
    Writer,         \* the requests being served; BranchOps adds operations on branches
    Request,        \* what a transaction may be, see RequestType
    Foreign,        \* what another process may commit, same shape
    Iri,            \* subjects, pairs of a prefix and a local name
    RECENT_COMMITS, MAX_RETRIES, MAX_TXN_RETRIES, MAX_INCREMENTAL_COMMITS,
    Fault,          \* which failures happen
    MaxFaults, MaxForeign

Schema == <<"schema", "schema">>   \* what staging depends on besides the subjects it names
Key == Iri \cup {Schema}
NoOne == "none"

(***************************************************************************)
(* A request: the IRIs its parser meets, in order; those it reads and      *)
(* writes; whether every read is bound to a subject it names; whether it   *)
(* changes what staging depends on (a shape, a class hierarchy, a named    *)
(* graph); whether it stages nothing once its subjects exist; and whether  *)
(* it needs the lock while it stages (a policy, a prepared transaction).   *)
(***************************************************************************)
RequestType ==
    [mentions : Seq(Iri), reads : SUBSET Iri, writes : SUBSET Iri,
     bounded : BOOLEAN, schema : BOOLEAN, once : BOOLEAN, locked : BOOLEAN]

ASSUME RequestAssumption ==
    /\ Request \cup Foreign \subseteq RequestType
    /\ \A r \in Request \cup Foreign : r.reads \cup r.writes \subseteq ToSet(r.mentions)

ASSUME NameAssumption ==
    /\ NoOne \notin Writer
    /\ Schema \notin Iri /\ \A i \in Iri : i = <<i[1], i[2]>>

ASSUME BoundAssumption ==
    /\ {RECENT_COMMITS, MAX_RETRIES, MAX_TXN_RETRIES, MAX_INCREMENTAL_COMMITS} \subseteq Nat \ {0}
    /\ MaxFaults \in Nat /\ MaxForeign \in Nat

\* The manager's handle, and those a writer and the refresh it runs may still hold.
Handle == 1 .. 2 * Cardinality(Writer) + 1
NoHandle == 0

VARIABLES
    commits,   \* every commit that was ever the head, by id
    head,      \* the durable head: a commit id, 0 before the first commit
    cur,       \* the handle the manager hands out, or NoHandle
    state,     \* of a handle: the ledger state it caches
    ring,      \* of a handle: RecentCommits
    lock,      \* of a handle: who holds its write lock
    reloads,   \* reloads under way: the handle, and the head each one read
    repairs,   \* reloads that a commit which unwound has spawned, not yet begun
    w,         \* of a writer: where its request is
    faults, foreign

durable == <<commits, head, foreign>>
cache == <<cur, state, ring, lock>>
background == <<reloads, repairs>>
vars == <<commits, head, foreign, cur, state, ring, lock, reloads, repairs, w, faults>>

-----------------------------------------------------------------------------
(* Namespaces: a table is a sequence of prefixes, a code an index of it.   *)

AllocatePrefix(tbl, p) == IF p \in ToSet(tbl) THEN tbl ELSE Append(tbl, p)

\* The prefixes of ps are allocated in their order.
Allocated(tbl, ps) ==
    LET upTo[n \in 0 .. Len(ps)] == IF n = 0 THEN tbl ELSE AllocatePrefix(upTo[n - 1], ps[n])
    IN  upTo[Len(ps)]

PrefixesOf(iris) == [n \in 1 .. Len(iris) |-> iris[n][1]]
CodeOf(tbl, p) == CHOOSE c \in DOMAIN tbl : tbl[c] = p
Sids(tbl, iris) == {<<CodeOf(tbl, i[1]), i[2]>> : i \in iris}
Iris(tbl, sids) == {<<tbl[s[1]], s[2]>> : s \in sids}

(* Ledger states.                                                          *)

ChainOf(id) == IF id = 0 THEN <<>> ELSE commits[id].chain
TOf(id) == Len(ChainOf(id))

Genesis == [head |-> 0, t |-> 0, data |-> [k \in Key |-> 0], tbl |-> <<>>, placeholder |-> FALSE]
Placeholder == [Genesis EXCEPT !.placeholder = TRUE]

\* The delta of commit c, over whatever the state holds: only its t is checked.
ApplySingleCommit(s, id, c) ==
    [head |-> id, t |-> Len(c.chain),
     data |-> [k \in Key |-> IF k \in c.wrote THEN id ELSE s.data[k]],
     tbl |-> Allocated(s.tbl, c.prefixes),
     placeholder |-> FALSE]

\* The commits of cs that ids names, applied to s one after the other.
Replay(cs, s, ids) ==
    LET upTo[n \in 0 .. Len(ids)] ==
            IF n = 0 THEN s ELSE ApplySingleCommit(upTo[n - 1], ids[n], cs[ids[n]])
    IN  upTo[Len(ids)]

LoadedState(id) == Replay(commits, Genesis, ChainOf(id))

-----------------------------------------------------------------------------
(* The ring of footprints: one unbroken chain of commits.                  *)

Extends(entries, f) ==
    entries = <<>> \/ (f.t = Last(entries).t + 1 /\ f.parent = Last(entries).id)

PushFootprint(entries, f) ==
    LET kept == IF Extends(entries, f) THEN entries ELSE <<>>
    IN  Append(IF Len(kept) = RECENT_COMMITS THEN Tail(kept) ELSE kept, f)

\* The entries of the commits after s0 up to s1; none when the ring cannot tell.
FootprintsBetween(entries, s0, s1) ==
    LET first == s0.t + 2 - entries[1].t
        last == s1.t + 1 - entries[1].t
    IN  IF \/ entries = <<>> \/ s1.t <= s0.t
           \/ first < 1 \/ last > Len(entries)
           \/ entries[first].parent # s0.head \/ entries[last].id # s1.head
        THEN {}
        ELSE {entries[i] : i \in first .. last}

-----------------------------------------------------------------------------
(* Staging.                                                                *)

ReadBy(r) == IF r.bounded THEN r.reads \cup {Schema} ELSE Key
WrittenBy(r, s) == IF r.once /\ \A i \in r.writes : s.data[i] # 0 THEN {} ELSE r.writes

\* What staging request r on state s yields; `seen` is what it read there
\* and `meant` the subjects it is to write, both kept only to state properties.
StageOn(r, s) ==
    LET tbl == Allocated(s.tbl, PrefixesOf(r.mentions))
        written == WrittenBy(r, s)
    IN  [base |-> s,
         tbl |-> tbl,
         wrote |-> Sids(tbl, written),
         schema |-> r.schema,
         bounded |-> r.bounded,
         scope |-> Sids(tbl, r.reads \cup written),
         meant |-> written,
         seen |-> [k \in ReadBy(r) |-> s.data[k]]]

IsNoop(st) == st.wrote = {} /\ ~ st.schema

NewPrefixes(st) == SubSeq(st.tbl, Len(st.base.tbl) + 1, Len(st.tbl))

\* The table a stage gets over the current one, and its Sids under that table.
Reallocated(st, s) == Allocated(s.tbl, NewPrefixes(st))
Remapped(st, tbl, sids) == {<<CodeOf(tbl, st.tbl[x[1]]), x[2]>> : x \in sids}

\* Mutant: the subjects are compared under the codes they were staged with.
Rebasable_OldCodes(st, s, since) ==
    /\ st.bounded
    /\ since # {}
    /\ \A f \in since : ~ f.all /\ f.subjects \cap st.scope = {}

Rebasable(st, s, since) ==
    /\ st.bounded
    /\ since # {}
    /\ \A f \in since :
          ~ f.all /\ f.subjects \cap Remapped(st, Reallocated(st, s), st.scope) = {}

\* Mutant: the Sids keep the codes of the old table.
Rebased_NoRemap(st, s) == [st EXCEPT !.base = s, !.tbl = Reallocated(st, s)]

Rebased(st, s) ==
    LET tbl == Reallocated(st, s)
    IN  [st EXCEPT !.base = s, !.tbl = tbl,
                   !.wrote = Remapped(st, tbl, st.wrote),
                   !.scope = Remapped(st, tbl, st.scope)]

Unchanged(st, s) == st.base.t = s.t /\ st.base.head = s.head

\* The stage to commit once the lock is held.
StageUnderLock(st, r, s, entries) ==
    IF Unchanged(st, s) THEN st
    ELSE IF Rebasable(st, s, FootprintsBetween(entries, st.base, s)) THEN Rebased(st, s)
    ELSE StageOn(r, s)

\* Mutant: a commit that changes shapes or classes records its subjects only.
Footprint_SubjectsOnly(st, id) ==
    [t |-> st.base.t + 1, parent |-> st.base.head, id |-> id,
     all |-> FALSE, subjects |-> st.wrote]

\* A commit that changes what staging depends on is taken to touch everything.
Footprint(st, id) ==
    [t |-> st.base.t + 1, parent |-> st.base.head, id |-> id,
     all |-> st.schema, subjects |-> st.wrote]

CommitOf(st, x) ==
    [chain |-> Append(ChainOf(st.base.head), Len(commits) + 1),
     wrote |-> Iris(st.tbl, st.wrote) \cup (IF st.schema THEN {Schema} ELSE {}),
     prefixes |-> NewPrefixes(st),
     by |-> x,
     meant |-> st.meant,
     seen |-> st.seen]

NoStage == StageOn([mentions |-> <<>>, reads |-> {}, writes |-> {}, bounded |-> TRUE,
                    schema |-> FALSE, once |-> FALSE, locked |-> FALSE], Genesis)
NewWriter ==
    [pc |-> "new", req |-> {}, h |-> NoHandle, stage |-> NoStage, try |-> 1, outer |-> 1,
     id |-> 0, err |-> "none", rec |-> 0, rh |-> NoHandle, from |-> 0,
     gone |-> FALSE, res |-> "none"]

-----------------------------------------------------------------------------
(* Handles.                                                                *)

Referenced == {cur} \cup {w[x].h : x \in Writer} \cup {w[x].rh : x \in Writer}
                    \cup {l.h : l \in reloads}
FreshHandle == Min(Handle \ Referenced)

\* get_or_load: the manager's handle, loaded from the durable head if it has none.
GetOrLoad(h) ==
    \/ /\ cur # NoHandle /\ h = cur
       /\ UNCHANGED cache
    \/ /\ cur = NoHandle /\ h \notin Referenced /\ h = FreshHandle
       /\ cur' = h
       /\ state' = [state EXCEPT ![h] = LoadedState(head)]
       /\ ring' = [ring EXCEPT ![h] = <<>>]
       /\ UNCHANGED lock

Goto(x, pc) == w' = [w EXCEPT ![x].pc = pc]

\* The request ends and keeps no handle; what a request without effect read stays known.
Answered(x, res) ==
    [NewWriter EXCEPT !.pc = "done", !.res = IF w[x].gone THEN "gone" ELSE res,
                      !.stage = IF res = "noop" THEN w[x].stage ELSE @]

AddFault(kind) ==
    /\ kind \in Fault
    /\ faults < MaxFaults
    /\ faults' = faults + 1

-----------------------------------------------------------------------------
(* A transaction up to its commit.                                         *)

Begin(x, r) ==
    /\ w[x].pc = "new"
    /\ \E h \in Handle :
          /\ GetOrLoad(h)
          /\ w' = [w EXCEPT ![x].pc = "begin", ![x].req = r, ![x].h = h]
    /\ UNCHANGED <<durable, background, faults>>

\* The first attempt stages on a snapshot, with the lock released again.
StageSnapshot(x) ==
    LET h == w[x].h
    IN  /\ w[x].pc = "begin" /\ w[x].try = 1 /\ ~ w[x].req.locked
        /\ lock[h] = NoOne
        /\ w' = [w EXCEPT ![x].pc = "staged", ![x].stage = StageOn(w[x].req, state[h])]
        /\ UNCHANGED <<durable, cache, background, faults>>

LockStaged(x) ==
    LET h == w[x].h
    IN  /\ w[x].pc = "staged"
        /\ lock[h] = NoOne
        /\ lock' = [lock EXCEPT ![h] = x]
        /\ w' = [w EXCEPT ![x].pc = "locked",
                          ![x].stage = StageUnderLock(@, w[x].req, state[h], ring[h])]
        /\ UNCHANGED <<durable, cur, state, ring, background, faults>>

\* Later attempts, and requests that need it, hold the lock while they stage.
LockAndStage(x) ==
    LET h == w[x].h
    IN  /\ w[x].pc = "begin" /\ (w[x].try > 1 \/ w[x].req.locked)
        /\ lock[h] = NoOne
        /\ lock' = [lock EXCEPT ![h] = x]
        /\ w' = [w EXCEPT ![x].pc = "locked", ![x].stage = StageOn(w[x].req, state[h])]
        /\ UNCHANGED <<durable, cur, state, ring, background, faults>>

\* The request is dropped, or staging fails, before the commit is handed to its own task.
Abandon(x) ==
    /\ AddFault("abandon")
    /\ w[x].pc \in {"begin", "staged", "locked"}
    /\ lock' = [h \in Handle |-> IF lock[h] = x THEN NoOne ELSE lock[h]]
    /\ w' = [w EXCEPT ![x] = Answered(x, "refused")]
    /\ UNCHANGED <<durable, cur, state, ring, background>>

Noop(x) ==
    /\ w[x].pc = "locked" /\ IsNoop(w[x].stage)
    /\ lock' = [lock EXCEPT ![w[x].h] = NoOne]
    /\ w' = [w EXCEPT ![x] = Answered(x, "noop")]
    /\ UNCHANGED <<durable, cur, state, ring, background, faults>>

-----------------------------------------------------------------------------
(* The commit's own task.  The slot is empty from detach until it is       *)
(* refilled, with the lock held.                                           *)

\* The head is looked up and compared with the stage's base.
SequencingError(st) ==
    IF st.base.t # TOf(head) THEN "conflict"
    ELSE IF st.base.head # head THEN "mismatch"
    ELSE "none"

Detach(x) ==
    /\ w[x].pc = "locked" /\ ~ IsNoop(w[x].stage)
    /\ state' = [state EXCEPT ![w[x].h] = Placeholder]
    /\ w' = [w EXCEPT ![x].err = SequencingError(w[x].stage),
                      ![x].pc = IF SequencingError(w[x].stage) = "none" THEN "publish" ELSE "recover"]
    /\ UNCHANGED <<durable, cur, ring, lock, background, faults>>

\* The commit x publishes becomes the head: the compare-and-set succeeded.
Land(x) ==
    /\ head = w[x].stage.base.head
    /\ commits' = Append(commits, CommitOf(w[x].stage, x))
    /\ head' = Len(commits) + 1
    /\ UNCHANGED foreign

Publish(x) ==
    /\ w[x].pc = "publish"
    /\ Land(x)
    /\ w' = [w EXCEPT ![x].pc = "install", ![x].id = Len(commits) + 1]
    /\ UNCHANGED <<cache, background, faults>>

LoseRace(x) ==
    /\ w[x].pc = "publish"
    /\ head # w[x].stage.base.head
    /\ w' = [w EXCEPT ![x].err = "race", ![x].pc = "recover"]
    /\ UNCHANGED <<durable, cache, background, faults>>

\* Storage or the nameservice fails, before or after the head has moved.
PublishFails(x) ==
    /\ w[x].pc = "publish"
    /\ \/ AddFault("fail") /\ UNCHANGED durable
       \/ AddFault("landed") /\ Land(x)
    /\ w' = [w EXCEPT ![x].err = "error", ![x].pc = "recover"]
    /\ UNCHANGED <<cache, background>>

Install(x) ==
    LET h == w[x].h
    IN  /\ w[x].pc = "install"
        /\ state' = [state EXCEPT ![h] = ApplySingleCommit(w[x].stage.base, w[x].id, commits[w[x].id])]
        /\ ring' = [ring EXCEPT ![h] = PushFootprint(@, Footprint(w[x].stage, w[x].id))]
        /\ lock' = [lock EXCEPT ![h] = NoOne]
        /\ w' = [w EXCEPT ![x] = Answered(x, "ok")]
        /\ UNCHANGED <<durable, cur, background, faults>>

\* Mutant: the lock is released and the slot left empty.
Recover_NoReload(x) ==
    /\ w[x].pc = "recover"
    /\ lock' = [lock EXCEPT ![w[x].h] = NoOne]
    /\ Goto(x, "failed")
    /\ UNCHANGED <<durable, cur, state, ring, background, faults>>

\* The failed commit refills its slot from the durable head before it unlocks.
Recover(x) ==
    /\ w[x].pc = "recover"
    /\ state' = [state EXCEPT ![w[x].h] = LoadedState(head)]
    /\ lock' = [lock EXCEPT ![w[x].h] = NoOne]
    /\ Goto(x, "failed")
    /\ UNCHANGED <<durable, cur, ring, background, faults>>

\* Storage is down: the placeholder is unlocked, then the entry is dropped.
RecoverFails(x) ==
    /\ w[x].pc = "recover"
    /\ AddFault("reload")
    /\ lock' = [lock EXCEPT ![w[x].h] = NoOne]
    /\ Goto(x, "disconnect")
    /\ UNCHANGED <<durable, cur, state, ring, background>>

Disconnect(x) ==
    /\ w[x].pc = "disconnect"
    /\ cur' = NoHandle
    /\ Goto(x, "failed")
    /\ UNCHANGED <<durable, state, ring, lock, background, faults>>

\* The task unwinds: it unlocks the placeholder and leaves the reload to a new task.
Panic(x) ==
    /\ w[x].pc \in {"publish", "install", "recover"}
    /\ AddFault("panic")
    /\ lock' = [lock EXCEPT ![w[x].h] = NoOne]
    /\ repairs' = repairs + 1
    /\ w' = [w EXCEPT ![x] = Answered(x, "error")]
    /\ UNCHANGED <<durable, cur, state, ring, reloads>>

\* The caller goes away; the commit's task does not.
Cancel(x) ==
    /\ w[x].pc \in {"publish", "install", "recover", "disconnect"} /\ ~ w[x].gone
    /\ AddFault("cancel")
    /\ w' = [w EXCEPT ![x].gone = TRUE]
    /\ UNCHANGED <<durable, cache, background>>

-----------------------------------------------------------------------------
(* A conflict is retried after a refresh: by the builder on the stage it   *)
(* can redo, then by the committer on the whole request.  A request that   *)
(* needs the lock cannot be staged again by the builder, which refreshes   *)
(* once and passes the conflict on.                                        *)

\* Mutant: a publish that failed, perhaps after the head moved, is tried again.
Retryable_Errors(err) == err \in {"conflict", "race", "error"}

Retryable(err) == err \in {"conflict", "race"}
InnerLimit(x) == IF w[x].req.locked THEN 2 ELSE MAX_RETRIES

RetryInner(x) ==
    /\ w[x].pc = "failed" /\ ~ w[x].gone /\ Retryable(w[x].err)
    /\ w[x].try < InnerLimit(x)
    /\ w' = [w EXCEPT ![x].try = @ + 1, ![x].rec = head, ![x].pc = "notify"]
    /\ UNCHANGED <<durable, cache, background, faults>>

RetryOuter(x) ==
    /\ w[x].pc = "failed" /\ ~ w[x].gone /\ Retryable(w[x].err)
    /\ w[x].try = InnerLimit(x) /\ w[x].outer < MAX_TXN_RETRIES
    /\ w' = [w EXCEPT ![x].try = 1, ![x].outer = @ + 1, ![x].rec = head, ![x].pc = "notify"]
    /\ UNCHANGED <<durable, cache, background, faults>>

GiveUp(x) ==
    /\ w[x].pc = "failed"
    /\ \/ w[x].gone \/ ~ Retryable(w[x].err)
       \/ w[x].try = InnerLimit(x) /\ w[x].outer = MAX_TXN_RETRIES
    /\ w' = [w EXCEPT ![x] = Answered(x, w[x].err)]
    /\ UNCHANGED <<durable, cache, background, faults>>

\* Where a request goes on once its refresh has ended, well or not.
AfterRefresh(x) ==
    LET passedOn == w[x].req.locked /\ w[x].try = 2
    IN  [w[x] EXCEPT !.rh = NoHandle, !.rec = 0, !.from = 0, !.stage = NoStage,
                     !.err = IF passedOn THEN @ ELSE "none",
                     !.pc = IF passedOn THEN "failed" ELSE "begin"]

\* LedgerManager::reload of the manager's entry: lead one, join one, or nothing to do.
StartReload(x) ==
    /\ reloads' = IF cur = NoHandle \/ \E l \in reloads : l.h = cur THEN reloads
                  ELSE reloads \cup {[h |-> cur, id |-> head]}
    /\ w' = [w EXCEPT ![x] = IF cur = NoHandle THEN AfterRefresh(x)
                             ELSE [w[x] EXCEPT !.pc = "reload", !.rh = cur]]
    /\ UNCHANGED <<durable, cache, repairs, faults>>

\* The plan for the manager's handle, whichever handle the request itself holds.
Notify(x) ==
    LET gap == TOf(w[x].rec) - state[cur].t
    IN  /\ w[x].pc = "notify"
        /\ \/ /\ cur = NoHandle
              /\ w' = [w EXCEPT ![x] = AfterRefresh(x)]
              /\ UNCHANGED <<durable, cache, background, faults>>
           \/ /\ cur # NoHandle /\ lock[cur] = NoOne /\ gap <= 0
              /\ w' = [w EXCEPT ![x] = AfterRefresh(x)]
              /\ UNCHANGED <<durable, cache, background, faults>>
           \/ /\ cur # NoHandle /\ lock[cur] = NoOne /\ gap \in 1 .. MAX_INCREMENTAL_COMMITS
              /\ w' = [w EXCEPT ![x].pc = "catchup", ![x].rh = cur, ![x].from = state[cur].t]
              /\ UNCHANGED <<durable, cache, background, faults>>
           \/ /\ cur # NoHandle /\ lock[cur] = NoOne /\ gap > MAX_INCREMENTAL_COMMITS
              /\ StartReload(x)

\* The commits were loaded without the lock; under it only the state's t is compared.
CatchUp(x) ==
    LET h == w[x].rh
    IN  /\ w[x].pc = "catchup" /\ lock[h] = NoOne /\ state[h].t = w[x].from
        /\ state' = [state EXCEPT ![h] =
                        Replay(commits, @, SubSeq(ChainOf(w[x].rec), w[x].from + 1, TOf(w[x].rec)))]
        /\ w' = [w EXCEPT ![x] = AfterRefresh(x)]
        /\ UNCHANGED <<durable, cur, ring, lock, background, faults>>

CatchUpTooLate(x) ==
    LET h == w[x].rh
    IN  /\ w[x].pc = "catchup" /\ lock[h] = NoOne /\ state[h].t # w[x].from
        /\ StartReload(x)

AwaitReload(x) ==
    /\ w[x].pc = "reload"
    /\ \A l \in reloads : l.h # w[x].rh
    /\ w' = [w EXCEPT ![x] = AfterRefresh(x)]
    /\ UNCHANGED <<durable, cache, background, faults>>

\* A refresh that fails is logged, and the request goes on.
RefreshFails(x) ==
    /\ w[x].pc = "notify"
    /\ AddFault("refresh")
    /\ w' = [w EXCEPT ![x] = AfterRefresh(x)]
    /\ UNCHANGED <<durable, cache, background>>

-----------------------------------------------------------------------------
(* What else happens.                                                      *)

\* The reload a commit spawned when it unwound: of whatever the manager now holds.
Repair ==
    /\ repairs > 0
    /\ repairs' = repairs - 1
    /\ reloads' = IF cur = NoHandle \/ \E l \in reloads : l.h = cur THEN reloads
                  ELSE reloads \cup {[h |-> cur, id |-> head]}
    /\ UNCHANGED <<durable, cache, w, faults>>

\* A reload never replaces a state that has gone further meanwhile.
FinishReload(l) ==
    /\ l \in reloads /\ lock[l.h] = NoOne
    /\ state' = [state EXCEPT ![l.h] = IF TOf(l.id) >= @.t THEN LoadedState(l.id) ELSE @]
    /\ reloads' = reloads \ {l}
    /\ UNCHANGED <<durable, cur, ring, lock, repairs, w, faults>>

\* The sweep drops an idle entry that is neither locked nor being reloaded.
SweepIdle ==
    /\ AddFault("sweep")
    /\ cur # NoHandle /\ lock[cur] = NoOne /\ \A l \in reloads : l.h # cur
    /\ cur' = NoHandle
    /\ UNCHANGED <<durable, state, ring, lock, background, w>>

ForeignCommit(r) ==
    /\ foreign < MaxForeign
    /\ foreign' = foreign + 1
    /\ commits' = Append(commits, CommitOf(StageOn(r, LoadedState(head)), NoOne))
    /\ head' = Len(commits) + 1
    /\ UNCHANGED <<cache, background, w, faults>>

-----------------------------------------------------------------------------
WriteInit ==
    /\ commits = <<>> /\ head = 0 /\ foreign = 0
    /\ cur = NoHandle
    /\ state = [h \in Handle |-> Genesis]
    /\ ring = [h \in Handle |-> <<>>]
    /\ lock = [h \in Handle |-> NoOne]
    /\ reloads = {} /\ repairs = 0
    /\ w = [x \in Writer |-> NewWriter]
    /\ faults = 0

Step(x) ==
    \/ StageSnapshot(x) \/ LockStaged(x) \/ LockAndStage(x) \/ Noop(x)
    \/ Detach(x) \/ Publish(x) \/ LoseRace(x) \/ Install(x)
    \/ Recover(x) \/ Disconnect(x)
    \/ RetryInner(x) \/ RetryOuter(x) \/ GiveUp(x)
    \/ Notify(x) \/ CatchUp(x) \/ CatchUpTooLate(x) \/ AwaitReload(x)

Failure(x) ==
    \/ Abandon(x) \/ PublishFails(x) \/ RecoverFails(x) \/ Panic(x) \/ Cancel(x) \/ RefreshFails(x)

Background ==
    \/ Repair
    \/ \E l \in reloads : FinishReload(l)

\* Attempts, faults and foreign commits are bounded, so every behaviour ends; it may end
\* only here, with each request answered (or its caller gone) and no repair left over.
Finished == (\A x \in Writer : w[x].pc = "done") /\ reloads = {} /\ repairs = 0 /\ UNCHANGED vars

WriteNext ==
    \/ \E x \in Writer, r \in Request : Begin(x, r)
    \/ \E x \in Writer : Step(x) \/ Failure(x)
    \/ Background \/ SweepIdle
    \/ \E r \in Foreign : ForeignCommit(r)
    \/ Finished

WriteSpec == WriteInit /\ [][WriteNext]_vars

-----------------------------------------------------------------------------
(* Properties.                                                             *)

LoadedData(id) == LoadedState(id).data

\* The shape of the state; a lock is held exactly by a writer between taking and
\* releasing it.
WriteTypeOK ==
    /\ head \in 0 .. Len(commits)
    /\ cur \in {NoHandle} \cup Handle
    /\ \A h \in Handle : /\ state[h].t \in 0 .. Len(commits)
                         /\ Len(ring[h]) <= RECENT_COMMITS
                         /\ lock[h] \in {NoOne} \cup Writer
    /\ \A x \in Writer, h \in Handle :
          lock[h] = x <=> w[x].h = h /\ w[x].pc \in {"locked", "publish", "install", "recover"}

\* Every commit is what its request would have produced if it had run alone on the
\* commit before it: nothing it read when it was staged, perhaps several commits ago
\* and under other namespace codes, has been written in between (rebase_stage,
\* subjects_between).  A request that changed nothing read the state it names.
Serializable ==
    /\ \A id \in DOMAIN commits :
          LET c == commits[id]
          IN  \A k \in DOMAIN c.seen :
                 c.seen[k] = LoadedData(IF Len(c.chain) = 1 THEN 0 ELSE c.chain[Len(c.chain) - 1])[k]
    /\ \A x \in Writer : w[x].res = "noop" =>
          \A k \in DOMAIN w[x].stage.seen :
             w[x].stage.seen[k] = LoadedData(w[x].stage.base.head)[k]

\* The namespace codes a commit carries name, in the ledger it lands in, the subjects
\* its request named, whichever commits gave out codes between staging and publishing.
SidsMeanTheirIris ==
    \A id \in DOMAIN commits : commits[id].wrote \ {Schema} = commits[id].meant

\* A request lands at most once however often it is retried; an acknowledged one has
\* landed, and one answered with a conflict or with no change has not.
LandsAsAnswered ==
    \A x \in Writer :
       LET landed == {id \in DOMAIN commits : commits[id].by = x}
       IN  /\ Cardinality(landed) <= 1
           /\ w[x].res = "ok" => landed # {}
           /\ w[x].res \in {"conflict", "race", "noop", "refused"} => landed = {}

\* A reader is never handed the emptied slot of a commit for good: while the manager's
\* handle is unlocked and holds the placeholder, a reload of it or its eviction is due.
PlaceholderIsTemporary ==
    (cur # NoHandle /\ lock[cur] = NoOne /\ state[cur].placeholder) =>
        \/ repairs > 0 \/ \E l \in reloads : l.h = cur
        \/ \E x \in Writer : w[x].pc = "disconnect"

=============================================================================
