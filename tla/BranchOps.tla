----------------------------- MODULE BranchOps -----------------------------
(***************************************************************************)
(* Merge and revert beside the transactions of WritePath.  Both compute    *)
(* their conflicts on the head they look up first, drop the manager's      *)
(* entry, lock a handle that is loaded again, publish one commit on what   *)
(* it holds, and answer a failed publish by rolling the head back to the   *)
(* record they looked up.  A writer that still has the old handle is not   *)
(* behind their lock: the compare-and-set alone is between the two.        *)
(***************************************************************************)
EXTENDS WritePath

CONSTANT Operation   \* requests with a kind, "merge" or "revert"

-----------------------------------------------------------------------------
\* The record is looked up, for the conflicts and as the rollback snapshot.
Prepare(x, o) ==
    /\ w[x].pc = "new" /\ head # 0
    /\ w' = [w EXCEPT ![x].pc = "prepared", ![x].req = o, ![x].rec = head]
    /\ UNCHANGED <<durable, cache, background, faults>>

PrepareDisconnects(x) ==
    /\ w[x].pc = "prepared"
    /\ cur' = NoHandle
    /\ Goto(x, "disconnected")
    /\ UNCHANGED <<durable, state, ring, lock, background, faults>>

LoadAgain(x) ==
    /\ w[x].pc = "disconnected"
    /\ \E h \in Handle : GetOrLoad(h) /\ w' = [w EXCEPT ![x].pc = "loaded", ![x].h = h]
    /\ UNCHANGED <<durable, background, faults>>

\* The conflicts were decided on the looked-up head, whatever the handle holds now.
Conflicts(x) == [k \in w[x].req.writes |-> LoadedState(w[x].rec).data[k]]

\* The commit is built on the locked state and expects that state's head.
LockAndBuild(x) ==
    LET h == w[x].h
    IN  /\ w[x].pc = "loaded"
        /\ lock[h] = NoOne
        /\ lock' = [lock EXCEPT ![h] = x]
        /\ state' = [state EXCEPT ![h] = Placeholder]
        /\ w' = [w EXCEPT ![x].pc = "apply",
                          ![x].stage = [StageOn(w[x].req, state[h]) EXCEPT !.seen = Conflicts(x)]]
        /\ UNCHANGED <<durable, cur, ring, background, faults>>

\* Conflicts abort it, a shape rejects it, or the caller goes away, before it applies.
PrepareFails(x) ==
    /\ AddFault("abandon")
    /\ w[x].pc \in {"prepared", "disconnected", "loaded"}
    /\ w' = [w EXCEPT ![x] = Answered(x, "refused")]
    /\ UNCHANGED <<durable, cache, background>>

ApplyLands(x) ==
    /\ w[x].pc = "apply"
    /\ Land(x)
    /\ w' = [w EXCEPT ![x].pc = "applied", ![x].id = Len(commits) + 1]
    /\ UNCHANGED <<cache, background, faults>>

\* Installed without a footprint: the ring's chain ends here.
ApplyInstalls(x) ==
    LET h == w[x].h
    IN  /\ w[x].pc = "applied"
        /\ state' = [state EXCEPT ![h] = ApplySingleCommit(w[x].stage.base, w[x].id, commits[w[x].id])]
        /\ lock' = [lock EXCEPT ![h] = NoOne]
        /\ w' = [w EXCEPT ![x] = Answered(x, "ok")]
        /\ UNCHANGED <<durable, cur, ring, background, faults>>

\* The publish lost the race, or failed before or after the head moved: the emptied
\* slot is unlocked, to be evicted.
ApplyFails(x) ==
    /\ w[x].pc = "apply"
    /\ \/ /\ head # w[x].stage.base.head
          /\ UNCHANGED <<durable, faults>>
       \/ AddFault("fail") /\ UNCHANGED durable
       \/ AddFault("landed") /\ Land(x)
    /\ lock' = [lock EXCEPT ![w[x].h] = NoOne]
    /\ w' = [w EXCEPT ![x].pc = "evict", ![x].id = IF head' # head THEN head' ELSE 0]
    /\ UNCHANGED <<cur, state, ring, background>>

RollbackStep(x) == IF w[x].req.kind = "merge" THEN "check" ELSE "reset"

Evict(x) ==
    /\ w[x].pc = "evict"
    /\ cur' = NoHandle
    /\ Goto(x, RollbackStep(x))
    /\ UNCHANGED <<durable, state, ring, lock, background, faults>>

\* The task unwinds, before or after the head moved.
ApplyPanics(x) ==
    /\ w[x].pc \in {"apply", "applied"}
    /\ AddFault("panic")
    /\ lock' = [lock EXCEPT ![w[x].h] = NoOne]
    /\ repairs' = repairs + 1
    /\ Goto(x, RollbackStep(x))
    /\ UNCHANGED <<durable, cur, state, ring, reloads>>

\* A merge rolls back only a head it finds to be its own.
CheckHeadIsOurs(x) ==
    /\ w[x].pc = "check"
    /\ w' = [w EXCEPT ![x] = IF w[x].id # 0 /\ head = w[x].id
                             THEN [w[x] EXCEPT !.pc = "reset"] ELSE Answered(x, "error")]
    /\ UNCHANGED <<durable, cache, background, faults>>

\* reset_head takes no expected head.
ResetHead(x) ==
    /\ w[x].pc = "reset"
    /\ \/ head' = w[x].rec /\ UNCHANGED faults
       \/ AddFault("fail") /\ UNCHANGED head
    /\ w' = [w EXCEPT ![x] = Answered(x, "error")]
    /\ UNCHANGED <<commits, foreign, cache, background>>

Operate(x) ==
    \/ PrepareDisconnects(x) \/ LoadAgain(x) \/ LockAndBuild(x) \/ PrepareFails(x)
    \/ ApplyLands(x) \/ ApplyInstalls(x) \/ ApplyFails(x) \/ ApplyPanics(x)
    \/ Evict(x) \/ CheckHeadIsOurs(x) \/ ResetHead(x)

BranchNext ==
    \/ WriteNext
    \/ \E x \in Writer, o \in Operation : Prepare(x, o)
    \/ \E x \in Writer : Operate(x)

BranchSpec == WriteInit /\ [][BranchNext]_vars

-----------------------------------------------------------------------------
\* A request that was told its commit landed finds it in the ledger's history for as
\* long as the ledger lives: the rollback of a failed merge or revert takes back its own
\* commit and nobody else's.
AcknowledgedStays ==
    \A x \in Writer : w[x].res = "ok" =>
       \E id \in ToSet(ChainOf(head)) : commits[id].by = x
=============================================================================
