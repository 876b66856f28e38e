-------------------------- MODULE CachingCommitter --------------------------
(***************************************************************************)
(* The admission and idempotency layer in front of a committer: permits    *)
(* per ledger and for the process, and a cache of outcomes by ledger and   *)
(* key.  The committer behind it is the local one: it runs a commit on a   *)
(* task of its own, so a caller that goes away leaves the commit running.  *)
(* Every step is one operation on a concurrent map, a semaphore or the     *)
(* cache; submissions interleave between them.                             *)
(***************************************************************************)
EXTENDS Naturals, FiniteSets

CONSTANTS
    Submission, Ledger, IdempotencyKey,
    NoKey,               \* of an anonymous submission
    Request,             \* what is submitted: records of a ledger, a key and a body
    PerLedgerLimit, PendingLimit,
    Fault, MaxFaults

ASSUME LimitAssumption ==
    /\ IsFiniteSet(Submission)
    /\ {PerLedgerLimit, PendingLimit} \subseteq Nat \ {0} /\ MaxFaults \in Nat
    /\ \A r \in Request : r.ledger \in Ledger /\ r.key \in IdempotencyKey \cup {NoKey}

Semaphore == 1 .. Cardinality(Submission)
NoSemaphore == 0
CacheKey == Ledger \X IdempotencyKey

VARIABLES
    entry,      \* per_ledger_admission: of a ledger, its semaphore or none
    permits,    \* of a per-ledger semaphore: who holds a permit
    admission,  \* who holds a global permit
    slot,       \* of a cache key: its submission state, the body, whose it is
    cleanups,   \* removals that dropped claims have spawned
    shielded,   \* commits still running whose caller has gone
    landed,     \* submissions whose commit became the head
    s,          \* of a submission: what it is and where it is
    faults

vars == <<entry, permits, admission, slot, cleanups, shielded, landed, s, faults>>

Absent == [st |-> "absent", body |-> "none", of |-> NoKey]

CachingInit ==
    /\ entry = [l \in Ledger |-> NoSemaphore]
    /\ permits = [m \in Semaphore |-> {}]
    /\ admission = {}
    /\ slot = [c \in CacheKey |-> Absent]
    /\ cleanups = {} /\ shielded = {} /\ landed = {}
    /\ s = [x \in Submission |-> [pc |-> "new", ledger |-> NoKey, key |-> NoKey, body |-> "none",
                                  sem |-> NoSemaphore, res |-> "none", of |-> NoKey]]
    /\ faults = 0

AddFault(kind) ==
    /\ kind \in Fault
    /\ faults < MaxFaults
    /\ faults' = faults + 1

Keyed(x) == s[x].key # NoKey
CacheKeyOf(x) == <<s[x].ledger, s[x].key>>

-----------------------------------------------------------------------------
(* Admission.                                                              *)

SemaphoresInUse == {entry[l] : l \in Ledger} \cup {s[x].sem : x \in Submission}
FreshSemaphore == CHOOSE m \in Semaphore : m \notin SemaphoresInUse

\* The ledger's semaphore, created on first touch; the permit comes in a later step.
GetSemaphore(x, r) ==
    LET m == IF entry[r.ledger] = NoSemaphore THEN FreshSemaphore ELSE entry[r.ledger]
    IN  /\ s[x].pc = "new"
        /\ entry' = [entry EXCEPT ![r.ledger] = m]
        /\ s' = [s EXCEPT ![x] = [pc |-> "semaphore", ledger |-> r.ledger, key |-> r.key,
                                  body |-> r.body, sem |-> m, res |-> "none", of |-> NoKey]]
        /\ UNCHANGED <<permits, admission, slot, cleanups, shielded, landed, faults>>

TryAcquireLedger(x) ==
    /\ s[x].pc = "semaphore"
    /\ \/ /\ Cardinality(permits[s[x].sem]) < PerLedgerLimit
          /\ permits' = [permits EXCEPT ![s[x].sem] = @ \cup {x}]
          /\ s' = [s EXCEPT ![x].pc = "ledger"]
       \/ /\ Cardinality(permits[s[x].sem]) >= PerLedgerLimit
          /\ s' = [s EXCEPT ![x] = [@ EXCEPT !.pc = "done", !.sem = NoSemaphore,
                                            !.res = "overloaded"]]
          /\ UNCHANGED permits
    /\ UNCHANGED <<entry, admission, slot, cleanups, shielded, landed, faults>>

\* Mutant: a refusal by the global pool returns the permit and leaves the map alone.
TryAcquireGlobal_NoGuard(x) ==
    /\ s[x].pc = "ledger"
    /\ \/ /\ Cardinality(admission) < PendingLimit
          /\ admission' = admission \cup {x}
          /\ s' = [s EXCEPT ![x].pc = "admitted"]
          /\ UNCHANGED permits
       \/ /\ Cardinality(admission) >= PendingLimit
          /\ permits' = [permits EXCEPT ![s[x].sem] = @ \ {x}]
          /\ s' = [s EXCEPT ![x] = [@ EXCEPT !.pc = "done", !.sem = NoSemaphore,
                                            !.res = "overloaded"]]
          /\ UNCHANGED admission
    /\ UNCHANGED <<entry, slot, cleanups, shielded, landed, faults>>

TryAcquireGlobal(x) ==
    /\ s[x].pc = "ledger"
    /\ \/ /\ Cardinality(admission) < PendingLimit
          /\ admission' = admission \cup {x}
          /\ s' = [s EXCEPT ![x].pc = "admitted"]
       \/ /\ Cardinality(admission) >= PendingLimit
          /\ s' = [s EXCEPT ![x] = [@ EXCEPT !.pc = "release", !.res = "overloaded"]]
          /\ UNCHANGED admission
    /\ UNCHANGED <<entry, permits, slot, cleanups, shielded, landed, faults>>

\* The guard drops: both permits go back, then the map is looked at.
ReleasePermits(x) ==
    /\ s[x].pc = "release"
    /\ admission' = admission \ {x}
    /\ permits' = [permits EXCEPT ![s[x].sem] = @ \ {x}]
    /\ s' = [s EXCEPT ![x] = [@ EXCEPT !.pc = "evict", !.sem = NoSemaphore]]
    /\ UNCHANGED <<entry, slot, cleanups, shielded, landed, faults>>

\* The entry now under the ledger's name goes if it is idle, whoever created it.
RemoveIfIdle(x) ==
    LET l == s[x].ledger
    IN  /\ s[x].pc = "evict"
        /\ entry' = [entry EXCEPT ![l] = IF @ # NoSemaphore /\ permits[@] = {} THEN NoSemaphore ELSE @]
        /\ s' = [s EXCEPT ![x].pc = "done"]
        /\ UNCHANGED <<permits, admission, slot, cleanups, shielded, landed, faults>>

-----------------------------------------------------------------------------
(* The idempotency slot.                                                   *)

\* Mutant: a retry takes over a slot that is still in flight.
Claimable_InFlight(e, b) == e.st = "absent" \/ (e.st \in {"failed", "inflight"} /\ e.body = b)

Claimable(e, b) == e.st = "absent" \/ (e.st = "failed" /\ e.body = b)

\* Mutant: the body of the finished submission is not compared.
ClaimRefusal_AnyBody(e, b) == IF e.st = "committed" THEN "replayed" ELSE "inflight"

ClaimRefusal(e, b) ==
    IF e.body # b THEN "collision" ELSE IF e.st = "committed" THEN "replayed" ELSE "inflight"

Anonymous(x) ==
    /\ s[x].pc = "admitted" /\ ~ Keyed(x)
    /\ s' = [s EXCEPT ![x].pc = "execute"]
    /\ UNCHANGED <<entry, permits, admission, slot, cleanups, shielded, landed, faults>>

TryClaimSlot(x) ==
    LET c == CacheKeyOf(x)
    IN  /\ s[x].pc = "admitted" /\ Keyed(x)
        /\ \/ /\ Claimable(slot[c], s[x].body)
              /\ slot' = [slot EXCEPT ![c] = [st |-> "inflight", body |-> s[x].body, of |-> x]]
              /\ s' = [s EXCEPT ![x].pc = "execute"]
           \/ /\ ~ Claimable(slot[c], s[x].body)
              /\ s' = [s EXCEPT ![x] = [@ EXCEPT !.pc = "release", !.of = slot[c].of,
                                                !.res = ClaimRefusal(slot[c], s[x].body)]]
              /\ UNCHANGED slot
        /\ UNCHANGED <<entry, permits, admission, cleanups, shielded, landed, faults>>

\* The committer returns: the commit landed, nothing was changed, or it failed, with an
\* error that settles the matter or with one that does not (is_settled: 502 to 504, an
\* unknown outcome).  Either error may come after the commit had landed.
Execute(x) ==
    /\ s[x].pc = "execute"
    /\ \E res \in {"ok", "unchanged", "failed", "unsettled"} :
          /\ s' = [s EXCEPT ![x] = [@ EXCEPT !.pc = IF Keyed(x) THEN "record" ELSE "release",
                                            !.res = res]]
          /\ \/ /\ landed' = IF res = "ok" THEN landed \cup {x} ELSE landed
                /\ UNCHANGED faults
             \/ /\ res \in {"failed", "unsettled"} /\ AddFault("landed")
                /\ landed' = landed \cup {x}
    /\ UNCHANGED <<entry, permits, admission, slot, cleanups, shielded>>

\* The terminal state replaces the slot; what is not settled leaves it as it is.  Either
\* way the claim is kept (ClaimGuard::commit): no suspension separates the two.
RecordOutcome(x) ==
    /\ s[x].pc = "record"
    /\ slot' = IF s[x].res = "unsettled" THEN slot
               ELSE [slot EXCEPT ![CacheKeyOf(x)] =
                       [st |-> IF s[x].res = "failed" THEN "failed" ELSE "committed",
                        body |-> s[x].body, of |-> x]]
    /\ s' = [s EXCEPT ![x].pc = "release"]
    /\ UNCHANGED <<entry, permits, admission, cleanups, shielded, landed, faults>>

\* Mutant: a dropped claim leaves its slot to the time limit of the cache.
DroppedClaims_Kept(x) == {}

DroppedClaims(x) == IF Keyed(x) /\ s[x].pc # "admitted" THEN {CacheKeyOf(x)} ELSE {}

\* The caller goes away: the claim is dropped, a running commit is not.
Cancel(x) ==
    /\ s[x].pc \in {"admitted", "execute", "record"}
    /\ AddFault("cancel")
    /\ cleanups' = cleanups \cup DroppedClaims(x)
    /\ shielded' = IF s[x].pc = "execute" THEN shielded \cup {x} ELSE shielded
    /\ s' = [s EXCEPT ![x] = [@ EXCEPT !.pc = "release", !.res = "gone"]]
    /\ UNCHANGED <<entry, permits, admission, slot, landed>>

ShieldedCommitEnds(x) ==
    /\ x \in shielded
    /\ shielded' = shielded \ {x}
    /\ landed' \in {landed, landed \cup {x}}
    /\ UNCHANGED <<entry, permits, admission, slot, cleanups, s, faults>>

\* The removal that a dropped claim has spawned: it takes the slot if it is in flight.
Cleanup(c) ==
    /\ c \in cleanups
    /\ cleanups' = cleanups \ {c}
    /\ slot' = [slot EXCEPT ![c] = IF @.st = "inflight" THEN Absent ELSE @]
    /\ UNCHANGED <<entry, permits, admission, shielded, landed, s, faults>>

-----------------------------------------------------------------------------
Step(x) ==
    \/ TryAcquireLedger(x) \/ TryAcquireGlobal(x) \/ Anonymous(x) \/ TryClaimSlot(x)
    \/ Execute(x) \/ RecordOutcome(x) \/ ReleasePermits(x) \/ RemoveIfIdle(x)
    \/ ShieldedCommitEnds(x)

\* Everyone has been answered and nothing is left to run.
Finished ==
    /\ \A x \in Submission : s[x].pc = "done"
    /\ cleanups = {} /\ shielded = {}
    /\ UNCHANGED vars

CachingNext ==
    \/ \E x \in Submission, r \in Request : GetSemaphore(x, r)
    \/ \E x \in Submission : Step(x) \/ Cancel(x)
    \/ \E c \in CacheKey : Cleanup(c)
    \/ Finished

CachingSpec == CachingInit /\ [][CachingNext]_vars

-----------------------------------------------------------------------------
(* Properties.                                                             *)

Pc == {"new", "semaphore", "ledger", "admitted", "execute", "record", "release", "evict", "done"}
Result == {"none", "overloaded", "collision", "replayed", "inflight", "ok", "unchanged", "failed",
           "unsettled", "gone"}
Body == {r.body : r \in Request} \cup {"none"}
Slot == [st : {"absent", "inflight", "committed", "failed"}, body : Body,
         of : Submission \cup {NoKey}]
SubmissionState ==
    [pc : Pc, ledger : Ledger \cup {NoKey}, key : IdempotencyKey \cup {NoKey}, body : Body,
     sem : {NoSemaphore} \cup Semaphore, res : Result, of : Submission \cup {NoKey}]

\* Every variable has its type.
CachingTypeOK ==
    /\ entry \in [Ledger -> {NoSemaphore} \cup Semaphore]
    /\ permits \in [Semaphore -> SUBSET Submission]
    /\ slot \in [CacheKey -> Slot]
    /\ cleanups \subseteq CacheKey
    /\ {admission, shielded, landed} \subseteq SUBSET Submission
    /\ s \in [Submission -> SubmissionState]
    /\ faults \in 0 .. MaxFaults

\* The commit is in the ledger and the layer cannot know: its caller went away while it
\* ran, or the committer reported an error.
Lost(x) == s[x].res \in {"gone", "failed", "unsettled"}

\* Submissions of one body under one key collapse onto one execution, however they
\* interleave with cancelled ones and with the removals those spawn: apart from commits
\* whose outcome was lost, one of them lands.
KeyedRetriesCollapse ==
    \A x, y \in landed :
       (x # y /\ Keyed(x) /\ CacheKeyOf(x) = CacheKeyOf(y) /\ s[x].body = s[y].body)
          => Lost(x) \/ Lost(y)

\* A replayed receipt is that of a finished submission with the same key and body.
ReplayIsTrue ==
    \A x \in Submission : s[x].res = "replayed" =>
       LET y == s[x].of
       IN  /\ y \in landed \/ s[y].res = "unchanged"
           /\ CacheKeyOf(y) = CacheKeyOf(x) /\ s[y].body = s[x].body

\* The admission map holds no ledger without a submission under way: an entry is in
\* use, about to be, or about to be removed, in every interleaving of the permits.
NoLeakedAdmissionEntry ==
    \A l \in Ledger : entry[l] # NoSemaphore =>
       \E x \in Submission : s[x].ledger = l /\ s[x].pc \notin {"new", "done"}

Owned(c) == c \in cleanups \/ s[slot[c].of].pc \in {"execute", "record"}

\* A slot in flight is resolved or given up, so that a key is not unusable until the
\* cache forgets it: the submission that claimed it is still to record its outcome, or
\* the removal its dropped claim spawned is still to run.  Only an error that settles
\* nothing pins the slot, and then to the submission that got the error.
InFlightIsOwned ==
    \A c \in CacheKey : slot[c].st = "inflight" =>
       Owned(c) \/ s[slot[c].of].res = "unsettled"

\* "the slot is left to `ClaimGuard::drop`'s `InFlight` cleanup" (record_outcome, of
\* outcomes that are not settled): no slot in flight is without an owner.
UnsettledIsCleanedUp == \A c \in CacheKey : slot[c].st = "inflight" => Owned(c)
=============================================================================
