----------------------- MODULE CachingCommitter_proofs -----------------------
(***************************************************************************)
(* Safety theorems of CachingCommitter, for any number of submissions,     *)
(* ledgers and keys, any limits and any faults.                            *)
(***************************************************************************)
EXTENDS CachingCommitter, FiniteSetTheorems, TLAPS

\* Where a submission holds a permit of its ledger's semaphore.
Holding == {"ledger", "admitted", "execute", "record", "release"}

\* A semaphore is known to those of one ledger only; a permit is held by those
\* between the two halves of the guard; and an entry of the map is in use, or
\* about to be looked at by a submission that has returned its permit.
AdmissionInv ==
    /\ \A x \in Submission :
          /\ s[x].pc # "new" => s[x].ledger \in Ledger
          /\ s[x].sem # NoSemaphore <=> s[x].pc \in Holding \cup {"semaphore"}
          /\ \A m \in Semaphore : x \in permits[m] <=> s[x].sem = m /\ s[x].pc \in Holding
    /\ \A x, y \in Submission :
          s[x].sem # NoSemaphore /\ s[x].sem = s[y].sem => s[x].ledger = s[y].ledger
    /\ \A x \in Submission, l \in Ledger :
          entry[l] # NoSemaphore /\ entry[l] = s[x].sem => s[x].ledger = l
    /\ \A k, l \in Ledger : entry[l] # NoSemaphore /\ entry[l] = entry[k] => k = l
    /\ \A l \in Ledger : entry[l] # NoSemaphore =>
          \E x \in Submission : /\ s[x].ledger = l
                                /\ s[x].sem = entry[l] \/ s[x].pc = "evict"

\* Where a submission has its answer.
Over == {"release", "evict", "done"}

\* What a submission's place says of its result.
ResultOf(x) ==
    /\ s[x].pc \in Pc \ (Over \cup {"record"}) => s[x].res = "none" /\ x \notin landed
    /\ s[x].pc = "record" => s[x].res \in {"ok", "unchanged", "failed", "unsettled"} /\ s[x].key # NoKey
    /\ s[x].res = "ok" => x \in landed
    /\ x \in landed => s[x].res \in {"ok", "failed", "unsettled", "gone"}
    /\ x \in shielded => s[x].res = "gone" /\ s[x].pc \in Over

ResultInv == \A x \in Submission : ResultOf(x)

\* A slot belongs to a submission of its key.
SlotHasOwner ==
    \A c \in CacheKey : slot[c].st # "absent" =>
       /\ slot[c].of \in Submission
       /\ s[slot[c].of].pc # "new" /\ Keyed(slot[c].of)
       /\ CacheKeyOf(slot[c].of) = c /\ s[slot[c].of].body = slot[c].body

\* While a submission runs, the slot of its key is in flight, its own, and safe
\* from every removal.
RunningHoldsSlot ==
    \A x \in Submission : Keyed(x) /\ s[x].pc \in {"execute", "record"} =>
       /\ slot[CacheKeyOf(x)].st = "inflight" /\ slot[CacheKeyOf(x)].of = x
       /\ CacheKeyOf(x) \notin cleanups

\* A removal is due for a slot in flight only, so there is never one to come for
\* the next claim of a key.
CleanupMeetsInFlight == \A c \in cleanups : slot[c].st = "inflight"

\* A committed slot is that of a submission that has finished well,
CommittedIsOver ==
    \A c \in CacheKey : slot[c].st = "committed" =>
       s[slot[c].of].pc \in Over /\ s[slot[c].of].res \in {"ok", "unchanged"}

\* and the slot of one that landed and was told so is committed for ever.
LandedHoldsSlot ==
    \A x \in landed : Keyed(x) /\ ~ Lost(x) /\ s[x].pc # "record" =>
       slot[CacheKeyOf(x)].st = "committed" /\ slot[CacheKeyOf(x)].of = x

SlotInv ==
    /\ SlotHasOwner /\ RunningHoldsSlot /\ CleanupMeetsInFlight
    /\ CommittedIsOver /\ LandedHoldsSlot /\ InFlightIsOwned

\* A replayed answer points to a submission that has finished well.
ReplayInv ==
    \A x \in Submission : s[x].res = "replayed" =>
       /\ s[x].of \in Submission
       /\ s[s[x].of].pc \in Over /\ s[s[x].of].res \in {"ok", "unchanged"}
       /\ CacheKeyOf(s[x].of) = CacheKeyOf(x) /\ s[s[x].of].body = s[x].body
-----------------------------------------------------------------------------
(* What a step does to the submission that takes it.                       *)

\* The other submissions stay as they are, and x keeps what it was submitted with.
OnlyMoves(x) ==
    /\ \A y \in Submission : y # x => s'[y] = s[y]
    /\ s'[x].ledger = s[x].ledger /\ s'[x].key = s[x].key /\ s'[x].body = s[x].body
    /\ s' \in [Submission -> SubmissionState]

\* Submission x is at p with semaphore m, result r and reference o afterwards.
At(x, p, m, r, o) ==
    s'[x].pc = p /\ s'[x].sem = m /\ s'[x].res = r /\ s'[x].of = o

\* The fields of a submission.
LEMMA FieldTypes ==
    ASSUME s \in [Submission -> SubmissionState], NEW x \in Submission
    PROVE  /\ s[x].pc \in Pc /\ s[x].sem \in {NoSemaphore} \cup Semaphore
           /\ s[x].res \in Result /\ s[x].of \in Submission \cup {NoKey}
           /\ s[x].ledger \in Ledger \cup {NoKey}
           /\ s[x].key \in IdempotencyKey \cup {NoKey} /\ s[x].body \in Body
<1>1. s[x] \in SubmissionState
  OBVIOUS
<1> QED
  BY <1>1 DEF SubmissionState

LEMMA UpdateMoves ==
    ASSUME s \in [Submission -> SubmissionState], NEW x \in Submission,
           NEW e \in SubmissionState, s' = [s EXCEPT ![x] = e],
           e.ledger = s[x].ledger /\ e.key = s[x].key /\ e.body = s[x].body
    PROVE  OnlyMoves(x) /\ At(x, e.pc, e.sem, e.res, e.of)
BY DEF OnlyMoves, At

LEMMA PcMoves ==
    ASSUME s \in [Submission -> SubmissionState], NEW x \in Submission,
           NEW p \in Pc, s' = [s EXCEPT ![x].pc = p]
    PROVE  OnlyMoves(x) /\ At(x, p, s[x].sem, s[x].res, s[x].of)
<1> DEFINE e == [s[x] EXCEPT !.pc = p]
<1>1. s[x] \in SubmissionState
  OBVIOUS
<1>2. /\ e \in SubmissionState
      /\ e.pc = p /\ e.sem = s[x].sem /\ e.res = s[x].res /\ e.of = s[x].of
      /\ e.ledger = s[x].ledger /\ e.key = s[x].key /\ e.body = s[x].body
  BY <1>1 DEF SubmissionState
<1>3. s' = [s EXCEPT ![x] = e]
  OBVIOUS
<1> HIDE DEF e
<1>4. OnlyMoves(x) /\ At(x, e.pc, e.sem, e.res, e.of)
  BY <1>2, <1>3, UpdateMoves
<1> QED
  BY <1>2, <1>4

LEMMA ResMoves ==
    ASSUME s \in [Submission -> SubmissionState], NEW x \in Submission,
           NEW p \in Pc, NEW r \in Result,
           s' = [s EXCEPT ![x] = [@ EXCEPT !.pc = p, !.res = r]]
    PROVE  OnlyMoves(x) /\ At(x, p, s[x].sem, r, s[x].of)
<1> DEFINE e == [s[x] EXCEPT !.pc = p, !.res = r]
<1>1. s[x] \in SubmissionState
  OBVIOUS
<1>2. /\ e \in SubmissionState
      /\ e.pc = p /\ e.sem = s[x].sem /\ e.res = r /\ e.of = s[x].of
      /\ e.ledger = s[x].ledger /\ e.key = s[x].key /\ e.body = s[x].body
  BY <1>1 DEF SubmissionState
<1> HIDE DEF e
<1>4. OnlyMoves(x) /\ At(x, e.pc, e.sem, e.res, e.of)
  BY <1>2, UpdateMoves DEF e
<1> QED
  BY <1>2, <1>4

LEMMA TryAcquireLedgerMoves ==
    ASSUME s \in [Submission -> SubmissionState], NEW x \in Submission, TryAcquireLedger(x)
    PROVE  /\ OnlyMoves(x)
           /\ \/ /\ Cardinality(permits[s[x].sem]) < PerLedgerLimit
                 /\ permits' = [permits EXCEPT ![s[x].sem] = @ \cup {x}]
                 /\ At(x, "ledger", s[x].sem, s[x].res, s[x].of)
              \/ /\ Cardinality(permits[s[x].sem]) >= PerLedgerLimit
                 /\ UNCHANGED permits
                 /\ At(x, "done", NoSemaphore, "overloaded", s[x].of)
<1>1. CASE s' = [s EXCEPT ![x].pc = "ledger"]
           /\ Cardinality(permits[s[x].sem]) < PerLedgerLimit
           /\ permits' = [permits EXCEPT ![s[x].sem] = @ \cup {x}]
  BY <1>1, PcMoves DEF Pc
<1>2. CASE s' = [s EXCEPT ![x] = [@ EXCEPT !.pc = "done", !.sem = NoSemaphore,
                                            !.res = "overloaded"]]
           /\ Cardinality(permits[s[x].sem]) >= PerLedgerLimit
           /\ UNCHANGED permits
  <2> DEFINE e == [s[x] EXCEPT !.pc = "done", !.sem = NoSemaphore, !.res = "overloaded"]
  <2>1. s[x] \in SubmissionState
    OBVIOUS
  <2>2. /\ e \in SubmissionState
        /\ e.pc = "done" /\ e.sem = NoSemaphore /\ e.res = "overloaded" /\ e.of = s[x].of
        /\ e.ledger = s[x].ledger /\ e.key = s[x].key /\ e.body = s[x].body
    BY <2>1 DEF SubmissionState, Pc, Result
  <2>3. s' = [s EXCEPT ![x] = e]
    BY <1>2
  <2> HIDE DEF e
  <2>4. OnlyMoves(x) /\ At(x, e.pc, e.sem, e.res, e.of)
    BY <2>2, <2>3, UpdateMoves
  <2> QED
    BY <1>2, <2>2, <2>4
<1> QED
  BY <1>1, <1>2 DEF TryAcquireLedger

LEMMA TryAcquireGlobalMoves ==
    ASSUME s \in [Submission -> SubmissionState], NEW x \in Submission, TryAcquireGlobal(x)
    PROVE  /\ OnlyMoves(x)
           /\ \/ /\ Cardinality(admission) < PendingLimit
                 /\ admission' = admission \cup {x}
                 /\ At(x, "admitted", s[x].sem, s[x].res, s[x].of)
              \/ /\ UNCHANGED admission
                 /\ At(x, "release", s[x].sem, "overloaded", s[x].of)
<1>1. CASE /\ s' = [s EXCEPT ![x].pc = "admitted"]
           /\ Cardinality(admission) < PendingLimit
           /\ admission' = admission \cup {x}
  BY <1>1, PcMoves DEF Pc
<1>2. CASE /\ s' = [s EXCEPT ![x] = [@ EXCEPT !.pc = "release", !.res = "overloaded"]]
           /\ UNCHANGED admission
  BY <1>2, ResMoves DEF Pc, Result
<1> QED
  BY <1>1, <1>2 DEF TryAcquireGlobal

LEMMA ReleasePermitsMoves ==
    ASSUME s \in [Submission -> SubmissionState], NEW x \in Submission, ReleasePermits(x)
    PROVE  OnlyMoves(x) /\ At(x, "evict", NoSemaphore, s[x].res, s[x].of)
<1> DEFINE e == [s[x] EXCEPT !.pc = "evict", !.sem = NoSemaphore]
<1>1. s[x] \in SubmissionState
  OBVIOUS
<1>2. /\ e \in SubmissionState
      /\ e.pc = "evict" /\ e.sem = NoSemaphore /\ e.res = s[x].res /\ e.of = s[x].of
      /\ e.ledger = s[x].ledger /\ e.key = s[x].key /\ e.body = s[x].body
  BY <1>1 DEF SubmissionState, Pc
<1>3. s' = [s EXCEPT ![x] = e]
  BY DEF ReleasePermits
<1> HIDE DEF e
<1>4. OnlyMoves(x) /\ At(x, e.pc, e.sem, e.res, e.of)
  BY <1>2, <1>3, UpdateMoves
<1> QED
  BY <1>2, <1>4

LEMMA RemoveIfIdleMoves ==
    ASSUME s \in [Submission -> SubmissionState], NEW x \in Submission, RemoveIfIdle(x)
    PROVE  OnlyMoves(x) /\ At(x, "done", s[x].sem, s[x].res, s[x].of)
BY PcMoves DEF RemoveIfIdle, Pc

LEMMA AnonymousMoves ==
    ASSUME s \in [Submission -> SubmissionState], NEW x \in Submission, Anonymous(x)
    PROVE  OnlyMoves(x) /\ At(x, "execute", s[x].sem, s[x].res, s[x].of)
BY PcMoves DEF Anonymous, Pc

LEMMA RecordOutcomeMoves ==
    ASSUME s \in [Submission -> SubmissionState], NEW x \in Submission, RecordOutcome(x)
    PROVE  OnlyMoves(x) /\ At(x, "release", s[x].sem, s[x].res, s[x].of)
BY PcMoves DEF RecordOutcome, Pc

LEMMA CancelMoves ==
    ASSUME s \in [Submission -> SubmissionState], NEW x \in Submission, Cancel(x)
    PROVE  OnlyMoves(x) /\ At(x, "release", s[x].sem, "gone", s[x].of)
BY ResMoves DEF Cancel, Pc, Result

LEMMA ExecuteMoves ==
    ASSUME s \in [Submission -> SubmissionState], NEW x \in Submission, Execute(x)
    PROVE  /\ OnlyMoves(x)
           /\ \E res \in {"ok", "unchanged", "failed", "unsettled"} :
                 /\ At(x, IF Keyed(x) THEN "record" ELSE "release", s[x].sem, res, s[x].of)
                 /\ \/ landed' = (IF res = "ok" THEN landed \cup {x} ELSE landed) /\ UNCHANGED faults
                    \/ res \in {"failed", "unsettled"} /\ AddFault("landed") /\ landed' = landed \cup {x}
<1> DEFINE p == IF Keyed(x) THEN "record" ELSE "release"
<1>1. PICK res \in {"ok", "unchanged", "failed", "unsettled"} :
         /\ s' = [s EXCEPT ![x] = [@ EXCEPT !.pc = p, !.res = res]]
         /\ \/ landed' = (IF res = "ok" THEN landed \cup {x} ELSE landed) /\ UNCHANGED faults
            \/ res \in {"failed", "unsettled"} /\ AddFault("landed") /\ landed' = landed \cup {x}
  BY DEF Execute
<1>2. p \in Pc /\ res \in Result
  BY DEF Pc, Result
<1> HIDE DEF p
<1>3. OnlyMoves(x) /\ At(x, p, s[x].sem, res, s[x].of)
  BY <1>1, <1>2, ResMoves
<1> USE DEF p
<1> QED
  BY <1>1, <1>3

LEMMA TryClaimSlotMoves ==
    ASSUME CachingTypeOK, AdmissionInv, NEW x \in Submission, TryClaimSlot(x),
           NEW c, c = CacheKeyOf(x)
    PROVE  /\ OnlyMoves(x)
           /\ \/ /\ Claimable(slot[c], s[x].body)
                 /\ slot' = [slot EXCEPT ![c] = [st |-> "inflight", body |-> s[x].body, of |-> x]]
                 /\ At(x, "execute", s[x].sem, s[x].res, s[x].of)
              \/ /\ ~ Claimable(slot[c], s[x].body)
                 /\ UNCHANGED slot
                 /\ At(x, "release", s[x].sem, ClaimRefusal(slot[c], s[x].body), slot[c].of)
           /\ c \in CacheKey
<1>0. s[x] \in SubmissionState /\ s[x].key # NoKey
  BY DEF CachingTypeOK, TryClaimSlot, Keyed
<1>1. CASE /\ Claimable(slot[c], s[x].body)
           /\ slot' = [slot EXCEPT ![c] = [st |-> "inflight", body |-> s[x].body, of |-> x]]
           /\ s' = [s EXCEPT ![x].pc = "execute"]
           /\ c \in CacheKey
  BY <1>1, PcMoves DEF Pc, CachingTypeOK
<1>2. CASE /\ ~ Claimable(slot[c], s[x].body)
           /\ UNCHANGED slot
           /\ s' = [s EXCEPT ![x] = [@ EXCEPT !.pc = "release", !.of = slot[c].of,
                                            !.res = ClaimRefusal(slot[c], s[x].body)]]
           /\ c \in CacheKey
  <2> DEFINE r == ClaimRefusal(slot[c], s[x].body)
             o == slot[c].of
             e == [s[x] EXCEPT !.pc = "release", !.of = o, !.res = r]
  <2>1. r \in Result
    BY DEF ClaimRefusal, Result
  <2>2. o \in Submission \cup {NoKey}
    BY <1>2 DEF CachingTypeOK, Slot
  <2>3. s' = [s EXCEPT ![x] = e]
    BY <1>2
  <2> HIDE DEF r, o
  <2>4. /\ e \in SubmissionState
        /\ e.pc = "release" /\ e.sem = s[x].sem /\ e.res = r /\ e.of = o
        /\ e.ledger = s[x].ledger /\ e.key = s[x].key /\ e.body = s[x].body
    BY <1>0, <2>1, <2>2 DEF SubmissionState, Pc
  <2> HIDE DEF e
  <2>5. OnlyMoves(x) /\ At(x, e.pc, e.sem, e.res, e.of)
    BY <2>3, <2>4, UpdateMoves DEF CachingTypeOK
  <2> QED
    BY <1>2, <2>4, <2>5 DEF r, o
<1>3. c \in CacheKey
  <2>1. s[x].ledger \in Ledger
    BY DEF AdmissionInv, TryClaimSlot
  <2>2. s[x].key \in IdempotencyKey
    BY <1>0 DEF SubmissionState
  <2> QED
    BY <2>1, <2>2 DEF CacheKeyOf, CacheKey
<1> QED
  BY <1>1, <1>2, <1>3 DEF TryClaimSlot

\* A submission that has not come yet finds a semaphore nobody knows: each one
\* that is in use is known to another submission, or is the entry that another
\* is about to look at.
LEMMA FreshExists ==
    ASSUME CachingTypeOK, AdmissionInv, NEW x \in Submission, s[x].pc = "new"
    PROVE  FreshSemaphore \in Semaphore /\ FreshSemaphore \notin SemaphoresInUse
<1> DEFINE n == Cardinality(Submission)
           Knows(y, m) == \/ s[y].sem = m
                          \/ s[y].pc = "evict" /\ s[y].ledger \in Ledger /\ entry[s[y].ledger] = m
<1>1. n \in Nat /\ IsFiniteSet(Submission)
  BY LimitAssumption, FS_CardinalityType
<1>2. IsFiniteSet(Semaphore) /\ Cardinality(Semaphore) = n
  BY <1>1, FS_Interval DEF Semaphore
<1>3. IsFiniteSet(Submission \ {x}) /\ Cardinality(Submission \ {x}) = n - 1
  BY <1>1, FS_RemoveElement
<1>4. NoSemaphore \notin Semaphore
  BY DEF NoSemaphore, Semaphore
<1>5. ASSUME NEW y \in Submission, NEW m \in Semaphore, NEW k \in Semaphore,
             Knows(y, m), Knows(y, k)
      PROVE  m = k
  BY <1>4, <1>5 DEF AdmissionInv, Holding
<1>6. ASSUME NEW m \in Semaphore, m \in SemaphoresInUse
      PROVE  \E y \in Submission \ {x} : Knows(y, m)
  <2>1. ASSUME NEW y \in Submission, Knows(y, m) PROVE y # x
    BY <1>4, <2>1 DEF AdmissionInv, Holding
  <2>2. CASE \E y \in Submission : s[y].sem = m
    BY <2>1, <2>2
  <2>3. CASE \E l \in Ledger : entry[l] = m
    BY <1>4, <2>1, <2>3 DEF AdmissionInv
  <2> QED
    BY <1>6, <2>2, <2>3 DEF SemaphoresInUse
<1>7. \E m \in Semaphore : m \notin SemaphoresInUse
  <2> SUFFICES ASSUME \A m \in Semaphore : m \in SemaphoresInUse PROVE FALSE
    OBVIOUS
  <2> DEFINE f == [m \in Semaphore |-> CHOOSE y \in Submission \ {x} : Knows(y, m)]
  <2>1. \A m \in Semaphore : f[m] \in Submission \ {x} /\ Knows(f[m], m)
    BY <1>6
  <2>2. f \in [Semaphore -> Submission \ {x}]
    BY <2>1
  <2> HIDE DEF f, Knows, n
  <2>3. PICK m \in Semaphore, k \in Semaphore : m # k /\ f[m] = f[k]
    BY <1>1, <1>2, <1>3, <2>2, FS_PigeonHole
  <2> QED
    BY <1>5, <2>1, <2>3
<1> QED
  BY <1>7 DEF FreshSemaphore

LEMMA GetSemaphoreMoves ==
    ASSUME CachingTypeOK, AdmissionInv, NEW x \in Submission, NEW r \in Request,
           GetSemaphore(x, r)
    PROVE  \E m \in Semaphore :
              /\ \/ m = entry[r.ledger]
                 \/ entry[r.ledger] = NoSemaphore /\ m \notin SemaphoresInUse
              /\ entry' = [entry EXCEPT ![r.ledger] = m]
              /\ r.ledger \in Ledger
              /\ At(x, "semaphore", m, "none", NoKey)
              /\ s'[x].ledger = r.ledger /\ s'[x].key = r.key /\ s'[x].body = r.body
              /\ \A y \in Submission : y # x => s'[y] = s[y]
              /\ s' \in [Submission -> SubmissionState]
<1> DEFINE m == IF entry[r.ledger] = NoSemaphore THEN FreshSemaphore ELSE entry[r.ledger]
           e == [pc |-> "semaphore", ledger |-> r.ledger, key |-> r.key,
                 body |-> r.body, sem |-> m, res |-> "none", of |-> NoKey]
<1>1. r.ledger \in Ledger /\ r.key \in IdempotencyKey \cup {NoKey} /\ r.body \in Body
  BY LimitAssumption DEF Body
<1>2. m \in Semaphore /\ \/ m = entry[r.ledger]
                         \/ entry[r.ledger] = NoSemaphore /\ m \notin SemaphoresInUse
  BY <1>1, FreshExists DEF GetSemaphore, CachingTypeOK
<1>3. entry' = [entry EXCEPT ![r.ledger] = m] /\ s' = [s EXCEPT ![x] = e]
  BY DEF GetSemaphore
<1> HIDE DEF m
<1>4. e \in SubmissionState
  BY <1>1, <1>2 DEF SubmissionState, Pc, Result
<1>5. At(x, "semaphore", m, "none", NoKey)
      /\ s'[x].ledger = r.ledger /\ s'[x].key = r.key /\ s'[x].body = r.body
  BY <1>3 DEF At, CachingTypeOK
<1>6. /\ \A y \in Submission : y # x => s'[y] = s[y]
      /\ s' \in [Submission -> SubmissionState]
  BY <1>3, <1>4 DEF CachingTypeOK
<1> QED
  BY <1>1, <1>2, <1>3, <1>5, <1>6

-----------------------------------------------------------------------------
(* Types.                                                                  *)

LEMMA TypeStep ==
    ASSUME CachingTypeOK, AdmissionInv, [CachingNext]_vars
    PROVE  CachingTypeOK'
<1> USE DEF CachingTypeOK
<1>1. ASSUME NEW x \in Submission, NEW r \in Request, GetSemaphore(x, r)
      PROVE  CachingTypeOK'
  <2>1. entry' \in [Ledger -> {NoSemaphore} \cup Semaphore]
        /\ s' \in [Submission -> SubmissionState]
    BY <1>1, GetSemaphoreMoves
  <2> QED
    BY <1>1, <2>1 DEF GetSemaphore
<1>2. ASSUME NEW x \in Submission, TryAcquireLedger(x) PROVE CachingTypeOK'
  <2>1. s' \in [Submission -> SubmissionState]
    BY <1>2, TryAcquireLedgerMoves DEF OnlyMoves
  <2>2. permits' \in [Semaphore -> SUBSET Submission]
    BY <1>2 DEF TryAcquireLedger
  <2> QED
    BY <1>2, <2>1, <2>2 DEF TryAcquireLedger
<1>3. ASSUME NEW x \in Submission, TryAcquireGlobal(x) PROVE CachingTypeOK'
  <2>1. s' \in [Submission -> SubmissionState]
    BY <1>3, TryAcquireGlobalMoves DEF OnlyMoves
  <2> QED
    BY <1>3, <2>1 DEF TryAcquireGlobal
<1>4. ASSUME NEW x \in Submission, Anonymous(x) PROVE CachingTypeOK'
  <2>1. s' \in [Submission -> SubmissionState]
    BY <1>4, AnonymousMoves DEF OnlyMoves
  <2> QED
    BY <1>4, <2>1 DEF Anonymous
<1>5. ASSUME NEW x \in Submission, TryClaimSlot(x) PROVE CachingTypeOK'
  <2> DEFINE c == CacheKeyOf(x)
             e == [st |-> "inflight", body |-> s[x].body, of |-> x]
  <2>1. /\ s' \in [Submission -> SubmissionState]
        /\ slot' = [slot EXCEPT ![c] = e] \/ slot' = slot
    BY <1>5, TryClaimSlotMoves DEF OnlyMoves
  <2>2. e \in Slot
    BY FieldTypes DEF Slot
  <2> HIDE DEF e, c
  <2>3. slot' \in [CacheKey -> Slot]
    BY <2>1, <2>2
  <2> QED
    BY <1>5, <2>1, <2>3 DEF TryClaimSlot
<1>6. ASSUME NEW x \in Submission, Execute(x) PROVE CachingTypeOK'
  <2>1. s' \in [Submission -> SubmissionState]
    BY <1>6, ExecuteMoves DEF OnlyMoves
  <2>2. landed' \subseteq Submission
    BY <1>6 DEF Execute
  <2>3. faults' \in 0 .. MaxFaults
    BY <1>6, LimitAssumption DEF Execute, AddFault
  <2> QED
    BY <1>6, <2>1, <2>2, <2>3 DEF Execute
<1>7. ASSUME NEW x \in Submission, RecordOutcome(x) PROVE CachingTypeOK'
  <2> DEFINE e == [st |-> IF s[x].res = "failed" THEN "failed" ELSE "committed",
                   body |-> s[x].body, of |-> x]
  <2>1. s' \in [Submission -> SubmissionState]
    BY <1>7, RecordOutcomeMoves DEF OnlyMoves
  <2>2. e \in Slot
    BY FieldTypes DEF Slot
  <2>3. slot' = slot \/ slot' = [slot EXCEPT ![CacheKeyOf(x)] = e]
    BY <1>7 DEF RecordOutcome
  <2> HIDE DEF e
  <2>4. slot' \in [CacheKey -> Slot]
    BY <2>2, <2>3
  <2> QED
    BY <1>7, <2>1, <2>4 DEF RecordOutcome
<1>8. ASSUME NEW x \in Submission, ReleasePermits(x) PROVE CachingTypeOK'
  <2>1. s' \in [Submission -> SubmissionState]
    BY <1>8, ReleasePermitsMoves DEF OnlyMoves
  <2>2. permits' \in [Semaphore -> SUBSET Submission]
    BY <1>8 DEF ReleasePermits
  <2> QED
    BY <1>8, <2>1, <2>2 DEF ReleasePermits
<1>9. ASSUME NEW x \in Submission, RemoveIfIdle(x) PROVE CachingTypeOK'
  <2>1. s' \in [Submission -> SubmissionState]
    BY <1>9, RemoveIfIdleMoves DEF OnlyMoves
  <2>2. entry' \in [Ledger -> {NoSemaphore} \cup Semaphore]
    BY <1>9 DEF RemoveIfIdle
  <2> QED
    BY <1>9, <2>1, <2>2 DEF RemoveIfIdle
<1>10. ASSUME NEW x \in Submission, ShieldedCommitEnds(x) PROVE CachingTypeOK'
  BY <1>10 DEF ShieldedCommitEnds
<1>11. ASSUME NEW x \in Submission, Cancel(x) PROVE CachingTypeOK'
  <2>1. s' \in [Submission -> SubmissionState]
    BY <1>11, CancelMoves DEF OnlyMoves
  <2>2. cleanups' \subseteq CacheKey
    <3>1. Keyed(x) => CacheKeyOf(x) \in CacheKey
      BY <1>11, FieldTypes DEF Cancel, AdmissionInv, CacheKeyOf, CacheKey, Keyed
    <3> QED
      BY <1>11, <3>1 DEF Cancel, DroppedClaims
  <2>3. faults' \in 0 .. MaxFaults
    BY <1>11, LimitAssumption DEF Cancel, AddFault
  <2> QED
    BY <1>11, <2>1, <2>2, <2>3 DEF Cancel
<1>12. ASSUME NEW c \in CacheKey, Cleanup(c) PROVE CachingTypeOK'
  <2>1. Absent \in Slot
    BY DEF Absent, Slot, Body
  <2>2. slot' \in [CacheKey -> Slot]
    BY <1>12, <2>1 DEF Cleanup
  <2> QED
    BY <1>12, <2>2 DEF Cleanup
<1>13. CASE UNCHANGED vars
  BY <1>13 DEF vars
<1> QED
  BY <1>1, <1>2, <1>3, <1>4, <1>5, <1>6, <1>7, <1>8, <1>9, <1>10, <1>11, <1>12, <1>13
     DEF CachingNext, Step, Finished

-----------------------------------------------------------------------------
(* Admission.                                                              *)

\* Steps that touch neither the map nor a permit.
LEMMA AdmissionStutters ==
    ASSUME CachingTypeOK, AdmissionInv, NEW x \in Submission, OnlyMoves(x),
           UNCHANGED <<entry, permits>>, s'[x].sem = s[x].sem,
           s[x].pc \in Holding, s'[x].pc \in Holding
    PROVE  AdmissionInv'
BY DEF CachingTypeOK, AdmissionInv, OnlyMoves, Holding

LEMMA AdmissionStep ==
    ASSUME CachingTypeOK, AdmissionInv, [CachingNext]_vars
    PROVE  AdmissionInv'
<1>0. NoSemaphore \notin Semaphore
  BY DEF NoSemaphore, Semaphore
<1>1. ASSUME NEW x \in Submission, NEW r \in Request, GetSemaphore(x, r)
      PROVE  AdmissionInv'
  <2>1. PICK m \in Semaphore :
              /\ \/ m = entry[r.ledger]
                 \/ entry[r.ledger] = NoSemaphore /\ m \notin SemaphoresInUse
              /\ entry' = [entry EXCEPT ![r.ledger] = m]
              /\ r.ledger \in Ledger
              /\ At(x, "semaphore", m, "none", NoKey)
              /\ s'[x].ledger = r.ledger /\ s'[x].key = r.key /\ s'[x].body = r.body
              /\ \A y \in Submission : y # x => s'[y] = s[y]
    BY <1>1, GetSemaphoreMoves
  <2>2. \A l \in Ledger : entry'[l] = IF l = r.ledger THEN m ELSE entry[l]
    BY <2>1 DEF CachingTypeOK
  <2>3. /\ s[x].pc = "new" /\ permits' = permits
        /\ s[x].sem = NoSemaphore /\ \A k \in Semaphore : x \notin permits[k]
    BY <1>1 DEF GetSemaphore, AdmissionInv, Holding
  <2>4. /\ \A y \in Submission : y # x /\ s[y].sem = m => s[y].ledger = r.ledger
        /\ \A l \in Ledger : entry[l] = m => l = r.ledger
    BY <1>0, <2>1 DEF AdmissionInv, SemaphoresInUse
  <2>5. \A y \in Submission :
           /\ s'[y].pc # "new" => s'[y].ledger \in Ledger
           /\ s'[y].sem # NoSemaphore <=> s'[y].pc \in Holding \cup {"semaphore"}
           /\ \A k \in Semaphore : y \in permits'[k] <=> s'[y].sem = k /\ s'[y].pc \in Holding
    BY <1>0, <2>1, <2>3 DEF AdmissionInv, At, Holding
  <2>6. /\ \A y, z \in Submission :
              s'[y].sem # NoSemaphore /\ s'[y].sem = s'[z].sem => s'[y].ledger = s'[z].ledger
        /\ \A y \in Submission, l \in Ledger :
              entry'[l] # NoSemaphore /\ entry'[l] = s'[y].sem => s'[y].ledger = l
        /\ \A k, l \in Ledger : entry'[l] # NoSemaphore /\ entry'[l] = entry'[k] => k = l
    BY <2>1, <2>2, <2>4 DEF AdmissionInv, At
  <2>7. ASSUME NEW l \in Ledger, entry'[l] # NoSemaphore
        PROVE  \E y \in Submission : /\ s'[y].ledger = l
                                     /\ s'[y].sem = entry'[l] \/ s'[y].pc = "evict"
    <3>1. CASE l = r.ledger
      BY <2>1, <2>2, <3>1 DEF At
    <3>2. CASE l # r.ledger
      <4>1. PICK y \in Submission : /\ s[y].ledger = l
                                    /\ s[y].sem = entry[l] \/ s[y].pc = "evict"
        BY <2>2, <2>7, <3>2 DEF AdmissionInv
      <4>2. y # x
        BY <2>2, <2>3, <2>7, <3>2, <4>1
      <4> QED
        BY <2>1, <2>2, <3>2, <4>1, <4>2
    <3> QED
      BY <3>1, <3>2
  <2> QED
    BY <2>5, <2>6, <2>7 DEF AdmissionInv
<1>2. ASSUME NEW x \in Submission, TryAcquireLedger(x) PROVE AdmissionInv'
  <2>1. s[x].pc = "semaphore" /\ s[x].sem \in Semaphore /\ s[x].ledger \in Ledger
    BY <1>2, FieldTypes DEF TryAcquireLedger, AdmissionInv, CachingTypeOK
  <2>2. entry' = entry /\ OnlyMoves(x)
    BY <1>2, TryAcquireLedgerMoves DEF TryAcquireLedger, CachingTypeOK
  <2>3. CASE /\ permits' = [permits EXCEPT ![s[x].sem] = @ \cup {x}]
             /\ At(x, "ledger", s[x].sem, s[x].res, s[x].of)
    <3>1. \A m \in Semaphore :
             permits'[m] = IF m = s[x].sem THEN permits[m] \cup {x} ELSE permits[m]
      BY <2>1, <2>3 DEF CachingTypeOK
    <3>2. /\ s'[x].pc = "ledger" /\ s'[x].sem = s[x].sem /\ s'[x].ledger = s[x].ledger
          /\ \A y \in Submission : y # x => s'[y] = s[y]
      BY <2>2, <2>3 DEF OnlyMoves, At
    <3>3. \A y \in Submission :
             s'[y].sem = s[y].sem /\ s'[y].ledger = s[y].ledger
      BY <3>2
    <3>4. ASSUME NEW y \in Submission
          PROVE  /\ s'[y].pc # "new" => s'[y].ledger \in Ledger
                 /\ s'[y].sem # NoSemaphore <=> s'[y].pc \in Holding \cup {"semaphore"}
                 /\ \A k \in Semaphore : y \in permits'[k] <=> s'[y].sem = k /\ s'[y].pc \in Holding
      <4>1. CASE y = x
        <5>1. \A k \in Semaphore : x \notin permits[k]
          BY <2>1 DEF AdmissionInv, Holding
        <5>2. \A k \in Semaphore : x \in permits'[k] <=> k = s[x].sem
          BY <3>1, <5>1
        <5>3. "ledger" \in Holding
          BY DEF Holding
        <5> QED
          BY <1>0, <2>1, <3>2, <4>1, <5>2, <5>3
      <4>2. CASE y # x
        <5>1. \A k \in Semaphore : y \in permits'[k] <=> y \in permits[k]
          BY <3>1, <4>2
        <5> QED
          BY <3>2, <4>2, <5>1 DEF AdmissionInv
      <4> QED
        BY <4>1, <4>2
    <3>5. ASSUME NEW l \in Ledger, entry'[l] # NoSemaphore
          PROVE  \E y \in Submission : /\ s'[y].ledger = l
                                       /\ s'[y].sem = entry'[l] \/ s'[y].pc = "evict"
      <4>1. PICK y \in Submission : /\ s[y].ledger = l
                                    /\ s[y].sem = entry[l] \/ s[y].pc = "evict"
        BY <2>2, <3>5 DEF AdmissionInv
      <4> QED
        BY <2>1, <2>2, <3>2, <3>3, <4>1
    <3> QED
      BY <2>2, <3>3, <3>4, <3>5 DEF AdmissionInv
  <2>4. CASE /\ Cardinality(permits[s[x].sem]) >= PerLedgerLimit
             /\ permits' = permits
             /\ At(x, "done", NoSemaphore, "overloaded", s[x].of)
    <3>1. permits[s[x].sem] # {}
      <4>1. Cardinality({}) = 0
        BY FS_EmptySet
      <4>2. PerLedgerLimit \in Nat /\ PerLedgerLimit > 0
        BY LimitAssumption
      <4> QED
        BY <2>4, <4>1, <4>2
    <3>2. PICK y \in Submission : y \in permits[s[x].sem]
      BY <2>1, <3>1 DEF CachingTypeOK
    <3>3. s[y].sem = s[x].sem /\ y # x /\ s[y].ledger = s[x].ledger
      BY <1>0, <2>1, <3>2 DEF AdmissionInv, Holding
    <3>4. \A z \in Submission :
             /\ s'[z].pc # "new" => s'[z].ledger \in Ledger
             /\ s'[z].sem # NoSemaphore <=> s'[z].pc \in Holding \cup {"semaphore"}
             /\ \A k \in Semaphore : z \in permits'[k] <=> s'[z].sem = k /\ s'[z].pc \in Holding
      BY <1>0, <2>1, <2>2, <2>4 DEF AdmissionInv, OnlyMoves, At, Holding
    <3>5. ASSUME NEW l \in Ledger, entry'[l] # NoSemaphore
          PROVE  \E z \in Submission : /\ s'[z].ledger = l
                                       /\ s'[z].sem = entry'[l] \/ s'[z].pc = "evict"
      <4>1. PICK z \in Submission : /\ s[z].ledger = l
                                    /\ s[z].sem = entry[l] \/ s[z].pc = "evict"
        BY <2>2, <3>5 DEF AdmissionInv
      <4>2. CASE z # x
        BY <2>2, <4>1, <4>2 DEF OnlyMoves
      <4>3. CASE z = x
        BY <2>1, <2>2, <3>3, <4>1, <4>3 DEF OnlyMoves
      <4> QED
        BY <4>2, <4>3
    <3>6. /\ \A y1, z1 \in Submission :
                s'[y1].sem # NoSemaphore /\ s'[y1].sem = s'[z1].sem
                   => s'[y1].ledger = s'[z1].ledger
          /\ \A y1 \in Submission, l \in Ledger :
                entry'[l] # NoSemaphore /\ entry'[l] = s'[y1].sem => s'[y1].ledger = l
          /\ \A k, l \in Ledger : entry'[l] # NoSemaphore /\ entry'[l] = entry'[k] => k = l
      BY <2>2, <2>4 DEF AdmissionInv, OnlyMoves, At
    <3> QED
      BY <3>4, <3>5, <3>6 DEF AdmissionInv
  <2> QED
    BY <1>2, <2>3, <2>4, TryAcquireLedgerMoves DEF CachingTypeOK
<1>3. ASSUME NEW x \in Submission, TryAcquireGlobal(x) PROVE AdmissionInv'
  <2>1. OnlyMoves(x) /\ s'[x].sem = s[x].sem /\ s'[x].pc \in Holding
    BY <1>3, TryAcquireGlobalMoves DEF CachingTypeOK, At, Holding
  <2> QED
    BY <1>3, <2>1, AdmissionStutters DEF TryAcquireGlobal, Holding
<1>4. ASSUME NEW x \in Submission, Anonymous(x) PROVE AdmissionInv'
  <2>1. OnlyMoves(x) /\ s'[x].sem = s[x].sem /\ s'[x].pc \in Holding
    BY <1>4, AnonymousMoves DEF CachingTypeOK, At, Holding
  <2> QED
    BY <1>4, <2>1, AdmissionStutters DEF Anonymous, Holding
<1>5. ASSUME NEW x \in Submission, TryClaimSlot(x) PROVE AdmissionInv'
  <2>1. OnlyMoves(x) /\ s'[x].sem = s[x].sem /\ s'[x].pc \in Holding
    BY <1>5, TryClaimSlotMoves DEF CachingTypeOK, At, Holding
  <2> QED
    BY <1>5, <2>1, AdmissionStutters DEF TryClaimSlot, Holding
<1>6. ASSUME NEW x \in Submission, Execute(x) PROVE AdmissionInv'
  <2>1. OnlyMoves(x) /\ s'[x].sem = s[x].sem /\ s'[x].pc \in Holding
    BY <1>6, ExecuteMoves DEF CachingTypeOK, At, Holding
  <2> QED
    BY <1>6, <2>1, AdmissionStutters DEF Execute, Holding
<1>7. ASSUME NEW x \in Submission, RecordOutcome(x) PROVE AdmissionInv'
  <2>1. OnlyMoves(x) /\ s'[x].sem = s[x].sem /\ s'[x].pc \in Holding
    BY <1>7, RecordOutcomeMoves DEF CachingTypeOK, At, Holding
  <2> QED
    BY <1>7, <2>1, AdmissionStutters DEF RecordOutcome, Holding
<1>8. ASSUME NEW x \in Submission, ReleasePermits(x) PROVE AdmissionInv'
  <2>1. s[x].pc = "release" /\ s[x].sem \in Semaphore /\ s[x].ledger \in Ledger
    BY <1>8, FieldTypes DEF ReleasePermits, AdmissionInv, Holding, CachingTypeOK
  <2>2. entry' = entry /\ OnlyMoves(x) /\ At(x, "evict", NoSemaphore, s[x].res, s[x].of)
    BY <1>8, ReleasePermitsMoves DEF ReleasePermits, CachingTypeOK
  <2>3. \A m \in Semaphore :
           permits'[m] = IF m = s[x].sem THEN permits[m] \ {x} ELSE permits[m]
    BY <1>8, <2>1 DEF ReleasePermits, CachingTypeOK
  <2>4. \A z \in Submission :
           /\ s'[z].pc # "new" => s'[z].ledger \in Ledger
           /\ s'[z].sem # NoSemaphore <=> s'[z].pc \in Holding \cup {"semaphore"}
           /\ \A k \in Semaphore : z \in permits'[k] <=> s'[z].sem = k /\ s'[z].pc \in Holding
    <3> SUFFICES ASSUME NEW z \in Submission
                 PROVE  /\ s'[z].pc # "new" => s'[z].ledger \in Ledger
                        /\ s'[z].sem # NoSemaphore <=> s'[z].pc \in Holding \cup {"semaphore"}
                        /\ \A k \in Semaphore :
                              z \in permits'[k] <=> s'[z].sem = k /\ s'[z].pc \in Holding
      OBVIOUS
    <3>1. CASE z = x
      <4>1. s'[x].pc = "evict" /\ s'[x].sem = NoSemaphore /\ s'[x].ledger \in Ledger
        BY <2>1, <2>2 DEF OnlyMoves, At
      <4>2. ASSUME NEW k \in Semaphore PROVE x \notin permits'[k]
        <5>1. CASE k = s[x].sem
          BY <2>3, <5>1
        <5>2. CASE k # s[x].sem
          BY <2>3, <5>2 DEF AdmissionInv
        <5> QED
          BY <5>1, <5>2
      <4> QED
        BY <1>0, <3>1, <4>1, <4>2 DEF Holding
    <3>2. CASE z # x
      <4>1. s'[z] = s[z] /\ \A k \in Semaphore : z \in permits'[k] <=> z \in permits[k]
        BY <2>2, <2>3, <3>2 DEF OnlyMoves
      <4> QED
        BY <4>1 DEF AdmissionInv
    <3> QED
      BY <3>1, <3>2
  <2>5. ASSUME NEW l \in Ledger, entry'[l] # NoSemaphore
        PROVE  \E z \in Submission : /\ s'[z].ledger = l
                                     /\ s'[z].sem = entry'[l] \/ s'[z].pc = "evict"
    <3>1. PICK z \in Submission : /\ s[z].ledger = l
                                  /\ s[z].sem = entry[l] \/ s[z].pc = "evict"
      BY <2>2, <2>5 DEF AdmissionInv
    <3> QED
      BY <2>2, <3>1 DEF OnlyMoves, At
  <2>6. /\ \A y1, z1 \in Submission :
              s'[y1].sem # NoSemaphore /\ s'[y1].sem = s'[z1].sem
                 => s'[y1].ledger = s'[z1].ledger
        /\ \A y1 \in Submission, l \in Ledger :
              entry'[l] # NoSemaphore /\ entry'[l] = s'[y1].sem => s'[y1].ledger = l
        /\ \A k, l \in Ledger : entry'[l] # NoSemaphore /\ entry'[l] = entry'[k] => k = l
    BY <2>2 DEF AdmissionInv, OnlyMoves, At
  <2> QED
    BY <2>4, <2>5, <2>6 DEF AdmissionInv
<1>9. ASSUME NEW x \in Submission, RemoveIfIdle(x) PROVE AdmissionInv'
  <2> DEFINE l == s[x].ledger
  <2>1. s[x].pc = "evict" /\ s[x].sem = NoSemaphore /\ l \in Ledger /\ permits' = permits
    BY <1>9 DEF RemoveIfIdle, AdmissionInv, Holding
  <2>2. OnlyMoves(x) /\ At(x, "done", s[x].sem, s[x].res, s[x].of)
    BY <1>9, RemoveIfIdleMoves DEF CachingTypeOK
  <2>3. \A k \in Ledger :
           entry'[k] = IF k = l /\ entry[l] # NoSemaphore /\ permits[entry[l]] = {}
                       THEN NoSemaphore ELSE entry[k]
    BY <1>9, <2>1 DEF RemoveIfIdle, CachingTypeOK
  <2>4. \A z \in Submission :
           /\ s'[z].pc # "new" => s'[z].ledger \in Ledger
           /\ s'[z].sem # NoSemaphore <=> s'[z].pc \in Holding \cup {"semaphore"}
           /\ \A k \in Semaphore : z \in permits'[k] <=> s'[z].sem = k /\ s'[z].pc \in Holding
    BY <1>0, <2>1, <2>2 DEF AdmissionInv, OnlyMoves, At, Holding
  <2>5. ASSUME NEW k \in Ledger, entry'[k] # NoSemaphore
        PROVE  \E z \in Submission : /\ s'[z].ledger = k
                                     /\ s'[z].sem = entry'[k] \/ s'[z].pc = "evict"
    <3>0. entry'[k] = entry[k]
      BY <2>3, <2>5
    <3>1. CASE k = l
      <4>1. entry[l] \in Semaphore /\ permits[entry[l]] # {}
        BY <2>1, <2>3, <2>5, <3>0, <3>1 DEF CachingTypeOK
      <4>2. PICK y \in Submission : y \in permits[entry[l]]
        BY <4>1 DEF CachingTypeOK
      <4>3. s[y].sem = entry[l] /\ y # x /\ s[y].ledger = l
        BY <1>0, <2>1, <4>1, <4>2 DEF AdmissionInv
      <4> QED
        BY <2>2, <3>0, <3>1, <4>3 DEF OnlyMoves
    <3>2. CASE k # l
      <4>1. PICK z \in Submission : /\ s[z].ledger = k
                                    /\ s[z].sem = entry[k] \/ s[z].pc = "evict"
        BY <2>5, <3>0 DEF AdmissionInv
      <4>2. z # x
        BY <3>2, <4>1
      <4> QED
        BY <2>2, <3>0, <4>1, <4>2 DEF OnlyMoves
    <3> QED
      BY <3>1, <3>2
  <2>6. /\ \A y1, z1 \in Submission :
              s'[y1].sem # NoSemaphore /\ s'[y1].sem = s'[z1].sem
                 => s'[y1].ledger = s'[z1].ledger
        /\ \A y1 \in Submission, k \in Ledger :
              entry'[k] # NoSemaphore /\ entry'[k] = s'[y1].sem => s'[y1].ledger = k
        /\ \A k, k1 \in Ledger : entry'[k1] # NoSemaphore /\ entry'[k1] = entry'[k] => k = k1
    BY <2>1, <2>2, <2>3 DEF AdmissionInv, OnlyMoves, At
  <2> QED
    BY <2>4, <2>5, <2>6 DEF AdmissionInv
<1>10. ASSUME NEW x \in Submission, Cancel(x) PROVE AdmissionInv'
  <2>1. OnlyMoves(x) /\ s'[x].sem = s[x].sem /\ s'[x].pc \in Holding
    BY <1>10, CancelMoves DEF CachingTypeOK, At, Holding
  <2> QED
    BY <1>10, <2>1, AdmissionStutters DEF Cancel, Holding
<1>11. ASSUME UNCHANGED <<entry, permits, s>> PROVE AdmissionInv'
  BY <1>11 DEF AdmissionInv
<1>12. ASSUME NEW x \in Submission, ShieldedCommitEnds(x) PROVE AdmissionInv'
  BY <1>11, <1>12 DEF ShieldedCommitEnds
<1>13. ASSUME NEW c \in CacheKey, Cleanup(c) PROVE AdmissionInv'
  BY <1>11, <1>13 DEF Cleanup
<1>14. CASE UNCHANGED vars
  BY <1>11, <1>14 DEF vars
<1> QED
  BY <1>1, <1>2, <1>3, <1>4, <1>5, <1>6, <1>7, <1>8, <1>9, <1>10, <1>12, <1>13, <1>14
     DEF CachingNext, Step, Finished

-----------------------------------------------------------------------------
(* Results.                                                                *)

\* A step of x leaves what the others' places say of their results.
LEMMA ResultOthers ==
    ASSUME ResultInv, NEW x \in Submission, ResultOf(x)',
           \A y \in Submission : y # x => /\ s'[y] = s[y]
                                          /\ y \in landed' <=> y \in landed
                                          /\ y \in shielded' <=> y \in shielded
    PROVE  ResultInv'
BY DEF ResultInv, ResultOf

LEMMA ResultStep ==
    ASSUME CachingTypeOK, AdmissionInv, ResultInv, [CachingNext]_vars
    PROVE  ResultInv'
<1> USE DEF ResultOf, Over
<1>1. ASSUME NEW x \in Submission, NEW r \in Request, GetSemaphore(x, r)
      PROVE  ResultInv'
  <2>1. /\ s'[x].pc = "semaphore" /\ s'[x].res = "none"
        /\ \A y \in Submission : y # x => s'[y] = s[y]
    BY <1>1, GetSemaphoreMoves DEF At
  <2>2. s[x].pc = "new" /\ UNCHANGED <<landed, shielded>>
    BY <1>1 DEF GetSemaphore
  <2>3. ResultOf(x)
    BY DEF ResultInv
  <2>4. ResultOf(x)'
    BY <2>1, <2>2, <2>3 DEF Pc
  <2> QED
    BY <2>1, <2>2, <2>4, ResultOthers
<1>2. ASSUME NEW x \in Submission, TryAcquireLedger(x) PROVE ResultInv'
  <2>1. /\ OnlyMoves(x)
        /\ \/ s'[x].pc = "ledger" /\ s'[x].res = s[x].res
           \/ s'[x].pc = "done" /\ s'[x].res = "overloaded"
    BY <1>2, TryAcquireLedgerMoves DEF CachingTypeOK, At
  <2>2. s[x].pc = "semaphore" /\ UNCHANGED <<landed, shielded>>
    BY <1>2 DEF TryAcquireLedger
  <2>3. ResultOf(x)
    BY DEF ResultInv
  <2>4. ResultOf(x)'
    BY <2>1, <2>2, <2>3 DEF Pc
  <2> QED
    BY <2>1, <2>2, <2>4, ResultOthers DEF OnlyMoves
<1>3. ASSUME NEW x \in Submission, TryAcquireGlobal(x) PROVE ResultInv'
  <2>1. /\ OnlyMoves(x)
        /\ \/ s'[x].pc = "admitted" /\ s'[x].res = s[x].res
           \/ s'[x].pc = "release" /\ s'[x].res = "overloaded"
    BY <1>3, TryAcquireGlobalMoves DEF CachingTypeOK, At
  <2>2. s[x].pc = "ledger" /\ UNCHANGED <<landed, shielded>>
    BY <1>3 DEF TryAcquireGlobal
  <2>3. ResultOf(x)
    BY DEF ResultInv
  <2>4. ResultOf(x)'
    BY <2>1, <2>2, <2>3 DEF Pc
  <2> QED
    BY <2>1, <2>2, <2>4, ResultOthers DEF OnlyMoves
<1>4. ASSUME NEW x \in Submission, Anonymous(x) PROVE ResultInv'
  <2>1. OnlyMoves(x) /\ s'[x].pc = "execute" /\ s'[x].res = s[x].res
    BY <1>4, AnonymousMoves DEF CachingTypeOK, At
  <2>2. s[x].pc = "admitted" /\ UNCHANGED <<landed, shielded>>
    BY <1>4 DEF Anonymous
  <2>3. ResultOf(x)
    BY DEF ResultInv
  <2>4. ResultOf(x)'
    BY <2>1, <2>2, <2>3 DEF Pc
  <2> QED
    BY <2>1, <2>2, <2>4, ResultOthers DEF OnlyMoves
<1>5. ASSUME NEW x \in Submission, TryClaimSlot(x) PROVE ResultInv'
  <2>1. /\ OnlyMoves(x)
        /\ \/ s'[x].pc = "execute" /\ s'[x].res = s[x].res
           \/ s'[x].pc = "release" /\ s'[x].res \in {"collision", "replayed", "inflight"}
    BY <1>5, TryClaimSlotMoves DEF At, ClaimRefusal
  <2>2. s[x].pc = "admitted" /\ UNCHANGED <<landed, shielded>>
    BY <1>5 DEF TryClaimSlot
  <2>3. ResultOf(x)
    BY DEF ResultInv
  <2>4. ResultOf(x)'
    BY <2>1, <2>2, <2>3 DEF Pc
  <2> QED
    BY <2>1, <2>2, <2>4, ResultOthers DEF OnlyMoves
<1>6. ASSUME NEW x \in Submission, Execute(x) PROVE ResultInv'
  <2>1. /\ OnlyMoves(x) /\ s'[x].pc = IF Keyed(x) THEN "record" ELSE "release"
        /\ \/ s'[x].res = "ok" /\ landed' = landed \cup {x}
           \/ s'[x].res = "unchanged" /\ landed' = landed
           \/ s'[x].res \in {"failed", "unsettled"} /\ landed' \in {landed, landed \cup {x}}
    BY <1>6, ExecuteMoves DEF CachingTypeOK, At
  <2>2. s[x].pc = "execute" /\ shielded' = shielded
    BY <1>6 DEF Execute
  <2>3. ResultOf(x)
    BY DEF ResultInv
  <2>4. ResultOf(x)'
    BY <2>1, <2>2, <2>3 DEF Pc, Keyed, OnlyMoves
  <2> QED
    BY <2>1, <2>2, <2>4, ResultOthers DEF OnlyMoves
<1>7. ASSUME NEW x \in Submission, RecordOutcome(x) PROVE ResultInv'
  <2>1. OnlyMoves(x) /\ s'[x].pc = "release" /\ s'[x].res = s[x].res
    BY <1>7, RecordOutcomeMoves DEF CachingTypeOK, At
  <2>2. s[x].pc = "record" /\ UNCHANGED <<landed, shielded>>
    BY <1>7 DEF RecordOutcome
  <2>3. ResultOf(x)
    BY DEF ResultInv
  <2>4. ResultOf(x)'
    BY <2>1, <2>2, <2>3 DEF Pc
  <2> QED
    BY <2>1, <2>2, <2>4, ResultOthers DEF OnlyMoves
<1>8. ASSUME NEW x \in Submission, ReleasePermits(x) PROVE ResultInv'
  <2>1. OnlyMoves(x) /\ s'[x].pc = "evict" /\ s'[x].res = s[x].res
    BY <1>8, ReleasePermitsMoves DEF CachingTypeOK, At
  <2>2. s[x].pc = "release" /\ UNCHANGED <<landed, shielded>>
    BY <1>8 DEF ReleasePermits
  <2>3. ResultOf(x)
    BY DEF ResultInv
  <2>4. ResultOf(x)'
    BY <2>1, <2>2, <2>3 DEF Pc
  <2> QED
    BY <2>1, <2>2, <2>4, ResultOthers DEF OnlyMoves
<1>9. ASSUME NEW x \in Submission, RemoveIfIdle(x) PROVE ResultInv'
  <2>1. OnlyMoves(x) /\ s'[x].pc = "done" /\ s'[x].res = s[x].res
    BY <1>9, RemoveIfIdleMoves DEF CachingTypeOK, At
  <2>2. s[x].pc = "evict" /\ UNCHANGED <<landed, shielded>>
    BY <1>9 DEF RemoveIfIdle
  <2>3. ResultOf(x)
    BY DEF ResultInv
  <2>4. ResultOf(x)'
    BY <2>1, <2>2, <2>3 DEF Pc
  <2> QED
    BY <2>1, <2>2, <2>4, ResultOthers DEF OnlyMoves
<1>10. ASSUME NEW x \in Submission, ShieldedCommitEnds(x) PROVE ResultInv'
  <2>1. /\ s' = s /\ x \in shielded /\ shielded' = shielded \ {x}
        /\ landed' \in {landed, landed \cup {x}}
    BY <1>10 DEF ShieldedCommitEnds
  <2>2. ResultOf(x)
    BY DEF ResultInv
  <2>3. ResultOf(x)'
    BY <2>1, <2>2 DEF Pc
  <2> QED
    BY <2>1, <2>3, ResultOthers
<1>11. ASSUME NEW x \in Submission, Cancel(x) PROVE ResultInv'
  <2>1. OnlyMoves(x) /\ s'[x].pc = "release" /\ s'[x].res = "gone"
    BY <1>11, CancelMoves DEF CachingTypeOK, At
  <2>2. landed' = landed /\ shielded' \in {shielded, shielded \cup {x}}
    BY <1>11 DEF Cancel
  <2>3. ResultOf(x)'
    BY <2>1, <2>2 DEF Pc
  <2> QED
    BY <2>1, <2>2, <2>3, ResultOthers DEF OnlyMoves
<1>12. ASSUME UNCHANGED <<s, landed, shielded>> PROVE ResultInv'
  BY <1>12 DEF ResultInv
<1>13. ASSUME NEW c \in CacheKey, Cleanup(c) PROVE ResultInv'
  BY <1>12, <1>13 DEF Cleanup
<1>14. CASE UNCHANGED vars
  BY <1>12, <1>14 DEF vars
<1> QED
  BY <1>1, <1>2, <1>3, <1>4, <1>5, <1>6, <1>7, <1>8, <1>9, <1>10, <1>11, <1>13, <1>14
     DEF CachingNext, Step, Finished

-----------------------------------------------------------------------------
(* The idempotency slots.                                                  *)

\* Nobody changes its key, its ledger or its body.
LEMMA SameKeys ==
    ASSUME NEW x \in Submission, OnlyMoves(x)
    PROVE  \A y \in Submission :
              /\ Keyed(y)' <=> Keyed(y)
              /\ CacheKeyOf(y)' = CacheKeyOf(y)
              /\ s'[y].body = s[y].body
BY DEF OnlyMoves, Keyed, CacheKeyOf

\* The key of a submission under way has a slot.
LEMMA KeyHasSlot ==
    ASSUME CachingTypeOK, AdmissionInv, NEW x \in Submission, s[x].pc # "new", Keyed(x)
    PROVE  CacheKeyOf(x) \in CacheKey
<1>1. s[x].ledger \in Ledger
  BY DEF AdmissionInv
<1>2. s[x].key \in IdempotencyKey
  BY FieldTypes DEF CachingTypeOK, Keyed
<1> QED
  BY <1>1, <1>2 DEF CacheKeyOf, CacheKey

\* A step of a submission that neither runs a keyed commit before it nor after it,
\* and leaves the slots alone.
LEMMA SlotStutters ==
    ASSUME CachingTypeOK, SlotInv, NEW x \in Submission, OnlyMoves(x),
           UNCHANGED <<slot, cleanups, landed>>,
           s[x].pc # "new", s'[x].pc # "new",
           s[x].pc \in Over => s'[x].pc \in Over /\ s'[x].res = s[x].res,
           s[x].pc \notin Over => x \notin landed /\ s[x].res = "none",
           s[x].pc \notin {"execute", "record"},
           s'[x].pc \in {"execute", "record"} => ~ Keyed(x)
    PROVE  SlotInv'
<1>1. /\ \A y \in Submission :
              /\ Keyed(y)' <=> Keyed(y)
              /\ CacheKeyOf(y)' = CacheKeyOf(y)
              /\ s'[y].body = s[y].body
      /\ \A y \in Submission : y # x => s'[y] = s[y]
  BY SameKeys DEF OnlyMoves
<1>2. SlotHasOwner'
  BY <1>1 DEF SlotInv, SlotHasOwner
<1>3. RunningHoldsSlot'
  BY <1>1 DEF SlotInv, RunningHoldsSlot
<1>4. CleanupMeetsInFlight'
  BY DEF SlotInv, CleanupMeetsInFlight
<1>5. CommittedIsOver'
  BY <1>1 DEF SlotInv, CommittedIsOver, SlotHasOwner, Over
<1>6. LandedHoldsSlot'
  BY <1>1 DEF CachingTypeOK, SlotInv, LandedHoldsSlot, Lost, Over
<1>7. InFlightIsOwned'
  BY <1>1 DEF SlotInv, InFlightIsOwned, Owned, SlotHasOwner
<1> QED
  BY <1>2, <1>3, <1>4, <1>5, <1>6, <1>7 DEF SlotInv

\* A submission takes a slot that is absent or failed: no removal is due for it.
LEMMA ClaimStep ==
    ASSUME CachingTypeOK, AdmissionInv, ResultInv, SlotInv, NEW x \in Submission,
           TryClaimSlot(x), OnlyMoves(x), s'[x].pc = "execute",
           slot[CacheKeyOf(x)].st \in {"absent", "failed"},
           slot' = [slot EXCEPT ![CacheKeyOf(x)] = [st |-> "inflight", body |-> s[x].body, of |-> x]]
    PROVE  SlotInv'
<1> DEFINE c == CacheKeyOf(x)
           e == [st |-> "inflight", body |-> s[x].body, of |-> x]
<1>1. /\ \A y \in Submission :
              /\ Keyed(y)' <=> Keyed(y)
              /\ CacheKeyOf(y)' = CacheKeyOf(y)
              /\ s'[y].body = s[y].body
      /\ \A y \in Submission : y # x => s'[y] = s[y]
  BY SameKeys DEF OnlyMoves
<1>2. s[x].pc = "admitted" /\ Keyed(x) /\ x \notin landed /\ UNCHANGED <<cleanups, landed>>
  BY DEF TryClaimSlot, ResultInv, ResultOf, Pc, Over
<1>3. c \in CacheKey
  BY <1>2, KeyHasSlot
<1>4. \A d \in CacheKey : slot'[d] = IF d = c THEN e ELSE slot[d]
  BY <1>3 DEF CachingTypeOK
<1>5. e.st = "inflight" /\ e.body = s[x].body /\ e.of = x
  OBVIOUS
<1>6. c \notin cleanups
  BY DEF SlotInv, CleanupMeetsInFlight
<1>7. landed \subseteq Submission /\ cleanups \subseteq CacheKey
      /\ \A y \in Submission : s[y].pc # "new" /\ Keyed(y) => CacheKeyOf(y) \in CacheKey
  BY KeyHasSlot DEF CachingTypeOK
<1>8. slot[c].st \in {"absent", "failed"} /\ c = CacheKeyOf(x)
  OBVIOUS
<1> HIDE DEF e, c
<1>11. SlotHasOwner'
  BY <1>1, <1>2, <1>4, <1>5, <1>8 DEF SlotInv, SlotHasOwner
<1>12. RunningHoldsSlot'
  BY <1>1, <1>2, <1>3, <1>4, <1>5, <1>6, <1>7, <1>8 DEF SlotInv, RunningHoldsSlot
<1>13. CleanupMeetsInFlight'
  BY <1>2, <1>4, <1>5, <1>7 DEF SlotInv, CleanupMeetsInFlight
<1>14. CommittedIsOver'
  BY <1>1, <1>2, <1>4, <1>5 DEF SlotInv, CommittedIsOver, SlotHasOwner, Over
<1>15. LandedHoldsSlot'
  <2> SUFFICES ASSUME NEW y \in landed', Keyed(y)', ~ Lost(y)', s'[y].pc # "record"
               PROVE  slot'[CacheKeyOf(y)'].st = "committed" /\ slot'[CacheKeyOf(y)'].of = y
    BY DEF LandedHoldsSlot
  <2>1. y \in landed /\ y \in Submission /\ y # x /\ s'[y] = s[y]
    BY <1>1, <1>2, <1>7
  <2>2. s[y].pc # "new"
    BY <2>1 DEF ResultInv, ResultOf, Pc, Over
  <2>3. slot[CacheKeyOf(y)].st = "committed" /\ slot[CacheKeyOf(y)].of = y
        /\ CacheKeyOf(y) \in CacheKey
    BY <1>1, <1>7, <2>1, <2>2 DEF SlotInv, LandedHoldsSlot, Lost
  <2> QED
    BY <1>1, <1>4, <1>8, <2>1, <2>3
<1>16. InFlightIsOwned'
  BY <1>1, <1>2, <1>4, <1>5 DEF SlotInv, InFlightIsOwned, Owned, SlotHasOwner
<1> QED
  BY <1>11, <1>12, <1>13, <1>14, <1>15, <1>16 DEF SlotInv

\* The commit of x returns.
LEMMA ExecuteStep ==
    ASSUME CachingTypeOK, AdmissionInv, ResultInv, SlotInv, NEW x \in Submission, Execute(x)
    PROVE  SlotInv'
<1>0. OnlyMoves(x)
  BY ExecuteMoves DEF CachingTypeOK
<1>1. /\ \A y \in Submission :
              /\ Keyed(y)' <=> Keyed(y)
              /\ CacheKeyOf(y)' = CacheKeyOf(y)
              /\ s'[y].body = s[y].body
      /\ \A y \in Submission : y # x => s'[y] = s[y]
  BY <1>0, SameKeys DEF OnlyMoves
<1>2. /\ s[x].pc = "execute" /\ UNCHANGED <<slot, cleanups>>
      /\ s'[x].pc = IF Keyed(x) THEN "record" ELSE "release"
      /\ landed' \in {landed, landed \cup {x}}
  BY ExecuteMoves DEF CachingTypeOK, Execute, At
<1>3. landed \subseteq Submission
  BY DEF CachingTypeOK
<1>4. SlotHasOwner'
  BY <1>1, <1>2 DEF SlotInv, SlotHasOwner
<1>5. RunningHoldsSlot'
  BY <1>1, <1>2 DEF SlotInv, RunningHoldsSlot
<1>6. CleanupMeetsInFlight'
  BY <1>2 DEF SlotInv, CleanupMeetsInFlight
<1>7. CommittedIsOver'
  BY <1>1, <1>2 DEF SlotInv, CommittedIsOver, SlotHasOwner, Over
<1>8. LandedHoldsSlot'
  BY <1>1, <1>2, <1>3 DEF SlotInv, LandedHoldsSlot, Lost
<1>9. InFlightIsOwned'
  BY <1>1, <1>2 DEF SlotInv, InFlightIsOwned, Owned, SlotHasOwner
<1> QED
  BY <1>4, <1>5, <1>6, <1>7, <1>8, <1>9 DEF SlotInv

\* An error that settles nothing: the slot stays in flight, and is pinned to x.
LEMMA UnsettledStep ==
    ASSUME CachingTypeOK, AdmissionInv, ResultInv, SlotInv, NEW x \in Submission,
           RecordOutcome(x), s[x].res = "unsettled"
    PROVE  SlotInv'
<1>0. OnlyMoves(x) /\ s'[x].pc = "release" /\ s'[x].res = "unsettled"
  BY RecordOutcomeMoves DEF CachingTypeOK, At
<1>1. /\ \A y \in Submission :
              /\ Keyed(y)' <=> Keyed(y)
              /\ CacheKeyOf(y)' = CacheKeyOf(y)
              /\ s'[y].body = s[y].body
      /\ \A y \in Submission : y # x => s'[y] = s[y]
  BY <1>0, SameKeys DEF OnlyMoves
<1>2. s[x].pc = "record" /\ UNCHANGED <<slot, cleanups, landed>>
  BY DEF RecordOutcome
<1>3. landed \subseteq Submission
  BY DEF CachingTypeOK
<1>4. SlotHasOwner'
  BY <1>0, <1>1, <1>2 DEF SlotInv, SlotHasOwner
<1>5. RunningHoldsSlot'
  BY <1>0, <1>1, <1>2 DEF SlotInv, RunningHoldsSlot
<1>6. CleanupMeetsInFlight'
  BY <1>2 DEF SlotInv, CleanupMeetsInFlight
<1>7. CommittedIsOver'
  BY <1>0, <1>1, <1>2 DEF SlotInv, CommittedIsOver, SlotHasOwner, Over
<1>8. LandedHoldsSlot'
  BY <1>0, <1>1, <1>2, <1>3 DEF SlotInv, LandedHoldsSlot, Lost
<1>9. InFlightIsOwned'
  BY <1>0, <1>1, <1>2 DEF SlotInv, InFlightIsOwned, Owned, SlotHasOwner
<1> QED
  BY <1>4, <1>5, <1>6, <1>7, <1>8, <1>9 DEF SlotInv

\* The outcome of x takes the place of its claim, which nobody else has taken.
LEMMA RecordStep ==
    ASSUME CachingTypeOK, AdmissionInv, ResultInv, SlotInv, NEW x \in Submission,
           RecordOutcome(x), s[x].res # "unsettled"
    PROVE  SlotInv'
<1> DEFINE c == CacheKeyOf(x)
           e == [st |-> IF s[x].res = "failed" THEN "failed" ELSE "committed",
                 body |-> s[x].body, of |-> x]
<1>0. OnlyMoves(x) /\ s'[x].pc = "release" /\ s'[x].res = s[x].res
  BY RecordOutcomeMoves DEF CachingTypeOK, At
<1>1. /\ \A y \in Submission :
              /\ Keyed(y)' <=> Keyed(y)
              /\ CacheKeyOf(y)' = CacheKeyOf(y)
              /\ s'[y].body = s[y].body
      /\ \A y \in Submission : y # x => s'[y] = s[y]
  BY <1>0, SameKeys DEF OnlyMoves
<1>2. s[x].pc = "record" /\ Keyed(x) /\ UNCHANGED <<cleanups, landed>>
  BY DEF RecordOutcome, ResultInv, ResultOf, Keyed
<1>3. c \in CacheKey
  BY <1>2, KeyHasSlot
<1>4. \A d \in CacheKey : slot'[d] = IF d = c THEN e ELSE slot[d]
  BY <1>3 DEF CachingTypeOK, RecordOutcome
<1>5. /\ e.st = (IF s[x].res = "failed" THEN "failed" ELSE "committed")
      /\ e.body = s[x].body /\ e.of = x
  OBVIOUS
<1>6. slot[c].st = "inflight" /\ slot[c].of = x /\ c \notin cleanups
  BY <1>2 DEF SlotInv, RunningHoldsSlot
<1>7. landed \subseteq Submission /\ cleanups \subseteq CacheKey
      /\ \A y \in Submission : s[y].pc # "new" /\ Keyed(y) => CacheKeyOf(y) \in CacheKey
  BY KeyHasSlot DEF CachingTypeOK
<1>8. c = CacheKeyOf(x) /\ s[x].res \in {"ok", "unchanged", "failed"}
  BY <1>2 DEF ResultInv, ResultOf
<1> HIDE DEF e, c
<1>11. SlotHasOwner'
  BY <1>0, <1>1, <1>2, <1>4, <1>5, <1>8 DEF SlotInv, SlotHasOwner
<1>12. RunningHoldsSlot'
  <2> SUFFICES ASSUME NEW y \in Submission, Keyed(y)', s'[y].pc \in {"execute", "record"}
               PROVE  /\ slot'[CacheKeyOf(y)'].st = "inflight" /\ slot'[CacheKeyOf(y)'].of = y
                      /\ CacheKeyOf(y)' \notin cleanups'
    BY DEF RunningHoldsSlot
  <2>1. y # x
    BY <1>0
  <2>2. /\ slot[CacheKeyOf(y)].st = "inflight" /\ slot[CacheKeyOf(y)].of = y
        /\ CacheKeyOf(y) \notin cleanups /\ CacheKeyOf(y) \in CacheKey
    BY <1>1, <1>7, <2>1 DEF SlotInv, RunningHoldsSlot
  <2> QED
    BY <1>1, <1>2, <1>4, <1>6, <2>1, <2>2
<1>13. CleanupMeetsInFlight'
  BY <1>2, <1>4, <1>6, <1>7 DEF SlotInv, CleanupMeetsInFlight
<1>14. CommittedIsOver'
  BY <1>0, <1>1, <1>4, <1>5, <1>8 DEF SlotInv, CommittedIsOver, SlotHasOwner, Over
<1>15. LandedHoldsSlot'
  <2> SUFFICES ASSUME NEW y \in landed', Keyed(y)', ~ Lost(y)', s'[y].pc # "record"
               PROVE  slot'[CacheKeyOf(y)'].st = "committed" /\ slot'[CacheKeyOf(y)'].of = y
    BY DEF LandedHoldsSlot
  <2>1. y \in landed /\ y \in Submission
    BY <1>2, <1>7
  <2>2. CASE y = x
    BY <1>0, <1>1, <1>3, <1>4, <1>5, <1>8, <2>2 DEF Lost
  <2>3. CASE y # x
    <3>1. s'[y] = s[y] /\ s[y].pc # "new"
      BY <1>1, <2>1, <2>3 DEF ResultInv, ResultOf, Pc, Over
    <3>2. slot[CacheKeyOf(y)].st = "committed" /\ slot[CacheKeyOf(y)].of = y
          /\ CacheKeyOf(y) \in CacheKey
      BY <1>1, <1>7, <2>1, <3>1 DEF SlotInv, LandedHoldsSlot, Lost
    <3> QED
      BY <1>1, <1>4, <1>6, <2>1, <3>2
  <2> QED
    BY <2>2, <2>3
<1>16. InFlightIsOwned'
  <2> SUFFICES ASSUME NEW d \in CacheKey, slot'[d].st = "inflight"
               PROVE  \/ d \in cleanups' \/ s'[slot'[d].of].pc \in {"execute", "record"}
                      \/ s'[slot'[d].of].res = "unsettled"
    BY DEF InFlightIsOwned, Owned
  <2>1. d # c /\ slot'[d] = slot[d]
    BY <1>4, <1>5
  <2>2. slot[d].of \in Submission /\ slot[d].of # x
    BY <1>8, <2>1 DEF SlotInv, SlotHasOwner
  <2> QED
    BY <1>1, <1>2, <2>1, <2>2 DEF SlotInv, InFlightIsOwned, Owned
<1> QED
  BY <1>11, <1>12, <1>13, <1>14, <1>15, <1>16 DEF SlotInv

\* The caller of x goes: the removal of its claim, if it has one, is now due.
LEMMA CancelStep ==
    ASSUME CachingTypeOK, AdmissionInv, ResultInv, SlotInv, NEW x \in Submission, Cancel(x)
    PROVE  SlotInv'
<1>0. OnlyMoves(x) /\ s'[x].pc = "release" /\ s'[x].res = "gone"
  BY CancelMoves DEF CachingTypeOK, At
<1>1. /\ \A y \in Submission :
              /\ Keyed(y)' <=> Keyed(y)
              /\ CacheKeyOf(y)' = CacheKeyOf(y)
              /\ s'[y].body = s[y].body
      /\ \A y \in Submission : y # x => s'[y] = s[y]
  BY <1>0, SameKeys DEF OnlyMoves
<1>2. s[x].pc \in {"admitted", "execute", "record"} /\ UNCHANGED <<slot, landed>>
  BY DEF Cancel
<1>3. ASSUME NEW c
      PROVE  c \in cleanups' <=>
                c \in cleanups \/ (Keyed(x) /\ s[x].pc # "admitted" /\ c = CacheKeyOf(x))
  <2> DEFINE claim == CacheKeyOf(x)
             mine == Keyed(x) /\ s[x].pc # "admitted"
  <2>1. cleanups' = cleanups \cup DroppedClaims(x)
        /\ DroppedClaims(x) = IF mine THEN {claim} ELSE {}
    BY DEF Cancel, DroppedClaims
  <2> HIDE DEF claim, mine
  <2>2. c \in cleanups' <=> c \in cleanups \/ (mine /\ c = claim)
    BY <2>1, Zenon
  <2> QED
    BY <2>2 DEF claim, mine
<1>4. landed \subseteq Submission
  BY DEF CachingTypeOK
<1>5. SlotHasOwner'
  BY <1>0, <1>1, <1>2 DEF SlotInv, SlotHasOwner
<1>6. RunningHoldsSlot'
  <2> SUFFICES ASSUME NEW y \in Submission, Keyed(y)', s'[y].pc \in {"execute", "record"}
               PROVE  /\ slot'[CacheKeyOf(y)'].st = "inflight" /\ slot'[CacheKeyOf(y)'].of = y
                      /\ CacheKeyOf(y)' \notin cleanups'
    BY DEF RunningHoldsSlot
  <2>1. y # x
    BY <1>0
  <2>2. /\ slot[CacheKeyOf(y)].st = "inflight" /\ slot[CacheKeyOf(y)].of = y
        /\ CacheKeyOf(y) \notin cleanups
    BY <1>1, <2>1 DEF SlotInv, RunningHoldsSlot
  <2>3. Keyed(x) /\ s[x].pc # "admitted" => slot[CacheKeyOf(x)].of = x
    BY <1>2 DEF SlotInv, RunningHoldsSlot
  <2> QED
    BY <1>1, <1>2, <1>3, <2>1, <2>2, <2>3
<1>7. CleanupMeetsInFlight'
  BY <1>2, <1>3 DEF SlotInv, CleanupMeetsInFlight, RunningHoldsSlot
<1>8. CommittedIsOver'
  BY <1>1, <1>2 DEF SlotInv, CommittedIsOver, SlotHasOwner, Over
<1>9. LandedHoldsSlot'
  BY <1>0, <1>1, <1>2, <1>4 DEF SlotInv, LandedHoldsSlot, Lost
<1>10. InFlightIsOwned'
  <2> SUFFICES ASSUME NEW d \in CacheKey, slot[d].st = "inflight", d \notin cleanups'
               PROVE  \/ s'[slot[d].of].pc \in {"execute", "record"}
                      \/ s'[slot[d].of].res = "unsettled"
    BY <1>2 DEF InFlightIsOwned, Owned
  <2>0. d \notin cleanups
    BY <1>3
  <2>1. /\ \/ s[slot[d].of].pc \in {"execute", "record"}
           \/ s[slot[d].of].res = "unsettled"
        /\ slot[d].of \in Submission
        /\ Keyed(slot[d].of) /\ CacheKeyOf(slot[d].of) = d
    BY <2>0 DEF SlotInv, InFlightIsOwned, Owned, SlotHasOwner
  <2>2. s[x].pc = "admitted" => s[x].res = "none"
    BY DEF ResultInv, ResultOf, Pc, Over
  <2>3. slot[d].of # x
    BY <1>2, <1>3, <2>1, <2>2
  <2> QED
    BY <1>1, <2>1, <2>3
<1> QED
  BY <1>5, <1>6, <1>7, <1>8, <1>9, <1>10 DEF SlotInv

\* The removal runs: the slot it takes is that of the claim that was dropped.
LEMMA CleanupStep ==
    ASSUME CachingTypeOK, AdmissionInv, ResultInv, SlotInv, NEW c \in CacheKey, Cleanup(c)
    PROVE  SlotInv'
<1>1. c \in cleanups /\ slot[c].st = "inflight" /\ cleanups' = cleanups \ {c}
      /\ UNCHANGED <<landed, s>>
  BY DEF Cleanup, SlotInv, CleanupMeetsInFlight
<1>2. \A d \in CacheKey : slot'[d] = IF d = c THEN Absent ELSE slot[d]
  BY <1>1 DEF CachingTypeOK, Cleanup
<1>3. Absent.st = "absent"
  BY DEF Absent
<1>4. /\ landed \subseteq Submission /\ cleanups \subseteq CacheKey
      /\ \A y \in Submission : s[y].pc # "new" /\ Keyed(y) => CacheKeyOf(y) \in CacheKey
      /\ \A y \in landed : s[y].pc # "new"
  BY KeyHasSlot DEF CachingTypeOK, ResultInv, ResultOf, Pc, Over
<1>5. \A y \in Submission : (Keyed(y)' <=> Keyed(y)) /\ CacheKeyOf(y)' = CacheKeyOf(y)
      /\ (Lost(y)' <=> Lost(y))
  BY <1>1 DEF Keyed, CacheKeyOf, Lost
<1>6. SlotHasOwner'
  BY <1>1, <1>2, <1>3, <1>5 DEF SlotInv, SlotHasOwner
<1>7. RunningHoldsSlot'
  BY <1>1, <1>2, <1>4, <1>5 DEF SlotInv, RunningHoldsSlot
<1>8. CleanupMeetsInFlight'
  BY <1>1, <1>2, <1>4 DEF SlotInv, CleanupMeetsInFlight
<1>9. CommittedIsOver'
  BY <1>1, <1>2, <1>3 DEF SlotInv, CommittedIsOver
<1>10. LandedHoldsSlot'
  <2> SUFFICES ASSUME NEW y \in landed, Keyed(y), ~ Lost(y), s[y].pc # "record"
               PROVE  slot'[CacheKeyOf(y)].st = "committed" /\ slot'[CacheKeyOf(y)].of = y
    BY <1>1, <1>4, <1>5 DEF LandedHoldsSlot
  <2>1. slot[CacheKeyOf(y)].st = "committed" /\ slot[CacheKeyOf(y)].of = y
        /\ CacheKeyOf(y) \in CacheKey
    <3>1. y \in Submission /\ s[y].pc # "new"
      BY <1>4
    <3> QED
      BY <1>4, <3>1 DEF SlotInv, LandedHoldsSlot
  <2> QED
    BY <1>1, <1>2, <2>1
<1>11. InFlightIsOwned'
  BY <1>1, <1>2, <1>3 DEF SlotInv, InFlightIsOwned, Owned
<1> QED
  BY <1>6, <1>7, <1>8, <1>9, <1>10, <1>11 DEF SlotInv

\* A submission comes: no slot has heard of it.
LEMMA ArrivalStep ==
    ASSUME CachingTypeOK, AdmissionInv, ResultInv, SlotInv, NEW x \in Submission,
           NEW r \in Request, GetSemaphore(x, r)
    PROVE  SlotInv'
<1>1. s'[x].pc = "semaphore" /\ \A y \in Submission : y # x => s'[y] = s[y]
  BY GetSemaphoreMoves DEF At
<1>2. s[x].pc = "new" /\ UNCHANGED <<slot, cleanups, landed>>
  BY DEF GetSemaphore
<1>3. x \notin landed /\ landed \subseteq Submission
  BY <1>2 DEF CachingTypeOK, ResultInv, ResultOf, Pc, Over
<1>4. \A y \in Submission : y # x =>
         (Keyed(y)' <=> Keyed(y)) /\ CacheKeyOf(y)' = CacheKeyOf(y) /\ (Lost(y)' <=> Lost(y))
  BY <1>1 DEF Keyed, CacheKeyOf, Lost
<1>5. SlotHasOwner'
  BY <1>1, <1>2, <1>4 DEF SlotInv, SlotHasOwner
<1>6. RunningHoldsSlot'
  BY <1>1, <1>2, <1>4 DEF SlotInv, RunningHoldsSlot
<1>7. CleanupMeetsInFlight'
  BY <1>2 DEF SlotInv, CleanupMeetsInFlight
<1>8. CommittedIsOver'
  BY <1>1, <1>2 DEF SlotInv, CommittedIsOver, SlotHasOwner
<1>9. LandedHoldsSlot'
  BY <1>1, <1>2, <1>3, <1>4 DEF SlotInv, LandedHoldsSlot
<1>10. InFlightIsOwned'
  BY <1>1, <1>2 DEF SlotInv, InFlightIsOwned, Owned, SlotHasOwner
<1> QED
  BY <1>5, <1>6, <1>7, <1>8, <1>9, <1>10 DEF SlotInv

LEMMA SlotStep ==
    ASSUME CachingTypeOK, AdmissionInv, ResultInv, SlotInv, [CachingNext]_vars
    PROVE  SlotInv'
<1>0. \A x \in Submission : s[x].pc \notin Over \cup {"record"} => x \notin landed /\ s[x].res = "none"
  BY FieldTypes DEF ResultInv, ResultOf, CachingTypeOK
<1>1. ASSUME NEW x \in Submission, NEW r \in Request, GetSemaphore(x, r) PROVE SlotInv'
  BY <1>1, ArrivalStep
<1>2. ASSUME NEW x \in Submission, TryAcquireLedger(x) PROVE SlotInv'
  <2>1. OnlyMoves(x) /\ s'[x].pc \in {"ledger", "done"}
    BY <1>2, TryAcquireLedgerMoves DEF CachingTypeOK, At
  <2>2. s[x].pc = "semaphore" /\ UNCHANGED <<slot, cleanups, landed>>
    BY <1>2 DEF TryAcquireLedger
  <2> QED
    BY <1>0, <2>1, <2>2, SlotStutters DEF Over
<1>3. ASSUME NEW x \in Submission, TryAcquireGlobal(x) PROVE SlotInv'
  <2>1. OnlyMoves(x) /\ s'[x].pc \in {"admitted", "release"}
    BY <1>3, TryAcquireGlobalMoves DEF CachingTypeOK, At
  <2>2. s[x].pc = "ledger" /\ UNCHANGED <<slot, cleanups, landed>>
    BY <1>3 DEF TryAcquireGlobal
  <2> QED
    BY <1>0, <2>1, <2>2, SlotStutters DEF Over
<1>4. ASSUME NEW x \in Submission, Anonymous(x) PROVE SlotInv'
  <2>1. OnlyMoves(x) /\ s'[x].pc = "execute"
    BY <1>4, AnonymousMoves DEF CachingTypeOK, At
  <2>2. s[x].pc = "admitted" /\ ~ Keyed(x) /\ UNCHANGED <<slot, cleanups, landed>>
    BY <1>4 DEF Anonymous
  <2> QED
    BY <1>0, <2>1, <2>2, SlotStutters DEF Over
<1>5. ASSUME NEW x \in Submission, TryClaimSlot(x) PROVE SlotInv'
  <2> DEFINE c == CacheKeyOf(x)
  <2>1. /\ OnlyMoves(x)
        /\ \/ /\ Claimable(slot[c], s[x].body)
              /\ slot' = [slot EXCEPT ![c] = [st |-> "inflight", body |-> s[x].body, of |-> x]]
              /\ s'[x].pc = "execute"
           \/ UNCHANGED slot /\ s'[x].pc = "release"
    BY <1>5, TryClaimSlotMoves DEF At
  <2>2. s[x].pc = "admitted" /\ UNCHANGED <<cleanups, landed>>
    BY <1>5 DEF TryClaimSlot
  <2>3. CASE /\ Claimable(slot[c], s[x].body)
             /\ slot' = [slot EXCEPT ![c] = [st |-> "inflight", body |-> s[x].body, of |-> x]]
             /\ s'[x].pc = "execute"
    <3>1. slot[c].st \in {"absent", "failed"}
      BY <2>3 DEF Claimable
    <3> QED
      BY <1>5, <2>1, <2>3, <3>1, ClaimStep
  <2>4. CASE UNCHANGED slot /\ s'[x].pc = "release"
    BY <1>0, <2>1, <2>2, <2>4, SlotStutters DEF Over
  <2> QED
    BY <2>1, <2>3, <2>4
<1>6. ASSUME NEW x \in Submission, Execute(x) PROVE SlotInv'
  BY <1>6, ExecuteStep
<1>7. ASSUME NEW x \in Submission, RecordOutcome(x) PROVE SlotInv'
  BY <1>7, RecordStep, UnsettledStep
<1>8. ASSUME NEW x \in Submission, ReleasePermits(x) PROVE SlotInv'
  <2>1. OnlyMoves(x) /\ s'[x].pc = "evict" /\ s'[x].res = s[x].res
    BY <1>8, ReleasePermitsMoves DEF CachingTypeOK, At
  <2>2. s[x].pc = "release" /\ UNCHANGED <<slot, cleanups, landed>>
    BY <1>8 DEF ReleasePermits
  <2> QED
    BY <2>1, <2>2, SlotStutters DEF Over
<1>9. ASSUME NEW x \in Submission, RemoveIfIdle(x) PROVE SlotInv'
  <2>1. OnlyMoves(x) /\ s'[x].pc = "done" /\ s'[x].res = s[x].res
    BY <1>9, RemoveIfIdleMoves DEF CachingTypeOK, At
  <2>2. s[x].pc = "evict" /\ UNCHANGED <<slot, cleanups, landed>>
    BY <1>9 DEF RemoveIfIdle
  <2> QED
    BY <2>1, <2>2, SlotStutters DEF Over
<1>10. ASSUME NEW x \in Submission, ShieldedCommitEnds(x) PROVE SlotInv'
  <2>1. /\ UNCHANGED <<slot, cleanups, s>> /\ x \in shielded
        /\ landed' \in {landed, landed \cup {x}}
    BY <1>10 DEF ShieldedCommitEnds
  <2>2. Lost(x)
    BY <2>1 DEF ResultInv, ResultOf, Lost
  <2>3. /\ SlotHasOwner' /\ RunningHoldsSlot' /\ CleanupMeetsInFlight'
        /\ CommittedIsOver' /\ InFlightIsOwned'
    BY <2>1 DEF SlotInv, SlotHasOwner, RunningHoldsSlot, CleanupMeetsInFlight,
                CommittedIsOver, InFlightIsOwned, Owned, Keyed, CacheKeyOf
  <2>4. LandedHoldsSlot'
    BY <2>1, <2>2 DEF SlotInv, LandedHoldsSlot, Keyed, CacheKeyOf, Lost
  <2> QED
    BY <2>3, <2>4 DEF SlotInv
<1>11. ASSUME NEW x \in Submission, Cancel(x) PROVE SlotInv'
  BY <1>11, CancelStep
<1>12. ASSUME NEW c \in CacheKey, Cleanup(c) PROVE SlotInv'
  BY <1>12, CleanupStep
<1>13. CASE UNCHANGED vars
  BY <1>13 DEF vars, SlotInv, SlotHasOwner, RunningHoldsSlot, CleanupMeetsInFlight,
               CommittedIsOver, LandedHoldsSlot, InFlightIsOwned, Owned, Keyed, CacheKeyOf, Lost
<1> QED
  BY <1>1, <1>2, <1>3, <1>4, <1>5, <1>6, <1>7, <1>8, <1>9, <1>10, <1>11, <1>12, <1>13
     DEF CachingNext, Step, Finished

-----------------------------------------------------------------------------
(* Replayed answers.                                                       *)

\* A step of x that is not a claim: an answer that is over stays what it was.
LEMMA ReplayStutters ==
    ASSUME ReplayInv, NEW x \in Submission, OnlyMoves(x),
           s[x].pc \in Over => s'[x].pc \in Over /\ s'[x].res = s[x].res,
           s'[x].res = "replayed" => s[x].res = "replayed" /\ s'[x].of = s[x].of
    PROVE  ReplayInv'
<1>1. /\ \A y \in Submission :
              /\ CacheKeyOf(y)' = CacheKeyOf(y)
              /\ s'[y].body = s[y].body
      /\ \A y \in Submission : y # x => s'[y] = s[y]
  BY SameKeys DEF OnlyMoves
<1> QED
  BY <1>1 DEF ReplayInv

LEMMA ReplayStep ==
    ASSUME CachingTypeOK, AdmissionInv, ResultInv, SlotInv, ReplayInv, [CachingNext]_vars
    PROVE  ReplayInv'
<1>0. \A x \in Submission : s[x].pc \in Pc
  BY FieldTypes DEF CachingTypeOK
<1>1. ASSUME NEW x \in Submission, NEW r \in Request, GetSemaphore(x, r) PROVE ReplayInv'
  <2>1. s'[x].res = "none" /\ \A y \in Submission : y # x => s'[y] = s[y]
    BY <1>1, GetSemaphoreMoves DEF At
  <2>2. s[x].pc = "new"
    BY <1>1 DEF GetSemaphore
  <2> SUFFICES ASSUME NEW y \in Submission, s'[y].res = "replayed"
               PROVE  /\ s'[y].of \in Submission
                      /\ s'[s'[y].of].pc \in Over /\ s'[s'[y].of].res \in {"ok", "unchanged"}
                      /\ CacheKeyOf(s[y].of)' = CacheKeyOf(y)'
                      /\ s'[s'[y].of].body = s'[y].body
    BY DEF ReplayInv
  <2>3. y # x /\ s'[y] = s[y]
    BY <2>1
  <2>4. /\ s[y].of \in Submission
        /\ s[s[y].of].pc \in Over /\ s[s[y].of].res \in {"ok", "unchanged"}
        /\ CacheKeyOf(s[y].of) = CacheKeyOf(y) /\ s[s[y].of].body = s[y].body
    BY <2>3 DEF ReplayInv
  <2>5. s'[s[y].of] = s[s[y].of]
    BY <2>1, <2>2, <2>4 DEF Over
  <2> QED
    BY <2>3, <2>4, <2>5 DEF CacheKeyOf
<1>2. ASSUME NEW x \in Submission, TryAcquireLedger(x) PROVE ReplayInv'
  <2>1. OnlyMoves(x) /\ s'[x].res \in {s[x].res, "overloaded"} /\ s'[x].of = s[x].of
    BY <1>2, TryAcquireLedgerMoves DEF CachingTypeOK, At
  <2>2. s[x].pc = "semaphore"
    BY <1>2 DEF TryAcquireLedger
  <2> QED
    BY <2>1, <2>2, ReplayStutters DEF Over
<1>3. ASSUME NEW x \in Submission, TryAcquireGlobal(x) PROVE ReplayInv'
  <2>1. OnlyMoves(x) /\ s'[x].res \in {s[x].res, "overloaded"} /\ s'[x].of = s[x].of
    BY <1>3, TryAcquireGlobalMoves DEF CachingTypeOK, At
  <2>2. s[x].pc = "ledger"
    BY <1>3 DEF TryAcquireGlobal
  <2> QED
    BY <2>1, <2>2, ReplayStutters DEF Over
<1>4. ASSUME NEW x \in Submission, Anonymous(x) PROVE ReplayInv'
  <2>1. OnlyMoves(x) /\ s'[x].res = s[x].res /\ s'[x].of = s[x].of
    BY <1>4, AnonymousMoves DEF CachingTypeOK, At
  <2>2. s[x].pc = "admitted"
    BY <1>4 DEF Anonymous
  <2> QED
    BY <2>1, <2>2, ReplayStutters DEF Over
<1>5. ASSUME NEW x \in Submission, TryClaimSlot(x) PROVE ReplayInv'
  <2> DEFINE c == CacheKeyOf(x)
  <2>1. /\ OnlyMoves(x) /\ c \in CacheKey
        /\ \/ s'[x].res = s[x].res /\ s'[x].of = s[x].of
           \/ s'[x].res = ClaimRefusal(slot[c], s[x].body) /\ s'[x].of = slot[c].of
    BY <1>5, TryClaimSlotMoves DEF At
  <2>2. s[x].pc = "admitted"
    BY <1>5 DEF TryClaimSlot
  <2>3. CASE s'[x].res = "replayed" /\ s[x].res # "replayed"
    <3> DEFINE o == slot[c].of
    <3>1. slot[c].st = "committed" /\ slot[c].body = s[x].body /\ s'[x].of = o
      BY <2>1, <2>3 DEF ClaimRefusal
    <3>2. /\ o \in Submission /\ CacheKeyOf(o) = c /\ s[o].body = s[x].body
          /\ s[o].pc \in Over /\ s[o].res \in {"ok", "unchanged"}
      BY <2>1, <3>1 DEF SlotInv, SlotHasOwner, CommittedIsOver
    <3>3. /\ \A y \in Submission :
                 /\ CacheKeyOf(y)' = CacheKeyOf(y)
                 /\ s'[y].body = s[y].body
          /\ \A y \in Submission : y # x => s'[y] = s[y]
      BY <2>1, SameKeys DEF OnlyMoves
    <3>4. s[x].pc \notin Over /\ c = CacheKeyOf(x)
      BY <2>2 DEF Over
    <3> HIDE DEF o, c
    <3> QED
      BY <3>1, <3>2, <3>3, <3>4 DEF ReplayInv
  <2>4. CASE ~ (s'[x].res = "replayed" /\ s[x].res # "replayed")
    <3>1. s[x].res = "none" /\ s[x].pc \notin Over
      BY <2>2 DEF ResultInv, ResultOf, Pc, Over
    <3> QED
      BY <2>1, <2>4, <3>1, ReplayStutters
  <2> QED
    BY <2>3, <2>4
<1>6. ASSUME NEW x \in Submission, Execute(x) PROVE ReplayInv'
  <2>1. OnlyMoves(x) /\ s'[x].res \in {"ok", "unchanged", "failed", "unsettled"}
    BY <1>6, ExecuteMoves DEF CachingTypeOK, At
  <2>2. s[x].pc = "execute"
    BY <1>6 DEF Execute
  <2> QED
    BY <2>1, <2>2, ReplayStutters DEF Over
<1>7. ASSUME NEW x \in Submission, RecordOutcome(x) PROVE ReplayInv'
  <2>1. OnlyMoves(x) /\ s'[x].res = s[x].res /\ s'[x].of = s[x].of
    BY <1>7, RecordOutcomeMoves DEF CachingTypeOK, At
  <2>2. s[x].pc = "record"
    BY <1>7 DEF RecordOutcome
  <2> QED
    BY <2>1, <2>2, ReplayStutters DEF Over
<1>8. ASSUME NEW x \in Submission, ReleasePermits(x) PROVE ReplayInv'
  <2>1. OnlyMoves(x) /\ s'[x].pc = "evict" /\ s'[x].res = s[x].res /\ s'[x].of = s[x].of
    BY <1>8, ReleasePermitsMoves DEF CachingTypeOK, At
  <2> QED
    BY <2>1, ReplayStutters DEF Over
<1>9. ASSUME NEW x \in Submission, RemoveIfIdle(x) PROVE ReplayInv'
  <2>1. OnlyMoves(x) /\ s'[x].pc = "done" /\ s'[x].res = s[x].res /\ s'[x].of = s[x].of
    BY <1>9, RemoveIfIdleMoves DEF CachingTypeOK, At
  <2> QED
    BY <2>1, ReplayStutters DEF Over
<1>10. ASSUME NEW x \in Submission, Cancel(x) PROVE ReplayInv'
  <2>1. OnlyMoves(x) /\ s'[x].res = "gone"
    BY <1>10, CancelMoves DEF CachingTypeOK, At
  <2>2. s[x].pc \in {"admitted", "execute", "record"}
    BY <1>10 DEF Cancel
  <2> QED
    BY <2>1, <2>2, ReplayStutters DEF Over
<1>11. ASSUME s' = s PROVE ReplayInv'
  BY <1>11 DEF ReplayInv, CacheKeyOf
<1>12. ASSUME NEW x \in Submission, ShieldedCommitEnds(x) PROVE ReplayInv'
  BY <1>11, <1>12 DEF ShieldedCommitEnds
<1>13. ASSUME NEW c \in CacheKey, Cleanup(c) PROVE ReplayInv'
  BY <1>11, <1>13 DEF Cleanup
<1>14. CASE UNCHANGED vars
  BY <1>11, <1>14 DEF vars
<1> QED
  BY <1>1, <1>2, <1>3, <1>4, <1>5, <1>6, <1>7, <1>8, <1>9, <1>10, <1>12, <1>13, <1>14
     DEF CachingNext, Step, Finished

-----------------------------------------------------------------------------
(* The theorems.                                                           *)

\* The five parts hold together: each step lemma rests on the earlier parts.
CachingInv == CachingTypeOK /\ AdmissionInv /\ ResultInv /\ SlotInv /\ ReplayInv

LEMMA CachingInitially == CachingInit => CachingInv
<1> SUFFICES ASSUME CachingInit PROVE CachingInv
  OBVIOUS
<1> USE DEF CachingInit
<1> DEFINE e == [pc |-> "new", ledger |-> NoKey, key |-> NoKey, body |-> "none",
                 sem |-> NoSemaphore, res |-> "none", of |-> NoKey]
<1>1. e \in SubmissionState /\ Absent \in Slot /\ Absent.st = "absent"
  BY DEF SubmissionState, Slot, Absent, Pc, Result, Body
<1>2. \A x \in Submission : /\ s[x].pc = "new" /\ s[x].key = NoKey /\ s[x].sem = NoSemaphore
                            /\ s[x].res = "none"
  OBVIOUS
<1>3. CachingTypeOK
  BY <1>1, LimitAssumption DEF CachingTypeOK
<1>4. AdmissionInv
  BY <1>2 DEF AdmissionInv, Holding, NoSemaphore, Semaphore
<1>5. ResultInv
  BY <1>2 DEF ResultInv, ResultOf, Over
<1>6. SlotInv
  BY <1>1, <1>2 DEF SlotInv, SlotHasOwner, RunningHoldsSlot, CleanupMeetsInFlight,
                    CommittedIsOver, LandedHoldsSlot, InFlightIsOwned, Owned, Keyed
<1>7. ReplayInv
  BY <1>2 DEF ReplayInv
<1> QED
  BY <1>3, <1>4, <1>5, <1>6, <1>7 DEF CachingInv

\* The conjunction is an invariant of the layer.
THEOREM CachingInvariant == CachingSpec => []CachingInv
<1>1. CachingInv /\ [CachingNext]_vars => CachingInv'
  BY TypeStep, AdmissionStep, ResultStep, SlotStep, ReplayStep DEF CachingInv
<1> QED
  BY <1>1, CachingInitially, PTL DEF CachingSpec

\* Every variable keeps its type; with the pigeonhole argument of FreshExists this
\* says that as many semaphores as submissions are always enough.
THEOREM CachingTypeCorrect == CachingSpec => []CachingTypeOK
<1>1. CachingInv => CachingTypeOK
  BY DEF CachingInv
<1> QED
  BY <1>1, CachingInvariant, PTL

\* A ledger nobody submits to has no admission entry, in every interleaving of the
\* acquisition, the release and the removal.
THEOREM AdmissionMapShrinks == CachingSpec => []NoLeakedAdmissionEntry
<1>1. CachingInv => NoLeakedAdmissionEntry
  <2> SUFFICES ASSUME CachingInv, NEW l \in Ledger, entry[l] # NoSemaphore
               PROVE  \E x \in Submission : s[x].ledger = l /\ s[x].pc \notin {"new", "done"}
    BY DEF NoLeakedAdmissionEntry
  <2>1. PICK x \in Submission : s[x].ledger = l /\ (s[x].sem = entry[l] \/ s[x].pc = "evict")
    BY DEF CachingInv, AdmissionInv
  <2> QED
    BY <2>1 DEF CachingInv, AdmissionInv, Holding
<1> QED
  BY <1>1, CachingInvariant, PTL

\* A slot in flight is that of a submission that will record its outcome, or one
\* whose removal is due: a cancelled caller never leaves its key unusable.
THEOREM SlotsResolved == CachingSpec => []InFlightIsOwned
<1>1. CachingInv => InFlightIsOwned
  BY DEF CachingInv, SlotInv
<1> QED
  BY <1>1, CachingInvariant, PTL

\* A replayed receipt is that of a submission of the same ledger, key and body
\* that landed or changed nothing.
THEOREM ReplaysTrue == CachingSpec => []ReplayIsTrue
<1>1. CachingInv => ReplayIsTrue
  BY DEF CachingInv, ReplayInv, ResultInv, ResultOf, ReplayIsTrue
<1> QED
  BY <1>1, CachingInvariant, PTL

\* Two submissions of one ledger and key never both land and both hear of it.
THEOREM RetriesCollapse == CachingSpec => []KeyedRetriesCollapse
<1>1. CachingInv => KeyedRetriesCollapse
  <2> SUFFICES ASSUME CachingInv, NEW x \in landed, NEW y \in landed, x # y, Keyed(x),
                      CacheKeyOf(x) = CacheKeyOf(y), ~ Lost(x), ~ Lost(y)
               PROVE  FALSE
    BY DEF KeyedRetriesCollapse
  <2>1. x \in Submission /\ y \in Submission /\ Keyed(y)
    BY DEF CachingInv, CachingTypeOK, Keyed, CacheKeyOf
  <2>2. slot[CacheKeyOf(x)].of = x
    BY <2>1 DEF CachingInv, SlotInv, RunningHoldsSlot, LandedHoldsSlot
  <2>3. slot[CacheKeyOf(y)].of = y
    BY <2>1 DEF CachingInv, SlotInv, RunningHoldsSlot, LandedHoldsSlot
  <2> QED
    BY <2>2, <2>3
<1> QED
  BY <1>1, CachingInvariant, PTL

\* No semaphore lends more permits than it was made with, neither that of a ledger
\* nor that of the process.
PermitsWithinLimits ==
    /\ \A m \in Semaphore : Cardinality(permits[m]) <= PerLedgerLimit
    /\ Cardinality(admission) <= PendingLimit

\* Taking an element out of a finite set does not make it larger, and putting one
\* into it below a limit keeps the limit.
LEMMA WithinLimit ==
    ASSUME NEW P, IsFiniteSet(P), NEW x, NEW n \in Nat
    PROVE  /\ Cardinality(P) <= n => Cardinality(P \ {x}) <= n
           /\ Cardinality(P) < n => Cardinality(P \cup {x}) <= n
<1>1. /\ Cardinality(P) \in Nat
      /\ Cardinality(P \cup {x}) = IF x \in P THEN Cardinality(P) ELSE Cardinality(P) + 1
  BY FS_CardinalityType, FS_AddElement
<1>2. Cardinality(P \ {x}) = IF x \in P THEN Cardinality(P) - 1 ELSE Cardinality(P)
  BY FS_RemoveElement
<1> QED
  BY <1>1, <1>2

\* The limits of admission hold in every interleaving of acquisitions and releases.
THEOREM LimitsRespected == CachingSpec => []PermitsWithinLimits
<1>1. CachingInit => PermitsWithinLimits
  BY LimitAssumption, FS_EmptySet DEF CachingInit, PermitsWithinLimits
<1>2. ASSUME CachingInv, PermitsWithinLimits, [CachingNext]_vars
      PROVE  PermitsWithinLimits'
  <2> USE DEF PermitsWithinLimits
  <2>0. PerLedgerLimit \in Nat /\ PendingLimit \in Nat
    BY LimitAssumption
  <2>1. /\ permits \in [Semaphore -> SUBSET Submission]
        /\ s \in [Submission -> SubmissionState]
        /\ \A m \in Semaphore : IsFiniteSet(permits[m])
        /\ IsFiniteSet(admission)
    <3>1. permits \in [Semaphore -> SUBSET Submission] /\ admission \subseteq Submission
          /\ s \in [Submission -> SubmissionState]
      BY <1>2 DEF CachingInv, CachingTypeOK
    <3> QED
      BY <3>1, LimitAssumption, FS_Subset
  <2>2. ASSUME NEW x \in Submission, TryAcquireLedger(x) PROVE PermitsWithinLimits'
    <3>1. \/ /\ Cardinality(permits[s[x].sem]) < PerLedgerLimit
             /\ permits' = [permits EXCEPT ![s[x].sem] = @ \cup {x}]
          \/ permits' = permits
      BY <2>2 DEF TryAcquireLedger
    <3>2. admission' = admission
      BY <2>2 DEF TryAcquireLedger
    <3>3. ASSUME NEW m \in Semaphore PROVE Cardinality(permits'[m]) <= PerLedgerLimit
      <4>1. CASE permits'[m] = permits[m]
        BY <1>2, <4>1
      <4>2. CASE /\ permits'[m] = permits[m] \cup {x}
                 /\ Cardinality(permits[m]) < PerLedgerLimit
        BY <2>0, <2>1, <4>2, WithinLimit
      <4> QED
        BY <2>1, <3>1, <4>1, <4>2
    <3> QED
      BY <1>2, <3>2, <3>3
  <2>3. ASSUME NEW x \in Submission, TryAcquireGlobal(x) PROVE PermitsWithinLimits'
    <3>1. \/ Cardinality(admission) < PendingLimit /\ admission' = admission \cup {x}
          \/ admission' = admission
      BY <2>3 DEF TryAcquireGlobal
    <3>2. permits' = permits
      BY <2>3 DEF TryAcquireGlobal
    <3> QED
      BY <1>2, <2>0, <2>1, <3>1, <3>2, WithinLimit
  <2>4. ASSUME NEW x \in Submission, ReleasePermits(x) PROVE PermitsWithinLimits'
    <3>1. /\ admission' = admission \ {x}
          /\ permits' = [permits EXCEPT ![s[x].sem] = @ \ {x}]
      BY <2>4 DEF ReleasePermits
    <3>2. ASSUME NEW m \in Semaphore PROVE Cardinality(permits'[m]) <= PerLedgerLimit
      <4>1. CASE permits'[m] = permits[m]
        BY <1>2, <4>1
      <4>2. CASE permits'[m] = permits[m] \ {x}
        BY <1>2, <2>0, <2>1, <4>2, WithinLimit
      <4> QED
        BY <2>1, <3>1, <4>1, <4>2
    <3>3. Cardinality(admission') <= PendingLimit
      BY <1>2, <2>0, <2>1, <3>1, WithinLimit
    <3> QED
      BY <3>2, <3>3
  <2>5. ASSUME UNCHANGED <<permits, admission>> PROVE PermitsWithinLimits'
    BY <1>2, <2>5
  <2> QED
    BY <1>2, <2>2, <2>3, <2>4, <2>5
       DEF CachingNext, Step, Finished, GetSemaphore, Anonymous, TryClaimSlot, Execute,
           RecordOutcome, RemoveIfIdle, ShieldedCommitEnds, Cancel, Cleanup, vars
<1> QED
  BY <1>1, <1>2, CachingInvariant, PTL DEF CachingSpec
=============================================================================
