-------------------------- MODULE QueuedSubmission --------------------------
(***************************************************************************)
(* Submissions made through one node of the cluster:                       *)
(* raft/queued_transactor.rs (submit_and_await) and raft/waiter.rs, over   *)
(* the replicated state machine and the apply observer of that node        *)
(* (raft/app.rs).                                                          *)
(*                                                                         *)
(* The variables of NameServiceState are the state after every committed   *)
(* log entry.  The node has yet to publish the effects of the entries in   *)
(* `feed`, of which it has applied the first `nApplied`: its probes read   *)
(* the applied queue, its waiters hear published effects, and a proposal   *)
(* is answered once its own effects are published.                         *)
(*                                                                         *)
(* Workers are abstract here: the front entry is applied or poisoned at    *)
(* any time, and poisoned for sure when its envelope cannot be loaded.     *)
(* The waits are not timed: a wait may time out whenever nothing has       *)
(* arrived, and max_wait may have passed at any probe.                     *)
(***************************************************************************)
EXTENDS NameServiceState

CONSTANTS
    Sub,         \* submissions
    Cid,         \* envelope content ids (request_cid)
    Workload,    \* the requests the submissions may make: Sub -> Request
    main,        \* the branch
    MaxRetries,  \* max_retries
    MaxBatch,    \* bound: entries applied and not yet published
    SubFault,    \* which faults and operator commands may happen
    MaxSubFaults \* bound: how many of them

Request == [key : Key \union {None}, body : Body, cid : Cid]

ASSUME SubmissionAssumption ==
    /\ main \in Branch
    /\ Workload \subseteq [Sub -> Request]
    /\ MaxRetries \in Nat \ {0} /\ MaxBatch \in Nat \ {0} /\ MaxSubFaults \in Nat
    /\ SubFault \subseteq {"reset", "retract", "elect", "fatal", "cancel", "snapshot"}
    /\ None \notin Sub \union 0 .. MaxQueueId - 1
    /\ 0 \in Millis

VARIABLES
    req,         \* req[s]: what submission s asks for
    role,        \* the node leads, follows a leader it knows, or knows none
    sub,         \* sub[s]: the submission's task and its WaiterTicket
    pend,        \* submissions whose EnqueueCommand is proposed and undecided
    feed,        \* committed entries whose effects the node has not published
    nApplied,    \* how many of them it has applied
    view,        \* queue ids in the queue it has applied
    interests,   \* WaiterMap.interests: request_cid -> holder
    waiters,     \* WaiterMap.waiters: queue_id -> holder
    binding,     \* the holder bind() has taken out of one map and not yet put in the other
    store,       \* envelopes in the content store
    toRelease,   \* envelopes handed to the release task
    owner,       \* owner[i]: the submission whose command made entry i
    ended,       \* ended[i]: how entry i left the queue
    subFaults    \* how many faults have happened

submissionVars == <<req, role, sub, pend, feed, nApplied, view, interests, waiters,
                    binding, store, toRelease, owner, ended, subFaults>>
subVars == <<vars, submissionVars>>

QIds == 0 .. MaxQueueId - 1

Outcome == {"Applied", "Poisoned", "Cleared", "SnapshotInstalled"}

Refusal == {"IdempotencyHit", "IdempotencyFailed", "BodyHashMismatch", "QueueFull",
            "LedgerNotFound", "LedgerRetracted"}

\* chan: the ticket's oneshot channel, empty, holding an outcome, or without
\* a sender.
Submission ==
    [pc : {"new", "propose", "proposed", "answered", "park", "grace", "done"},
     attempt : 1 .. MaxRetries, bound : QIds \union {None},
     chan : {"open", "closed"} \union Outcome,
     resp : {"none", "Enqueued", "InFlight"} \union Refusal,
     result : {"none", "NotLeader", "Unknown"}
              \union Outcome \union Refusal]

\* The effect of a committed entry: which waiters it concerns, whose response
\* it is, and the queue it leaves.
Effect ==
    [kind : {"bind", "none"} \union Outcome, id : QIds \union {None}, to : Sub \union {None},
     resp : {"none", "Enqueued", "InFlight"} \union Refusal, ids : SUBSET QIds]

SubmissionInit ==
    /\ branches = {main}
    /\ refs = [b \in Branch |-> None]
    /\ retracted = {}
    /\ idempotency = [b \in Branch |-> [k \in Key |-> None]]
    /\ queues = [b \in Branch |-> <<>>]
    /\ next_queue_id = 0
    /\ recently_cleared = [b \in Branch |-> None]
    /\ released = [i \in QIds |-> 0]
    /\ req \in Workload
    /\ role = "leader"
    /\ sub = [s \in Sub |-> [pc |-> "new", attempt |-> 1, bound |-> None, chan |-> "open",
                             resp |-> "none", result |-> "none"]]
    /\ pend = {}
    /\ feed = <<>> /\ nApplied = 0 /\ view = {}
    /\ interests = [c \in Cid |-> None]
    /\ waiters = [i \in QIds |-> None]
    /\ binding = None
    /\ store = {} /\ toRelease = {}
    /\ owner = [i \in QIds |-> None]
    /\ ended = [i \in QIds |-> "no"]
    /\ subFaults = 0

Occurs(kind) == kind \in SubFault /\ subFaults < MaxSubFaults /\ subFaults' = subFaults + 1

-----------------------------------------------------------------------------
(* The waiter map.                                                         *)

\* Send x to holder h: nothing happens when there is none, and a channel takes
\* one value.
Send(f, h, x) == IF h # None /\ f[h].chan = "open" THEN [f EXCEPT ![h].chan = x] ELSE f

\* Mutant: a dropped ticket removes whatever sits under its keys.
DropTicket_ByKey(s) ==
    /\ interests' = IF sub[s].bound = None THEN [interests EXCEPT ![req[s].cid] = None] ELSE interests
    /\ waiters' = IF sub[s].bound # None THEN [waiters EXCEPT ![sub[s].bound] = None] ELSE waiters

\* Drop for WaiterTicket: only its own entry goes.
DropTicket(s) ==
    /\ interests' = IF sub[s].bound = None /\ interests[req[s].cid] = s
                    THEN [interests EXCEPT ![req[s].cid] = None] ELSE interests
    /\ waiters' = IF sub[s].bound # None /\ waiters[sub[s].bound] = s
                  THEN [waiters EXCEPT ![sub[s].bound] = None] ELSE waiters

\* A submission that is over: what remains of it is what it told the client.
\* "Unknown" stands for every answer that leaves the outcome open (a fatal
\* raft error, stranded_error, ceiling_error) and for no answer at all.
Over(result) ==
    [pc |-> "done", attempt |-> 1, bound |-> None, chan |-> "closed", resp |-> "none",
     result |-> result]

\* The call returns `result` to the client.
Finish(s, result) ==
    /\ sub' = [sub EXCEPT ![s] = Over(result)]
    /\ DropTicket(s)

\* The envelope is written, then the waiter armed, before anything is proposed.
\* Arming under a request_cid that is armed already drops the earlier sender.
arm(s) ==
    /\ sub[s].pc = "new"
    /\ store' = store \union {req[s].cid}
    /\ sub' = [Send(sub, interests[req[s].cid], "closed") EXCEPT ![s].pc = "propose"]
    /\ interests' = [interests EXCEPT ![req[s].cid] = s]
    /\ UNCHANGED <<vars, req, role, pend, feed, nApplied, view, waiters, binding, toRelease,
                   owner, ended, subFaults>>

-----------------------------------------------------------------------------
(* submit_and_await: the propose loop.                                     *)

release_envelope(s) == store' = store \ {req[s].cid}

Propose(s) ==
    /\ sub[s].pc = "propose" /\ role = "leader"
    /\ pend' = pend \union {s}
    /\ sub' = [sub EXCEPT ![s].pc = "proposed"]
    /\ UNCHANGED <<vars, req, role, feed, nApplied, view, interests, waiters, binding, store,
                   toRelease, owner, ended, subFaults>>

\* A node that does not lead refuses the proposal; a proposal the new leader's
\* log overwrites gets the same answer.
ForwardToLeader(s) ==
    /\ role # "leader"
    /\ sub[s].pc = "propose" \/ (sub[s].pc = "proposed" /\ s \in pend)
    /\ pend' = pend \ {s}
    /\ release_envelope(s)
    /\ Finish(s, "NotLeader")
    /\ UNCHANGED <<vars, req, role, feed, nApplied, view, binding, toRelease, owner, ended,
                   subFaults>>

\* RaftError::Fatal: the command may still commit, so the envelope stays.
Fatal(s) ==
    /\ Occurs("fatal")
    /\ sub[s].pc = "proposed"
    /\ Finish(s, "Unknown")
    /\ UNCHANGED <<vars, req, role, pend, feed, nApplied, view, binding, store, toRelease,
                   owner, ended>>

\* The client goes away and the future is dropped where it is.
Cancel(s) ==
    /\ Occurs("cancel")
    /\ sub[s].pc \notin {"new", "done"}
    /\ Finish(s, "Unknown")
    /\ UNCHANGED <<vars, req, role, pend, feed, nApplied, view, binding, store, toRelease,
                   owner, ended>>

\* Mutant: a keyless command is proposed again as well.
attempts_allowed_Keyless(s) == MaxRetries

attempts_allowed(s) == IF req[s].key = None THEN 1 ELSE MaxRetries

\* One attempt is used up: propose the same command again, or give up.
SpendAttempt(s) ==
    \/ /\ sub[s].attempt < attempts_allowed(s)
       /\ sub' = [sub EXCEPT ![s] = [@ EXCEPT !.pc = "propose", !.attempt = sub[s].attempt + 1]]
       /\ UNCHANGED <<interests, waiters>>
    \/ /\ sub[s].attempt >= attempts_allowed(s)
       /\ Finish(s, "Unknown")

\* What the loop makes of the state machine's response.
Respond(s) ==
    /\ sub[s].pc = "answered"
    /\ \/ /\ sub[s].resp \in {"Enqueued", "InFlight"}
          /\ sub' = [sub EXCEPT ![s].pc = "park"]
          /\ UNCHANGED <<interests, waiters, store>>
       \/ /\ sub[s].resp \in Refusal
          /\ release_envelope(s)
          /\ Finish(s, sub[s].resp)
    /\ UNCHANGED <<vars, req, role, pend, feed, nApplied, view, binding, toRelease, owner,
                   ended, subFaults>>

\* The entry the ticket is bound to is queued, as far as the node has applied,
\* and the node knows a leader to drive it.
entry_alive(s) == sub[s].bound # None /\ role # "lost" /\ sub[s].bound \in view

\* Mutant: a live entry is waited for however long it takes.
CeilingReached_Never(s) == FALSE

\* The entry is queued, and max_wait has passed by now.
CeilingReached(s) == entry_alive(s)

\* The wait ends with an outcome, with a lost sender, or by a timeout; what a
\* timeout means is probe_verdict's decision (KeepWaiting changes nothing).
wait(s) ==
    /\ \/ /\ sub[s].pc \in {"park", "grace"} /\ sub[s].chan \in Outcome
          /\ Finish(s, sub[s].chan)
       \/ /\ sub[s].pc = "park" /\ sub[s].chan = "closed"
          /\ SpendAttempt(s)
       \/ /\ sub[s].pc = "park" /\ sub[s].chan = "open" /\ ~entry_alive(s)
          /\ sub' = [sub EXCEPT ![s].pc = "grace"]
          /\ UNCHANGED <<interests, waiters>>
       \/ /\ sub[s].pc = "park" /\ sub[s].chan = "open" /\ CeilingReached(s)
          /\ Finish(s, "Unknown")
       \/ /\ sub[s].pc = "grace" /\ sub[s].chan \in {"open", "closed"}
          /\ SpendAttempt(s)
    /\ UNCHANGED <<vars, req, role, pend, feed, nApplied, view, binding, store, toRelease,
                   owner, ended, subFaults>>

-----------------------------------------------------------------------------
(* The replicated log: what is committed, and the effect the node's        *)
(* observer will derive from it (waiter_resolution_for).                   *)

Committing(kind, id, to, resp) ==
    feed' = Append(feed, [kind |-> kind, id |-> id, to |-> to, resp |-> resp,
                          ids |-> EntryIds(queues'[main])])

\* The proposed command of s commits and is applied.
CommitEnqueue(s) ==
    LET r == req[s]
        response == EnqueueResponse(main, r.key, r.body) IN
    /\ s \in pend
    /\ pend' = pend \ {s}
    /\ \/ /\ apply_enqueue_command(main, r.key, r.body)
          /\ owner' = [owner EXCEPT ![next_queue_id] = s]
          /\ Committing("bind", next_queue_id, s, "Enqueued")
       \/ /\ response = "InFlight"
          /\ UNCHANGED <<vars, owner>>
          /\ \E i \in InFlight(main, r.key) :
                Committing("bind", queues[main][i].queue_id, s, "InFlight")
       \/ /\ response \in Refusal
          /\ UNCHANGED <<vars, owner>>
          /\ Committing("none", None, s, response)
    /\ UNCHANGED <<req, role, sub, nApplied, view, interests, waiters, binding, store,
                   toRelease, ended, subFaults>>

\* The entries in S leave the queue; envelopes the response lists go to the
\* release task.
Ending(S, how) ==
    /\ ended' = [i \in QIds |-> IF i \in S THEN how ELSE ended[i]]
    /\ toRelease' = toRelease \union
          ({req[owner[i]].cid : i \in {i \in S : released'[i] > released[i]}} \intersect store)

Front == Head(queues[main]).queue_id

\* A worker that could load the envelope lands the front entry's commit.
CommitApplyHead ==
    /\ queues[main] # <<>>
    /\ req[owner[Front]].cid \in store
    /\ \E c \in Commit : CommitT[c] = HeadT(main) + 1 /\ apply_head(main, Front, c, 0)
    /\ Ending({Front}, "applied")
    /\ Committing("Applied", Front, None, "none")
    /\ UNCHANGED <<req, role, sub, pend, nApplied, view, interests, waiters, binding, store,
                   owner, subFaults>>

CommitPoison ==
    /\ queues[main] # <<>>
    /\ apply_poison_queue_entry(main, Front, 0)
    /\ Ending({Front}, "poisoned")
    /\ Committing("Poisoned", Front, None, "none")
    /\ UNCHANGED <<req, role, sub, pend, nApplied, view, interests, waiters, binding, store,
                   owner, subFaults>>

\* An admin command that clears the queue: a rollback or a retraction.
CommitClear ==
    /\ \/ Occurs("reset") /\ \E snapshot \in Snapshot : reset_head(main, snapshot, 0)
       \/ Occurs("retract") /\ retract_ledger(main, 0)
    /\ Ending(EntryIds(queues[main]), "cleared")
    /\ Committing("Cleared", None, None, "none")
    /\ UNCHANGED <<req, role, sub, pend, nApplied, view, interests, waiters, binding, store,
                   owner>>

\* The release task of some node deletes an envelope.
ReleaseTask(c) ==
    /\ c \in toRelease
    /\ toRelease' = toRelease \ {c}
    /\ store' = store \ {c}
    /\ UNCHANGED <<vars, req, role, sub, pend, feed, nApplied, view, interests, waiters,
                   binding, owner, ended, subFaults>>

-----------------------------------------------------------------------------
(* The node's apply path: state first, effects after the lock drops.       *)

ApplyNext ==
    /\ nApplied < Len(feed) /\ nApplied < MaxBatch
    /\ nApplied' = nApplied + 1
    /\ view' = feed[nApplied'].ids
    /\ UNCHANGED <<vars, req, role, sub, pend, feed, interests, waiters, binding, store,
                   toRelease, owner, ended, subFaults>>

\* The response of an entry returns to the submission that waits for it.
Answered(f, e) ==
    IF e.to # None /\ f[e.to].pc = "proposed"
    THEN [f EXCEPT ![e.to] = [@ EXCEPT !.pc = "answered", !.resp = e.resp]] ELSE f

Published ==
    /\ feed' = Tail(feed)
    /\ nApplied' = nApplied - 1
    /\ UNCHANGED <<vars, req, role, pend, view, store, toRelease, owner, ended, subFaults>>

\* The interest armed under the entry's request_cid.
Armed(e) == IF e.kind = "bind" THEN interests[req[e.to].cid] ELSE None

\* bind: the interest is taken out ...
bind_take ==
    /\ nApplied > 0 /\ binding = None /\ Armed(Head(feed)) # None
    /\ binding' = Armed(Head(feed))
    /\ interests' = [interests EXCEPT ![req[Head(feed).to].cid] = None]
    /\ UNCHANGED <<vars, req, role, sub, pend, feed, nApplied, view, waiters, store, toRelease,
                   owner, ended, subFaults>>

\* ... and put under its queue_id, where it displaces an earlier waiter.  A
\* ticket dropped in between has found nothing to remove.
bind_insert ==
    /\ binding # None
    /\ LET e == Head(feed) IN
       /\ waiters' = [waiters EXCEPT ![e.id] = binding]
       /\ sub' = Answered([Send(sub, waiters[e.id], "closed") EXCEPT ![binding].bound =
                               IF sub[binding].pc = "done" THEN None ELSE e.id], e)
    /\ binding' = None
    /\ UNCHANGED interests
    /\ Published

\* The waiters an effect resolves: the entry's, or all of the branch.
Resolved(e) ==
    IF e.kind = "Cleared" THEN QIds ELSE IF e.kind \in Outcome THEN {e.id} ELSE {}

resolve_with ==
    /\ nApplied > 0 /\ binding = None /\ Armed(Head(feed)) = None
    /\ LET e == Head(feed) IN
       /\ waiters' = [i \in QIds |-> IF i \in Resolved(e) THEN None ELSE waiters[i]]
       /\ sub' = Answered([s \in Sub |->
                     IF \E i \in Resolved(e) : waiters[i] = s /\ sub[s].chan = "open"
                     THEN [sub[s] EXCEPT !.chan = e.kind] ELSE sub[s]], e)
    /\ UNCHANGED <<interests, binding>>
    /\ Published

\* A live install replaces the state of a node that does not lead and drains
\* the waiter map.  Responses of the entries it skips are never given.
install_snapshot ==
    /\ Occurs("snapshot")
    /\ role # "leader" /\ nApplied = 0 /\ feed # <<>> /\ binding = None
    /\ view' = EntryIds(queues[main])
    /\ feed' = <<>>
    /\ interests' = [c \in Cid |-> None]
    /\ waiters' = [i \in QIds |-> None]
    /\ LET skipped == {feed[i].to : i \in DOMAIN feed}
           held == {interests[c] : c \in Cid} \union {waiters[i] : i \in QIds}
           drained == [s \in Sub |-> IF s \in held /\ sub[s].chan = "open"
                                     THEN [sub[s] EXCEPT !.chan = "SnapshotInstalled"] ELSE sub[s]] IN
       sub' = [s \in Sub |-> IF s \in skipped /\ sub[s].pc = "proposed"
                             THEN Over("Unknown")
                             ELSE drained[s]]
    /\ UNCHANGED <<vars, req, role, pend, nApplied, binding, store, toRelease, owner, ended>>

\* Elections, as this node sees them.
ChangeRole ==
    /\ Occurs("elect")
    /\ role' \in {"leader", "follower", "lost"} \ {role}
    /\ UNCHANGED <<vars, req, sub, pend, feed, nApplied, view, interests, waiters, binding,
                   store, toRelease, owner, ended>>

-----------------------------------------------------------------------------
TaskStep(s) == Propose(s) \/ ForwardToLeader(s) \/ Respond(s) \/ wait(s)

ApplyStep == ApplyNext \/ bind_take \/ bind_insert \/ resolve_with

SubmissionNext ==
    \/ \E s \in Sub : arm(s) \/ TaskStep(s) \/ Fatal(s) \/ Cancel(s)
    \/ \E s \in Sub : CommitEnqueue(s)
    \/ CommitApplyHead \/ CommitPoison \/ CommitClear
    \/ \E c \in Cid : ReleaseTask(c)
    \/ ApplyStep \/ install_snapshot \/ ChangeRole

SubmissionSpec == SubmissionInit /\ [][SubmissionNext]_subVars

\* Ready tasks run, clocks advance, raft decides what was proposed and the
\* node applies what was committed.  Workers owe nothing: one may be wedged.
FairSubmissionSpec ==
    /\ SubmissionSpec
    /\ \A s \in Sub : WF_subVars(TaskStep(s)) /\ WF_subVars(CommitEnqueue(s))
    /\ WF_subVars(ApplyStep)

-----------------------------------------------------------------------------
(* Properties.                                                             *)

\* Every variable has its type.
SubmissionTypeOK ==
    /\ req \in Workload
    /\ role \in {"leader", "follower", "lost"}
    /\ sub \in [Sub -> Submission]
    /\ pend \subseteq Sub
    /\ feed \in Seq(Effect)
    /\ nApplied \in 0 .. Len(feed) /\ view \subseteq QIds
    /\ interests \in [Cid -> Sub \union {None}]
    /\ waiters \in [QIds -> Sub \union {None}]
    /\ binding \in Sub \union {None}
    /\ store \subseteq Cid /\ toRelease \subseteq Cid
    /\ owner \in [QIds -> Sub \union {None}]
    /\ ended \in [QIds -> {"no", "applied", "poisoned", "cleared"}]
    /\ subFaults \in 0 .. MaxSubFaults

\* The node will still publish the end of entry i.
EndPending(i) ==
    \E k \in DOMAIN feed : feed[k].kind = "Cleared" \/ (feed[k].kind \in Outcome /\ feed[k].id = i)

\* No outcome is lost: a parked submission with a live channel holds the
\* waiter of its entry, and a waiter's entry is queued or its end is still to
\* be published ("no terminal apply can arrive with nowhere to go", arm; the
\* binding order of WaiterResolution::Bind; Drop for WaiterTicket).
NoLostOutcome ==
    /\ \A s \in Sub : sub[s].pc \in {"park", "grace"} /\ sub[s].chan = "open" =>
          sub[s].bound # None /\ waiters[sub[s].bound] = s
    /\ \A i \in QIds : waiters[i] # None => i \in EntryIds(queues[main]) \/ EndPending(i)

\* r carries the request of s, or that of a submission with the envelope of s:
\* waiters are armed by envelope, and the key is no part of it.
Same(s, r) ==
    \E e \in Sub :
        /\ req[e].cid = req[s].cid
        /\ \/ e = r
           \/ req[e].key # None /\ req[e].key = req[r].key /\ req[e].body = req[r].body

\* What a client is told of its request happened to an entry that carries that
\* request, however late its waiter joined the entry and however many
\* submissions share it (submit_and_await's Waiter, Cached and CachedFailure).
OutcomeIsTrue ==
    \A s \in Sub :
        LET Happened(how) == \E i \in QIds : owner[i] # None /\ Same(s, owner[i]) /\ ended[i] = how IN
        /\ sub[s].result \in {"Applied", "IdempotencyHit"} => Happened("applied")
        /\ sub[s].result \in {"Poisoned", "IdempotencyFailed"} => Happened("poisoned")
        /\ sub[s].result = "Cleared" => Happened("cleared")

\* Retries never apply a request twice: at most one entry of a submission, and
\* of a key, is ever applied ("re-proposing would create a duplicate queue
\* entry rather than hitting the cache", submit_and_await).
RequestAppliedOnce ==
    \A i, j \in QIds :
        ended[i] = "applied" /\ ended[j] = "applied" /\ i # j =>
            /\ owner[i] # owner[j]
            /\ req[owner[i]].key # None => req[owner[i]].key # req[owner[j]].key

\* Every submission returns, whether or not a worker ever finishes its entry
\* (DEFAULT_MAX_WAIT, "the backstop for a worker that never finishes").
SubmissionReturns ==
    \A s \in Sub : sub[s].pc = "propose" ~> sub[s].pc = "done"

\* The envelope of a queued entry is in the content store: ForwardToLeader
\* and ChangeMembershipError "reject the propose before it enters the
\* replicated log, so the envelope is genuinely orphaned and safe to release".
QueuedEnvelopePresent ==
    \A i \in EntryIds(queues[main]) : req[owner[i]].cid \in store

=============================================================================
