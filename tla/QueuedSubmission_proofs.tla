----------------------- MODULE QueuedSubmission_proofs -----------------------
(***************************************************************************)
(* Safety theorems of submissions through one node: for any number of      *)
(* submissions, requests, retries, envelopes shared between requests and   *)
(* faults, a client hears of an entry that carries its request, no outcome *)
(* is lost on its way, and no request is applied twice.                    *)
(***************************************************************************)
EXTENDS QueuedSubmission, NameServiceState_proofs

-----------------------------------------------------------------------------
(* The inductive invariant.                                                *)

\* An entry is queued from its enqueue to its end, and carries the request of
\* the submission that made it.
EntryInv ==
    /\ \A i \in QIds : (owner[i] # None) = (i < next_queue_id)
    /\ \A i \in QIds : ended[i] # "no" => i < next_queue_id
    /\ \A i \in QIds : i \in EntryIds(queues[main]) <=> i < next_queue_id /\ ended[i] = "no"
    /\ \A j \in 1 .. Len(queues[main]) :
          LET e == queues[main][j] IN
          e.key = req[owner[e.queue_id]].key /\ e.body = req[owner[e.queue_id]].body

\* A record names the entry it stands for, and an applied entry with a key has
\* its record.
RecordInv ==
    /\ \A k \in Key : idempotency[main][k] # None =>
          LET i == idempotency[main][k].request_cid IN
          /\ i \in QIds /\ owner[i] # None
          /\ req[owner[i]].key = k /\ req[owner[i]].body = idempotency[main][k].body
          /\ ended[i] = IF idempotency[main][k].kind = "Applied" THEN "applied" ELSE "poisoned"
    /\ \A i \in QIds : ended[i] = "applied" /\ req[owner[i]].key # None =>
          /\ idempotency[main][req[owner[i]].key] # None
          /\ idempotency[main][req[owner[i]].key].request_cid = i

\* A submission without a key proposes once.
KeylessInv ==
    \A s \in Sub : req[s].key = None =>
        /\ sub[s].pc \in {"new", "propose"} => s \notin pend
        /\ sub[s].pc \in {"new", "propose"} \/ s \in pend => \A i \in QIds : owner[i] # s
        /\ \A i, j \in QIds : owner[i] = s /\ owner[j] = s => i = j

\* The submissions whose entries carry one another's requests, and what has
\* become of the entries with the request of s.
Alike == {p \in Sub \X Sub : Same(p[1], p[2])}

Fate == [s \in Sub |->
            {ended[i] : i \in {j \in QIds : owner[j] # None /\ <<s, owner[j]>> \in Alike}}]

\* What is true of the request of s when its client is told x.
Told(s, x) ==
    /\ x \in {"Applied", "IdempotencyHit"} => "applied" \in Fate[s]
    /\ x \in {"Poisoned", "IdempotencyFailed"} => "poisoned" \in Fate[s]
    /\ x = "Cleared" => "cleared" \in Fate[s]

\* Every effect still to be published is true.
EffectInv(e) ==
    /\ e.to # None => sub[e.to].pc # "new"
    /\ e.kind = "bind" =>
          /\ e.to # None /\ e.id # None /\ e.resp \in {"Enqueued", "InFlight"}
          /\ owner[e.id] # None /\ <<e.to, owner[e.id]>> \in Alike
    /\ e.kind = "none" => e.to # None /\ e.resp \in Refusal /\ Told(e.to, e.resp)
    /\ e.kind = "Applied" => e.id # None /\ ended[e.id] = "applied"
    /\ e.kind = "Poisoned" => e.id # None /\ ended[e.id] = "poisoned"
    /\ e.kind \in Outcome => e.to = None
    /\ e.kind # "SnapshotInstalled"

FeedInv == \A k \in 1 .. Len(feed) : EffectInv(feed[k])

\* The k-th effect ends the wait for entry i.
Ends(k, i) == feed[k].kind = "Cleared" \/ (feed[k].kind \in {"Applied", "Poisoned"} /\ feed[k].id = i)

\* Somebody waits for entry i once the first p effects are published.
Awaited(i, p) == IF p = 0 THEN waiters[i] # None ELSE feed[p].kind = "bind" /\ feed[p].id = i

\* The end of an awaited entry is still to come, and the first effect that
\* ends the wait is about that entry.
OrderInv ==
    \A i \in QIds, p \in 0 .. Len(feed) : Awaited(i, p) =>
        /\ \/ i < next_queue_id /\ ended[i] = "no"
           \/ \E k \in p + 1 .. Len(feed) : Ends(k, i)
        /\ \A k \in p + 1 .. Len(feed) :
              feed[k].kind = "Cleared" /\ (\A l \in p + 1 .. k - 1 : ~Ends(l, i)) => ended[i] = "cleared"

\* The ticket of s is not bound, and no response has come that binds it.
Unbound(s) ==
    /\ sub[s].bound = None
    /\ \/ sub[s].pc \in {"propose", "proposed"}
       \/ sub[s].pc = "answered" /\ sub[s].resp \in Refusal

\* Where the sender of a ticket is: among the interests, with bind, or among
\* the waiters.
InterestInv ==
    \A c \in Cid : interests[c] # None => req[interests[c]].cid = c /\ Unbound(interests[c])

BindingInv ==
    binding # None =>
        /\ nApplied > 0 /\ Head(feed).kind = "bind"
        /\ req[binding].cid = req[Head(feed).to].cid
        /\ interests[req[binding].cid] \notin {binding, Head(feed).to}
        /\ Unbound(binding) \/ sub[binding].pc = "done"

WaiterInv ==
    \A i \in QIds : waiters[i] # None =>
        /\ owner[i] # None /\ <<waiters[i], owner[i]>> \in Alike
        /\ sub[waiters[i]].bound = i \/ sub[waiters[i]].pc = "done"

ChannelInv ==
    \A s \in Sub :
        /\ sub[s].pc = "new" => sub[s].bound = None /\ sub[s].chan = "open" /\ s \notin pend
        /\ sub[s].chan = "open" /\ sub[s].pc \notin {"new", "done"} =>
              \/ interests[req[s].cid] = s
              \/ binding = s
              \/ sub[s].bound # None /\ waiters[sub[s].bound] = s

TicketInv == InterestInv /\ BindingInv /\ WaiterInv /\ ChannelInv

\* What a submission has heard is true.
Heard(s) ==
    /\ Told(s, sub[s].chan) /\ Told(s, sub[s].result)
    /\ sub[s].pc = "answered" =>
          sub[s].resp \in {"Enqueued", "InFlight"} \union Refusal /\ Told(s, sub[s].resp)

HeardInv == \A s \in Sub : Heard(s)

-----------------------------------------------------------------------------
(* Requests that are alike, and what became of them.                       *)

LEMMA RequestTyped ==
    ASSUME SubmissionTypeOK, NEW s \in Sub
    PROVE  req[s] \in Request /\ req[s].key \in Key \union {None} /\ req[s].body \in Body
           /\ req[s].cid \in Cid
<1>1. req \in [Sub -> Request]
  BY SubmissionAssumption DEF SubmissionTypeOK
<1> QED
  BY <1>1 DEF Request

LEMMA AlikeFacts ==
    /\ \A s \in Sub : <<s, s>> \in Alike
    /\ \A s, r \in Sub : req[s].key # None /\ req[s].key = req[r].key /\ req[s].body = req[r].body
                            => <<s, r>> \in Alike
    /\ \A s, t, r \in Sub : req[s].cid = req[t].cid /\ <<t, r>> \in Alike => <<s, r>> \in Alike
BY DEF Alike, Same

LEMMA AlikeStable == UNCHANGED req => Alike' = Alike
BY DEF Alike, Same

\* What became of an entry stays so.
LEMMA FateGrows ==
    ASSUME UNCHANGED req, \A i \in QIds : owner[i] # None => owner'[i] = owner[i],
           \A i \in QIds : ended[i] # "no" => ended'[i] = ended[i],
           NEW s \in Sub, NEW how \in Fate[s], how # "no"
    PROVE  how \in Fate'[s]
<1>1. PICK i \in QIds : owner[i] # None /\ <<s, owner[i]>> \in Alike /\ ended[i] = how
  BY DEF Fate
<1>2. owner'[i] = owner[i] /\ ended'[i] = how
  BY <1>1
<1>3. Alike' = Alike
  BY AlikeStable
<1> QED
  BY <1>1, <1>2, <1>3 DEF Fate

LEMMA FateOf ==
    ASSUME NEW s \in Sub, NEW i \in QIds, owner[i] # None, <<s, owner[i]>> \in Alike
    PROVE  ended[i] \in Fate[s]
BY DEF Fate

-----------------------------------------------------------------------------
(* Steps of the submissions' tasks: the log, the entries and the effects    *)
(* still to be published stay as they are.                                 *)

LogStays == UNCHANGED <<vars, req, feed, nApplied, binding, owner, ended>>

LEMMA LogStaysFacts ==
    ASSUME LogStays
    PROVE  /\ EntryInv => EntryInv'
           /\ RecordInv => RecordInv'
           /\ Fate' = Fate /\ Alike' = Alike
BY AlikeStable DEF LogStays, vars, EntryInv, RecordInv, Fate, EntryIds

LEMMA FeedKept ==
    ASSUME SubmissionTypeOK, FeedInv, LogStays,
           \A u \in Sub : sub[u].pc # "new" => sub'[u].pc # "new"
    PROVE  FeedInv'
<1>1. Fate' = Fate /\ Alike' = Alike
  BY LogStaysFacts
<1>2. feed' = feed /\ owner' = owner /\ ended' = ended /\ \A k \in 1 .. Len(feed) : feed[k].to \in Sub \union {None}
  <2>1. \A k \in 1 .. Len(feed) : feed[k] \in Effect
    BY DEF SubmissionTypeOK
  <2> QED
    BY <2>1 DEF LogStays, Effect
<1> QED
  BY <1>1, <1>2 DEF FeedInv, EffectInv, Told

LEMMA OrderKept ==
    ASSUME OrderInv, LogStays, \A i \in QIds : waiters'[i] # None => waiters[i] # None
    PROVE  OrderInv'
BY DEF OrderInv, LogStays, vars, Awaited, Ends

SubInv ==
    /\ SubmissionTypeOK /\ EntryInv /\ RecordInv /\ KeylessInv /\ FeedInv /\ OrderInv
    /\ TicketInv /\ HeardInv

\* The effect that is published next.
LEMMA HeadEffect ==
    ASSUME SubInv, nApplied > 0
    PROVE  /\ feed # <<>> /\ Head(feed) = feed[1] /\ 1 \in 1 .. Len(feed)
           /\ Head(feed) \in Effect /\ EffectInv(Head(feed))
<1>1. feed \in Seq(Effect) /\ nApplied \in 0 .. Len(feed)
  BY DEF SubInv, SubmissionTypeOK
<1>2. feed # <<>> /\ Head(feed) = feed[1] /\ 1 \in 1 .. Len(feed)
  BY <1>1
<1> QED
  BY <1>1, <1>2 DEF SubInv, FeedInv

\* The call of s returns.
LEMMA FinishKeeps ==
    ASSUME SubInv, LogStays, NEW s \in Sub, NEW result, Finish(s, result), Told(s, result),
           result \in {"none", "NotLeader", "Unknown"} \union Outcome \union Refusal,
           sub[s].pc \notin {"new", "done"}, pend' \subseteq pend,
           view' = view, store' \subseteq Cid, toRelease' = toRelease, role' = role,
           subFaults' \in 0 .. MaxSubFaults
    PROVE  SubInv'
<1>0. /\ sub \in [Sub -> Submission] /\ req \in [Sub -> Request]
      /\ interests \in [Cid -> Sub \union {None}] /\ waiters \in [QIds -> Sub \union {None}]
      /\ None \notin Sub /\ None \notin QIds
  BY SubmissionAssumption DEF SubInv, SubmissionTypeOK, QIds
<1>1. /\ sub' = [sub EXCEPT ![s] = Over(result)] /\ Over(result) \in Submission
      /\ Over(result).pc = "done" /\ Over(result).bound = None /\ Over(result).chan = "closed"
      /\ Over(result).result = result
  BY SubmissionAssumption DEF Finish, Over, Submission
<1>2. sub' \in [Sub -> Submission] /\ sub'[s] = Over(result) /\ \A u \in Sub : u # s => sub'[u] = sub[u]
  BY <1>0, <1>1
<1>3. /\ \A c \in Cid : interests'[c] # None => interests'[c] = interests[c] /\ interests[c] # s
      /\ \A u \in Sub : u # s /\ interests[req[u].cid] = u => interests'[req[u].cid] = u
      /\ interests' \in [Cid -> Sub \union {None}]
  <2>1. \A c \in Cid : interests[c] = s => c = req[s].cid /\ sub[s].bound = None
    BY <1>0 DEF SubInv, TicketInv, InterestInv, Unbound
  <2>2. req[s].cid \in Cid
    BY RequestTyped DEF SubInv
  <2> QED
    BY <1>0, <2>1, <2>2 DEF Finish, DropTicket
<1>4. /\ \A i \in QIds : waiters'[i] # None => waiters'[i] = waiters[i] /\ waiters[i] # s
      /\ \A u \in Sub, i \in QIds : u # s /\ waiters[i] = u => waiters'[i] = u
      /\ waiters' \in [QIds -> Sub \union {None}]
  <2>1. \A i \in QIds : waiters[i] = s => sub[s].bound = i
    BY <1>0 DEF SubInv, TicketInv, WaiterInv
  <2>2. sub[s].bound \in QIds \union {None}
    BY <1>0 DEF Submission
  <2> QED
    BY <1>0, <2>1, <2>2 DEF Finish, DropTicket
<1> HIDE DEF Over
<1>5. /\ Fate' = Fate /\ Alike' = Alike /\ EntryInv' /\ RecordInv' /\ req' = req /\ owner' = owner
      /\ binding' = binding /\ feed' = feed /\ nApplied' = nApplied /\ ended' = ended
  BY LogStaysFacts DEF SubInv, LogStays
<1>6. SubmissionTypeOK'
  BY <1>2, <1>3, <1>4, <1>5 DEF SubInv, SubmissionTypeOK
<1>7. KeylessInv'
  BY <1>1, <1>2, <1>5 DEF SubInv, KeylessInv
<1>8. FeedInv' /\ OrderInv'
  BY <1>1, <1>2, <1>4, FeedKept, OrderKept DEF SubInv
<1>9. InterestInv'
  BY <1>0, <1>2, <1>3, <1>5 DEF SubInv, TicketInv, InterestInv, Unbound
<1>10. BindingInv'
  <2>1. (req[binding].cid \in Cid /\ binding \in Sub) \/ binding = None
    BY RequestTyped DEF SubInv, SubmissionTypeOK
  <2>2. CASE binding # None
    <3>1. interests[req[binding].cid] \notin {binding, Head(feed).to}
      BY <2>2 DEF SubInv, TicketInv, BindingInv
    <3>2. Head(feed).to # None
      BY <2>2, HeadEffect DEF SubInv, TicketInv, BindingInv, EffectInv
    <3>3. interests'[req[binding].cid] \notin {binding, Head(feed).to}
      BY <1>0, <1>3, <2>1, <2>2, <3>1, <3>2
    <3> QED
      BY <1>1, <1>2, <1>5, <2>1, <2>2, <3>3 DEF SubInv, TicketInv, BindingInv, Unbound
  <2> QED
    BY <1>5, <2>2 DEF BindingInv
<1>11. WaiterInv'
  BY <1>0, <1>2, <1>4, <1>5 DEF SubInv, TicketInv, WaiterInv
<1>12. ChannelInv'
  <2> SUFFICES ASSUME NEW u \in Sub
               PROVE  /\ sub'[u].pc = "new" => sub'[u].bound = None /\ sub'[u].chan = "open" /\ u \notin pend'
                      /\ sub'[u].chan = "open" /\ sub'[u].pc \notin {"new", "done"} =>
                            \/ interests'[req'[u].cid] = u
                            \/ binding' = u
                            \/ sub'[u].bound # None /\ waiters'[sub'[u].bound] = u
    BY DEF ChannelInv
  <2>1. CASE u = s
    BY <1>1, <1>2, <2>1
  <2>2. CASE u # s
    <3>1. sub'[u] = sub[u] /\ sub[u].bound \in QIds \union {None}
      BY <1>0, <1>2, <2>2 DEF Submission
    <3> QED
      BY <1>3, <1>4, <1>5, <2>2, <3>1 DEF SubInv, TicketInv, ChannelInv
  <2> QED
    BY <2>1, <2>2
<1>13. HeardInv'
  BY <1>1, <1>2, <1>5 DEF SubInv, HeardInv, Heard, Told
<1> QED
  BY <1>5, <1>6, <1>7, <1>8, <1>9, <1>10, <1>11, <1>12, <1>13 DEF SubInv, TicketInv

\* The task of s goes on, and its ticket stays where it is.
LEMMA MoveKeeps ==
    ASSUME SubInv, LogStays, NEW s \in Sub, NEW x \in Submission, sub' = [sub EXCEPT ![s] = x],
           UNCHANGED <<interests, waiters, view, store, toRelease, role, subFaults>>,
           sub[s].pc # "new", x.pc \notin {"new", "done", "answered"},
           x.bound = sub[s].bound, x.chan = sub[s].chan, x.result = sub[s].result,
           Unbound(s) => x.pc = "proposed",
           sub[s].pc # "done",
           x.pc = "propose" => req[s].key # None,
           pend' = pend \/ (pend' = pend \union {s} /\ sub[s].pc = "propose" /\ x.pc = "proposed")
    PROVE  SubInv'
<1>0. /\ sub \in [Sub -> Submission] /\ req \in [Sub -> Request]
      /\ interests \in [Cid -> Sub \union {None}] /\ waiters \in [QIds -> Sub \union {None}]
      /\ None \notin Sub /\ None \notin QIds /\ binding \in Sub \union {None}
  BY SubmissionAssumption DEF SubInv, SubmissionTypeOK, QIds
<1>2. sub' \in [Sub -> Submission] /\ sub'[s] = x /\ \A u \in Sub : u # s => sub'[u] = sub[u]
  BY <1>0
<1>5. /\ Fate' = Fate /\ Alike' = Alike /\ EntryInv' /\ RecordInv' /\ req' = req /\ owner' = owner
      /\ binding' = binding /\ feed' = feed /\ nApplied' = nApplied /\ ended' = ended
  BY LogStaysFacts DEF SubInv, LogStays
<1>6. SubmissionTypeOK'
  BY <1>2, <1>5 DEF SubInv, SubmissionTypeOK
<1>7. KeylessInv'
  <2> SUFFICES ASSUME NEW u \in Sub, req[u].key = None
               PROVE  /\ sub'[u].pc \in {"new", "propose"} => u \notin pend'
                      /\ sub'[u].pc \in {"new", "propose"} \/ u \in pend' => \A i \in QIds : owner[i] # u
                      /\ \A i, j \in QIds : owner[i] = u /\ owner[j] = u => i = j
    BY <1>5 DEF KeylessInv
  <2>1. /\ sub[u].pc \in {"new", "propose"} => u \notin pend
        /\ sub[u].pc \in {"new", "propose"} \/ u \in pend => \A i \in QIds : owner[i] # u
        /\ \A i, j \in QIds : owner[i] = u /\ owner[j] = u => i = j
    BY DEF SubInv, KeylessInv
  <2>2. CASE u = s
    BY <1>2, <2>1, <2>2
  <2>3. CASE u # s
    BY <1>2, <2>1, <2>3
  <2> QED
    BY <2>2, <2>3
<1>8. FeedInv' /\ OrderInv'
  BY <1>2, FeedKept, OrderKept DEF SubInv
<1>9. InterestInv'
  <2>1. ASSUME NEW u \in Sub, Unbound(u)
        PROVE  /\ sub'[u].bound = None
               /\ \/ sub'[u].pc \in {"propose", "proposed"}
                  \/ sub'[u].pc = "answered" /\ sub'[u].resp \in Refusal
    <3>1. CASE u = s
      BY <1>2, <2>1, <3>1 DEF Unbound
    <3>2. CASE u # s
      BY <1>2, <2>1, <3>2 DEF Unbound
    <3> QED
      BY <3>1, <3>2
  <2> QED
    BY <1>0, <1>5, <2>1 DEF SubInv, TicketInv, InterestInv, Unbound
<1>10. BindingInv'
  <2>1. binding # None => \/ sub'[binding].pc = "done"
                          \/ /\ sub'[binding].bound = None
                             /\ \/ sub'[binding].pc \in {"propose", "proposed"}
                                \/ sub'[binding].pc = "answered" /\ sub'[binding].resp \in Refusal
    BY <1>0, <1>2 DEF SubInv, TicketInv, BindingInv, Unbound
  <2> QED
    BY <1>5, <2>1 DEF SubInv, TicketInv, BindingInv, Unbound
<1>11. WaiterInv'
  BY <1>0, <1>2, <1>5 DEF SubInv, TicketInv, WaiterInv
<1>12. ChannelInv'
  BY <1>2, <1>5 DEF SubInv, TicketInv, ChannelInv
<1>13. HeardInv'
  BY <1>2, <1>5 DEF SubInv, HeardInv, Heard, Told
<1> QED
  BY <1>5, <1>6, <1>7, <1>8, <1>9, <1>10, <1>11, <1>12, <1>13 DEF SubInv, TicketInv

LEMMA ArmKeeps ==
    ASSUME SubInv, NEW s \in Sub, arm(s)
    PROVE  SubInv'
<1>0. /\ sub \in [Sub -> Submission] /\ req \in [Sub -> Request]
      /\ interests \in [Cid -> Sub \union {None}] /\ waiters \in [QIds -> Sub \union {None}]
      /\ None \notin Sub /\ None \notin QIds /\ binding \in Sub \union {None}
      /\ req[s].cid \in Cid
  BY SubmissionAssumption, RequestTyped DEF SubInv, SubmissionTypeOK, QIds
<1>1. PICK h \in Sub \union {None} : h = interests[req[s].cid]
  BY <1>0
<1>2. h # s
  BY <1>0, <1>1 DEF SubInv, TicketInv, InterestInv, Unbound, arm
<1>3. /\ sub' \in [Sub -> Submission]
      /\ \A u \in Sub \ {h, s} : sub'[u] = sub[u]
      /\ h # None => /\ sub'[h].pc = sub[h].pc /\ sub'[h].bound = sub[h].bound
                     /\ sub'[h].resp = sub[h].resp /\ sub'[h].result = sub[h].result
                     /\ sub'[h].chan # "open"
                     /\ sub'[h].chan \in {sub[h].chan, "closed"}
      /\ sub'[s].pc = "propose" /\ sub'[s].bound = None /\ sub'[s].chan = "open"
      /\ sub'[s].result = sub[s].result
  <2> DEFINE g == [sub[h] EXCEPT !.chan = "closed"]
             x == [sub[s] EXCEPT !.pc = "propose"]
             f == Send(sub, h, "closed")
  <2>1. sub' = [f EXCEPT ![s].pc = "propose"] /\ sub[s].pc = "new"
    BY <1>1 DEF arm
  <2>2. sub[s] \in Submission /\ (h # None => sub[h] \in Submission)
    BY <1>0
  <2>3. /\ x \in Submission /\ x.pc = "propose" /\ x.bound = sub[s].bound /\ x.chan = sub[s].chan
        /\ x.result = sub[s].result
    BY <2>2 DEF Submission
  <2>4. h # None => /\ g \in Submission /\ g.pc = sub[h].pc /\ g.bound = sub[h].bound
                    /\ g.resp = sub[h].resp /\ g.result = sub[h].result /\ g.chan = "closed"
    BY <2>2 DEF Submission
  <2>5. sub[s].bound = None /\ sub[s].chan = "open"
    BY <2>1 DEF SubInv, TicketInv, ChannelInv
  <2>6. f = IF h # None /\ sub[h].chan = "open" THEN [sub EXCEPT ![h] = g] ELSE sub
    BY DEF Send
  <2> HIDE DEF g, f
  <2>7. f \in [Sub -> Submission] /\ f[s] = sub[s]
    BY <1>0, <1>2, <2>4, <2>6
  <2>8. sub' = [f EXCEPT ![s] = x]
    BY <2>1, <2>7
  <2> HIDE DEF x
  <2> QED
    BY <1>0, <1>2, <2>3, <2>4, <2>5, <2>6, <2>7, <2>8
<1>15. ASSUME NEW u \in Sub, u # s
       PROVE  /\ sub'[u].pc = sub[u].pc /\ sub'[u].bound = sub[u].bound
              /\ sub'[u].resp = sub[u].resp /\ sub'[u].result = sub[u].result
              /\ sub'[u].chan \in {sub[u].chan, "closed"}
  <2>1. CASE u = h
    BY <1>0, <1>3, <2>1
  <2>2. CASE u # h
    BY <1>3, <1>15, <2>2
  <2> QED
    BY <2>1, <2>2
<1>4. LogStays /\ UNCHANGED <<waiters, role, pend, view, toRelease, subFaults>> /\ store' \subseteq Cid
      /\ interests' = [interests EXCEPT ![req[s].cid] = s] /\ sub[s].pc = "new"
  BY <1>0 DEF arm, LogStays, SubInv, SubmissionTypeOK
<1>5. /\ Fate' = Fate /\ Alike' = Alike /\ EntryInv' /\ RecordInv' /\ req' = req /\ owner' = owner
      /\ binding' = binding /\ feed' = feed /\ nApplied' = nApplied /\ ended' = ended
  BY <1>4, LogStaysFacts DEF SubInv, LogStays
<1>6. SubmissionTypeOK'
  BY <1>0, <1>3, <1>4, <1>5 DEF SubInv, SubmissionTypeOK
<1>7. KeylessInv'
  <2>1. \A u \in Sub : sub'[u].pc \in {"new", "propose"} => sub[u].pc \in {"new", "propose"}
    BY <1>3, <1>4, <1>15
  <2> QED
    BY <1>4, <1>5, <2>1 DEF SubInv, KeylessInv
<1>8. FeedInv' /\ OrderInv'
  <2>1. \A u \in Sub : sub[u].pc # "new" => sub'[u].pc # "new"
    BY <1>4, <1>15
  <2> QED
    BY <1>4, <2>1, FeedKept, OrderKept DEF SubInv
<1>9. \A u \in Sub : Unbound(u) => /\ sub'[u].bound = None
                                   /\ \/ sub'[u].pc \in {"propose", "proposed"}
                                      \/ sub'[u].pc = "answered" /\ sub'[u].resp \in Refusal
  BY <1>4, <1>15 DEF Unbound
<1>10. InterestInv'
  BY <1>0, <1>3, <1>4, <1>5, <1>9 DEF SubInv, TicketInv, InterestInv, Unbound
<1>11. BindingInv'
  <2>1. CASE binding # None
    <3>1. /\ nApplied > 0 /\ Head(feed).kind = "bind" /\ req[binding].cid = req[Head(feed).to].cid
          /\ interests[req[binding].cid] \notin {binding, Head(feed).to}
          /\ Unbound(binding) \/ sub[binding].pc = "done"
      BY <2>1 DEF SubInv, TicketInv, BindingInv
    <3>2. Head(feed).to \in Sub /\ sub[Head(feed).to].pc # "new"
      BY <3>1, HeadEffect DEF EffectInv, Effect
    <3>3. binding # s /\ Head(feed).to # s
      BY <1>4, <3>1, <3>2 DEF Unbound
    <3>4. sub[binding].pc = "done" => sub'[binding].pc = "done"
      BY <1>0, <1>3, <2>1, <3>3
    <3>5. interests'[req[binding].cid] \notin {binding, Head(feed).to}
      <4>1. req[binding].cid \in Cid
        BY <1>0, <2>1, RequestTyped DEF SubInv
      <4> QED
        BY <1>0, <1>4, <3>1, <3>3, <4>1
    <3> QED
      BY <1>0, <1>5, <1>9, <2>1, <3>1, <3>4, <3>5 DEF BindingInv, Unbound
  <2> QED
    BY <1>5, <2>1 DEF BindingInv
<1>12. WaiterInv'
  <2> SUFFICES ASSUME NEW i \in QIds, waiters[i] # None
               PROVE  /\ owner[i] # None /\ <<waiters[i], owner[i]>> \in Alike
                      /\ sub'[waiters[i]].bound = i \/ sub'[waiters[i]].pc = "done"
    BY <1>4, <1>5 DEF WaiterInv
  <2>1. /\ owner[i] # None /\ <<waiters[i], owner[i]>> \in Alike /\ waiters[i] \in Sub
        /\ sub[waiters[i]].bound = i \/ sub[waiters[i]].pc = "done"
    BY <1>0 DEF SubInv, TicketInv, WaiterInv
  <2>2. waiters[i] # s
    BY <1>0, <1>4, <2>1 DEF SubInv, TicketInv, ChannelInv
  <2> QED
    BY <1>15, <2>1, <2>2
<1>13. ChannelInv'
  <2> SUFFICES ASSUME NEW u \in Sub
               PROVE  /\ sub'[u].pc = "new" => sub'[u].bound = None /\ sub'[u].chan = "open" /\ u \notin pend'
                      /\ sub'[u].chan = "open" /\ sub'[u].pc \notin {"new", "done"} =>
                            \/ interests'[req'[u].cid] = u
                            \/ binding' = u
                            \/ sub'[u].bound # None /\ waiters'[sub'[u].bound] = u
    BY DEF ChannelInv
  <2>1. CASE u = s
    BY <1>0, <1>3, <1>4, <1>5, <2>1
  <2>2. CASE u = h
    <3>1. sub[u].pc # "new"
      BY <1>0, <1>1, <2>2 DEF SubInv, TicketInv, InterestInv, Unbound
    <3> QED
      BY <1>0, <1>3, <2>2, <3>1
  <2>3. CASE u # s /\ u # h
    <3>1. sub'[u] = sub[u]
      BY <1>3, <2>3
    <3>2. interests[req[u].cid] = u => interests'[req[u].cid] = u
      <4>1. req[u].cid \in Cid
        BY RequestTyped DEF SubInv
      <4> QED
        BY <1>0, <1>1, <1>4, <2>3, <4>1
    <3> QED
      BY <1>4, <1>5, <3>1, <3>2 DEF SubInv, TicketInv, ChannelInv
  <2> QED
    BY <2>1, <2>2, <2>3
<1>14. HeardInv'
  <2>1. \A u \in Sub : /\ sub'[u].chan \in {sub[u].chan, "closed"} /\ sub'[u].result = sub[u].result
                       /\ sub'[u].pc = "answered" => sub[u].pc = "answered" /\ sub'[u].resp = sub[u].resp
    <3>1. sub[s].chan = "open"
      BY <1>4 DEF SubInv, TicketInv, ChannelInv
    <3> QED
      BY <1>3, <1>15, <3>1
  <2> QED
    BY <1>5, <2>1 DEF SubInv, HeardInv, Heard, Told
<1> QED
  BY <1>5, <1>6, <1>7, <1>8, <1>10, <1>11, <1>12, <1>13, <1>14 DEF SubInv, TicketInv

\* Every step of a submission's task keeps the invariant.
LEMMA TaskKeeps ==
    ASSUME SubInv, NEW s \in Sub, arm(s) \/ TaskStep(s) \/ Fatal(s) \/ Cancel(s)
    PROVE  SubInv'
<1>0. /\ sub \in [Sub -> Submission] /\ store \subseteq Cid /\ sub[s] \in Submission
      /\ subFaults \in 0 .. MaxSubFaults /\ MaxSubFaults \in Nat
      /\ MaxRetries \in Nat \ {0} /\ sub[s].attempt \in 1 .. MaxRetries
      /\ Heard(s)
  BY SubmissionAssumption DEF SubInv, SubmissionTypeOK, Submission, HeardInv
<1>1. CASE arm(s)
  BY <1>1, ArmKeeps
<1>2. CASE Propose(s)
  <2> DEFINE x == [sub[s] EXCEPT !.pc = "proposed"]
  <2>1. x \in Submission /\ x.pc = "proposed" /\ x.bound = sub[s].bound /\ x.chan = sub[s].chan
        /\ x.result = sub[s].result
    BY <1>0 DEF Submission
  <2>2. /\ sub' = [sub EXCEPT ![s] = x] /\ LogStays /\ sub[s].pc = "propose"
        /\ UNCHANGED <<interests, waiters, view, store, toRelease, role, subFaults>>
        /\ pend' = pend \union {s}
    BY <1>2 DEF Propose, LogStays
  <2> HIDE DEF x
  <2> QED
    BY <2>1, <2>2, MoveKeeps
<1>3. CASE ForwardToLeader(s)
  <2>1. /\ LogStays /\ Finish(s, "NotLeader") /\ sub[s].pc \in {"propose", "proposed"}
        /\ pend' \subseteq pend /\ store' \subseteq Cid
        /\ UNCHANGED <<view, toRelease, role, subFaults>>
    BY <1>0, <1>3 DEF ForwardToLeader, LogStays, release_envelope
  <2>2. Told(s, "NotLeader")
    BY DEF Told
  <2> QED
    BY <1>0, <2>1, <2>2, FinishKeeps
<1>4. CASE Fatal(s) \/ Cancel(s)
  <2>1. /\ LogStays /\ Finish(s, "Unknown") /\ sub[s].pc \notin {"new", "done"}
        /\ UNCHANGED <<pend, view, store, toRelease, role>> /\ subFaults' \in 0 .. MaxSubFaults
    BY <1>0, <1>4 DEF Fatal, Cancel, Occurs, LogStays
  <2>2. Told(s, "Unknown")
    BY DEF Told
  <2> QED
    BY <1>0, <2>1, <2>2, FinishKeeps
<1>5. CASE Respond(s)
  <2>1. /\ LogStays /\ sub[s].pc = "answered" /\ UNCHANGED <<pend, view, toRelease, role, subFaults>>
    BY <1>5 DEF Respond, LogStays
  <2>2. CASE /\ sub[s].resp \in {"Enqueued", "InFlight"} /\ sub' = [sub EXCEPT ![s].pc = "park"]
             /\ UNCHANGED <<interests, waiters, store>>
    <3> DEFINE x == [sub[s] EXCEPT !.pc = "park"]
    <3>1. x \in Submission /\ x.pc = "park" /\ x.bound = sub[s].bound /\ x.chan = sub[s].chan
          /\ x.result = sub[s].result
      BY <1>0 DEF Submission
    <3>2. sub' = [sub EXCEPT ![s] = x]
      BY <2>2
    <3>3. ~Unbound(s)
      BY <2>1, <2>2 DEF Unbound, Refusal
    <3> HIDE DEF x
    <3> QED
      BY <2>1, <2>2, <3>1, <3>2, <3>3, MoveKeeps
  <2>3. CASE sub[s].resp \in Refusal /\ release_envelope(s) /\ Finish(s, sub[s].resp)
    <3>1. Told(s, sub[s].resp) /\ store' \subseteq Cid
      BY <1>0, <2>1, <2>3 DEF Heard, release_envelope
    <3> QED
      BY <1>0, <2>1, <2>3, <3>1, FinishKeeps
  <2> QED
    BY <1>5, <2>2, <2>3 DEF Respond
<1>6. CASE wait(s)
  <2>1. /\ LogStays /\ sub[s].pc \in {"park", "grace"}
        /\ UNCHANGED <<pend, view, store, toRelease, role, subFaults>>
    BY <1>6 DEF wait, LogStays
  <2>2. CASE sub[s].chan \in Outcome /\ Finish(s, sub[s].chan)
    <3>1. Told(s, sub[s].chan)
      BY <1>0 DEF Heard
    <3> QED
      BY <1>0, <2>1, <2>2, <3>1, FinishKeeps
  <2>3. CASE Finish(s, "Unknown")
    <3>1. Told(s, "Unknown")
      BY DEF Told
    <3> QED
      BY <1>0, <2>1, <2>3, <3>1, FinishKeeps
  <2>4. CASE sub' = [sub EXCEPT ![s].pc = "grace"] /\ UNCHANGED <<interests, waiters>>
    <3> DEFINE x == [sub[s] EXCEPT !.pc = "grace"]
    <3>1. x \in Submission /\ x.pc = "grace" /\ x.bound = sub[s].bound /\ x.chan = sub[s].chan
          /\ x.result = sub[s].result
      BY <1>0 DEF Submission
    <3>2. sub' = [sub EXCEPT ![s] = x]
      BY <2>4
    <3>3. ~Unbound(s)
      BY <2>1 DEF Unbound
    <3> HIDE DEF x
    <3> QED
      BY <2>1, <2>4, <3>1, <3>2, <3>3, MoveKeeps
  <2>5. CASE /\ sub[s].attempt < attempts_allowed(s) /\ UNCHANGED <<interests, waiters>>
             /\ sub' = [sub EXCEPT ![s] = [@ EXCEPT !.pc = "propose", !.attempt = sub[s].attempt + 1]]
    <3> DEFINE n == sub[s].attempt + 1
               x == [sub[s] EXCEPT !.pc = "propose", !.attempt = n]
    <3>1. sub' = [sub EXCEPT ![s] = x]
      BY <2>5
    <3>2. n \in 1 .. MaxRetries /\ req[s].key # None
      BY <1>0, <2>5 DEF attempts_allowed
    <3> HIDE DEF n
    <3>3. x \in Submission /\ x.pc = "propose" /\ x.bound = sub[s].bound /\ x.chan = sub[s].chan
          /\ x.result = sub[s].result
      BY <1>0, <3>2 DEF Submission
    <3>4. ~Unbound(s)
      BY <2>1 DEF Unbound
    <3> HIDE DEF x
    <3> QED
      BY <2>1, <2>5, <3>1, <3>2, <3>3, <3>4, MoveKeeps
  <2> QED
    BY <1>6, <2>2, <2>3, <2>4, <2>5 DEF wait, SpendAttempt
<1> QED
  BY <1>1, <1>2, <1>3, <1>4, <1>5, <1>6 DEF TaskStep

-----------------------------------------------------------------------------
(* Commits: the log grows by one effect.                                   *)

\* Effect e ends the wait for entry i.
EffectEnds(e, i) == e.kind = "Cleared" \/ (e.kind \in {"Applied", "Poisoned"} /\ e.id = i)

\* What appending e to the log may do to the entries: those that were there
\* keep their owners and their ends, and an entry that ends is ended by e.
EntriesMove(e) ==
    /\ next_queue_id \in Nat /\ next_queue_id' \in Nat /\ next_queue_id <= next_queue_id'
    /\ \A i \in QIds : owner[i] # None => owner'[i] = owner[i]
    /\ \A i \in QIds : ended[i] # "no" => ended'[i] = ended[i]
    /\ \A i \in QIds : i < next_queue_id /\ ended[i] = "no" =>
          \/ ended'[i] = "no"
          \/ EffectEnds(e, i) /\ (e.kind = "Cleared" => ended'[i] = "cleared")
    /\ \A i \in QIds : e.kind = "Cleared" => ended'[i] # "no" \/ i >= next_queue_id
    /\ e.kind = "bind" => e.id < next_queue_id' /\ ended'[e.id] = "no"

LEMMA OrderGrows ==
    ASSUME SubInv, NEW e \in Effect, feed' = Append(feed, e), waiters' = waiters, EntriesMove(e)
    PROVE  OrderInv'
<1>0. feed \in Seq(Effect) /\ Len(feed) \in Nat
  BY DEF SubInv, SubmissionTypeOK
<1>1. PICK n \in Nat : n = Len(feed)
  BY <1>0
<1>2. Len(feed') = n + 1 /\ (\A k \in 1 .. n : feed'[k] = feed[k]) /\ feed'[n + 1] = e
  BY <1>0, <1>1
<1>3. \A k \in 1 .. n, i \in QIds : Ends(k, i)' = Ends(k, i)
  BY <1>2 DEF Ends
<1>4. \A i \in QIds : Ends(n + 1, i)' = EffectEnds(e, i)
  BY <1>2 DEF Ends, EffectEnds
<1> SUFFICES ASSUME NEW i \in QIds, NEW p \in 0 .. n + 1, Awaited(i, p)'
             PROVE  /\ \/ i < next_queue_id' /\ ended'[i] = "no"
                       \/ \E k \in p + 1 .. n + 1 : Ends(k, i)'
                    /\ \A k \in p + 1 .. n + 1 :
                          feed'[k].kind = "Cleared" /\ (\A l \in p + 1 .. k - 1 : ~Ends(l, i)')
                             => ended'[i] = "cleared"
  BY <1>2 DEF OrderInv
<1>5. CASE p = n + 1
  <2>1. e.kind = "bind" /\ e.id = i
    BY <1>1, <1>2, <1>5 DEF Awaited
  <2> QED
    BY <1>1, <1>5, <2>1 DEF EntriesMove
<1>6. CASE p \in 0 .. n
  <2>1. Awaited(i, p)
    <3>1. CASE p = 0
      BY <3>1 DEF Awaited
    <3>2. CASE p # 0
      BY <1>1, <1>2, <1>6, <3>2 DEF Awaited
    <3> QED
      BY <3>1, <3>2
  <2>2. /\ \/ i < next_queue_id /\ ended[i] = "no"
           \/ \E k \in p + 1 .. n : Ends(k, i)
        /\ \A k \in p + 1 .. n :
              feed[k].kind = "Cleared" /\ (\A l \in p + 1 .. k - 1 : ~Ends(l, i)) => ended[i] = "cleared"
    BY <1>1, <1>6, <2>1 DEF SubInv, OrderInv
  <2>3. i \in Nat
    BY SubmissionAssumption, ConstantsAssumption DEF QIds
  <2>4. \/ i < next_queue_id' /\ ended'[i] = "no"
        \/ \E k \in p + 1 .. n + 1 : Ends(k, i)'
    <3>1. CASE \E k \in p + 1 .. n : Ends(k, i)
      BY <1>1, <1>3, <1>6, <3>1
    <3>2. CASE i < next_queue_id /\ ended[i] = "no"
      <4>1. CASE ended'[i] = "no"
        BY <2>3, <3>2, <4>1 DEF EntriesMove
      <4>2. CASE EffectEnds(e, i)
        <5>1. n + 1 \in p + 1 .. n + 1
          BY <1>1, <1>6
        <5> QED
          BY <1>4, <4>2, <5>1
      <4> QED
        BY <3>2, <4>1, <4>2 DEF EntriesMove
    <3> QED
      BY <2>2, <3>1, <3>2
  <2>5. ASSUME NEW k \in p + 1 .. n + 1, feed'[k].kind = "Cleared",
               \A l \in p + 1 .. k - 1 : ~Ends(l, i)'
        PROVE  ended'[i] = "cleared"
    <3>1. \A l \in p + 1 .. k - 1 : l \in 1 .. n /\ ~Ends(l, i)
      BY <1>1, <1>3, <1>6, <2>5
    <3>2. CASE k \in 1 .. n
      <4>1. ended[i] = "cleared"
        BY <1>1, <1>2, <1>6, <2>2, <2>5, <3>1, <3>2
      <4> QED
        BY <4>1 DEF EntriesMove
    <3>3. CASE k = n + 1
      <4>1. i < next_queue_id /\ ended[i] = "no"
        BY <1>1, <1>6, <2>2, <3>1, <3>3
      <4>2. e.kind = "Cleared"
        BY <1>2, <2>5, <3>3
      <4> QED
        BY <2>3, <4>1, <4>2 DEF EntriesMove
    <3> QED
      BY <1>1, <1>6, <3>2, <3>3
  <2> QED
    BY <2>4, <2>5
<1> QED
  BY <1>1, <1>5, <1>6

\* A commit that moves the entries as its effect says keeps the invariant.
LEMMA CommitKeeps ==
    ASSUME SubInv, NEW e \in Effect, feed' = Append(feed, e), EntriesMove(e),
           EntryInv', RecordInv', KeylessInv', EffectInv(e)',
           UNCHANGED <<req, role, sub, nApplied, view, interests, waiters, binding, store>>,
           pend' \subseteq pend, toRelease' \subseteq Cid, subFaults' \in 0 .. MaxSubFaults,
           owner' \in [QIds -> Sub \union {None}],
           ended' \in [QIds -> {"no", "applied", "poisoned", "cleared"}]
    PROVE  SubInv'
<1>0. feed \in Seq(Effect) /\ Len(feed) \in Nat
  BY DEF SubInv, SubmissionTypeOK
<1>1. PICK n \in Nat : n = Len(feed)
  BY <1>0
<1>2. Len(feed') = n + 1 /\ (\A k \in 1 .. n : feed'[k] = feed[k]) /\ feed'[n + 1] = e
  BY <1>0, <1>1
<1>3. ASSUME NEW s \in Sub, NEW how \in Fate[s], how # "no"
      PROVE  how \in Fate'[s]
  BY <1>3, FateGrows DEF EntriesMove
<1>4. Alike' = Alike
  BY AlikeStable
<1>5. SubmissionTypeOK'
  <2>1. feed' \in Seq(Effect) /\ nApplied' \in 0 .. Len(feed')
    <3>1. nApplied \in 0 .. n
      BY <1>1 DEF SubInv, SubmissionTypeOK
    <3> QED
      BY <1>0, <1>1, <1>2, <3>1
  <2> QED
    BY <2>1 DEF SubInv, SubmissionTypeOK
<1>6. OrderInv'
  BY OrderGrows
<1>7. FeedInv'
  <2>1. ASSUME NEW k \in 1 .. n
        PROVE  EffectInv(feed[k])'
    <3>1. PICK f \in Effect : f = feed[k]
      BY <1>0, <1>1
    <3>2. EffectInv(f)
      BY <1>1, <3>1 DEF SubInv, FeedInv
    <3>3. f.to \in Sub \union {None} /\ f.id \in QIds \union {None}
      BY DEF Effect
    <3>4. /\ f.to # None /\ Told(f.to, f.resp) =>
                /\ f.resp \in {"Applied", "IdempotencyHit"} => "applied" \in Fate'[f.to]
                /\ f.resp \in {"Poisoned", "IdempotencyFailed"} => "poisoned" \in Fate'[f.to]
                /\ f.resp = "Cleared" => "cleared" \in Fate'[f.to]
      BY <1>3, <3>3 DEF Told
    <3>5. EffectInv(f)'
      BY <1>4, <3>2, <3>3, <3>4 DEF EffectInv, EntriesMove, Told
    <3>6. feed'[k] = f
      BY <1>2, <3>1
    <3> QED
      BY <3>5, <3>6 DEF EffectInv, Told
  <2>3. ASSUME NEW k \in 1 .. n + 1
        PROVE  EffectInv(feed[k])'
    <3>1. CASE k \in 1 .. n
      BY <2>1, <3>1
    <3>2. CASE k = n + 1
      <4>1. feed'[k] = e
        BY <1>2, <3>2
      <4> QED
        BY <4>1 DEF EffectInv, Told
    <3>3. k \in 1 .. n \/ k = n + 1
      OBVIOUS
    <3> QED
      BY <3>1, <3>2, <3>3
  <2> QED
    BY <1>2, <2>3 DEF FeedInv
<1>8. InterestInv' /\ ChannelInv'
  BY DEF SubInv, TicketInv, InterestInv, ChannelInv, Unbound
<1>9. BindingInv'
  <2>1. nApplied > 0 => Head(feed') = Head(feed)
    <3>1. nApplied \in 0 .. n
      BY <1>1 DEF SubInv, SubmissionTypeOK
    <3> QED
      BY <1>0, <1>1, <1>2, <3>1
  <2> QED
    BY <2>1 DEF SubInv, TicketInv, BindingInv, Unbound
<1>10. WaiterInv'
  BY <1>4 DEF SubInv, TicketInv, WaiterInv, EntriesMove
<1>11. HeardInv'
  <2> SUFFICES ASSUME NEW s \in Sub
               PROVE  Heard(s)'
    BY DEF HeardInv
  <2>1. ASSUME NEW x, Told(s, x)
        PROVE  Told(s, x)'
    BY <1>3, <2>1 DEF Told
  <2>2. Heard(s)
    BY DEF SubInv, HeardInv
  <2> QED
    BY <2>1, <2>2 DEF Heard, Told
<1> QED
  BY <1>5, <1>6, <1>7, <1>8, <1>9, <1>10, <1>11 DEF SubInv, TicketInv

-----------------------------------------------------------------------------
(* The four kinds of commit.                                               *)

\* The queue of the branch, the front of it, and what the invariants say.
LEMMA QueueFacts ==
    ASSUME TypeOK, QueueInv, SubInv
    PROVE  /\ main \in Branch /\ None \notin QIds /\ None \notin Sub /\ QIds \subseteq Nat
           /\ queues[main] \in Seq(QueueEntry)
           /\ next_queue_id \in Nat /\ next_queue_id <= MaxQueueId /\ MaxQueueId \in Nat
           /\ \A j \in 1 .. Len(queues[main]) :
                 /\ queues[main][j].queue_id \in QIds
                 /\ queues[main][j].queue_id < next_queue_id
                 /\ ended[queues[main][j].queue_id] = "no"
                 /\ owner[queues[main][j].queue_id] \in Sub
<1>1. /\ main \in Branch /\ None \notin QIds /\ None \notin Sub /\ QIds \subseteq Nat
      /\ next_queue_id \in Nat /\ next_queue_id <= MaxQueueId /\ MaxQueueId \in Nat
  BY SubmissionAssumption, ConstantsAssumption DEF QIds, TypeOK
<1>2. queues[main] \in Seq(QueueEntry)
  BY <1>1 DEF TypeOK
<1>3. ASSUME NEW j \in 1 .. Len(queues[main])
      PROVE  /\ queues[main][j].queue_id \in QIds
             /\ queues[main][j].queue_id < next_queue_id
             /\ ended[queues[main][j].queue_id] = "no"
             /\ owner[queues[main][j].queue_id] \in Sub
  <2>1. queues[main][j].queue_id \in EntryIds(queues[main])
    BY <1>2 DEF EntryIds
  <2>2. queues[main][j].queue_id \in Nat
    <3>1. queues[main][j] \in QueueEntry
      BY <1>2
    <3> QED
      BY <3>1 DEF QueueEntry
  <2>3. queues[main][j].queue_id < next_queue_id
    BY <1>1 DEF QueueInv, QueueIdsOrdered
  <2>4. queues[main][j].queue_id \in QIds
    BY <1>1, <2>2, <2>3 DEF QIds
  <2>5. owner \in [QIds -> Sub \union {None}]
    BY DEF SubInv, SubmissionTypeOK
  <2> QED
    BY <2>1, <2>3, <2>4, <2>5 DEF SubInv, EntryInv
<1> QED
  BY <1>1, <1>2, <1>3

\* The proposed command of s makes an entry.
LEMMA EnqueuedKeeps ==
    ASSUME TypeOK, QueueInv, SubInv, TypeOK', QueueInv', NEW s \in Sub, s \in pend,
           pend' = pend \ {s},
           apply_enqueue_command(main, req[s].key, req[s].body),
           owner' = [owner EXCEPT ![next_queue_id] = s],
           Committing("bind", next_queue_id, s, "Enqueued"),
           UNCHANGED <<req, role, sub, nApplied, view, interests, waiters, binding, store,
                       toRelease, ended, subFaults>>
    PROVE  SubInv'
<1>0. /\ main \in Branch /\ None \notin QIds /\ None \notin Sub /\ QIds \subseteq Nat
      /\ queues[main] \in Seq(QueueEntry) /\ next_queue_id \in Nat
      /\ owner \in [QIds -> Sub \union {None}]
      /\ ended \in [QIds -> {"no", "applied", "poisoned", "cleared"}]
      /\ toRelease \subseteq Cid /\ subFaults \in 0 .. MaxSubFaults
  BY QueueFacts DEF SubInv, SubmissionTypeOK
<1>1. PICK n \in QIds : n = next_queue_id
  BY <1>0, ConstantsAssumption DEF apply_enqueue_command, QIds
<1>2. /\ next_queue_id' = n + 1 /\ idempotency' = idempotency
      /\ owner' \in [QIds -> Sub \union {None}] /\ owner'[n] = s
      /\ \A i \in QIds : i # n => owner'[i] = owner[i]
  BY <1>0, <1>1 DEF apply_enqueue_command
<1> DEFINE x == [queue_id |-> n, key |-> req[s].key, body |-> req[s].body]
<1>3. queues'[main] = Append(queues[main], x)
  BY <1>0, <1>1 DEF apply_enqueue_command, TypeOK
<1>4. PICK q \in Seq(QueueEntry) : q = queues[main]
  BY <1>0
<1>5. /\ Len(queues'[main]) = Len(q) + 1 /\ Len(q) \in Nat
      /\ \A j \in 1 .. Len(q) : queues'[main][j] = q[j]
      /\ queues'[main][Len(q) + 1] = x
  <2> HIDE DEF x
  <2> QED
    BY <1>3, <1>4
<1>6. x.queue_id = n /\ x.key = req[s].key /\ x.body = req[s].body
  OBVIOUS
<1> HIDE DEF x
<1>7. queues'[main] \in Seq(QueueEntry)
  BY <1>0 DEF TypeOK
<1>8. EntryIds(queues'[main]) = EntryIds(q) \union {n}
  <2>1. PICK z \in Seq(QueueEntry) : z = queues'[main]
    BY <1>7
  <2>2. EntryIds(z) = {z[j].queue_id : j \in 1 .. Len(q) + 1}
    BY <1>5, <2>1 DEF EntryIds
  <2>3. EntryIds(q) = {q[j].queue_id : j \in 1 .. Len(q)}
    BY DEF EntryIds
  <2>4. /\ \A j \in 1 .. Len(q) : j \in 1 .. Len(q) + 1 /\ z[j] = q[j]
        /\ Len(q) + 1 \in 1 .. Len(q) + 1 /\ z[Len(q) + 1].queue_id = n
        /\ \A j \in 1 .. Len(q) + 1 : j \in 1 .. Len(q) \/ j = Len(q) + 1
    BY <1>5, <1>6, <2>1
  <2>5. \A i : i \in EntryIds(z) <=> i \in EntryIds(q) \union {n}
    BY <2>2, <2>3, <2>4
  <2> QED
    BY <2>1, <2>5
<1>9. owner[n] = None /\ ended[n] = "no"
  BY <1>0, <1>1 DEF SubInv, EntryInv
<1>10. EntryInv'
  <2>1. \A i \in QIds : (owner'[i] # None) = (i < n + 1)
    BY <1>0, <1>1, <1>2 DEF SubInv, EntryInv
  <2>2. \A i \in QIds : ended[i] # "no" => i < n + 1
    BY <1>0, <1>1 DEF SubInv, EntryInv
  <2>3. \A i \in QIds : i \in EntryIds(queues'[main]) <=> i < n + 1 /\ ended[i] = "no"
    BY <1>0, <1>1, <1>4, <1>8, <1>9 DEF SubInv, EntryInv
  <2>4. ASSUME NEW j \in 1 .. Len(q) + 1
        PROVE  /\ queues'[main][j].key = req[owner'[queues'[main][j].queue_id]].key
               /\ queues'[main][j].body = req[owner'[queues'[main][j].queue_id]].body
    <3>1. CASE j = Len(q) + 1
      BY <1>2, <1>5, <1>6, <3>1
    <3>2. CASE j \in 1 .. Len(q)
      <4>1. q[j].queue_id \in QIds /\ q[j].queue_id # n
        BY <1>0, <1>1, <1>4, <3>2, QueueFacts
      <4>2. /\ q[j].key = req[owner[q[j].queue_id]].key
            /\ q[j].body = req[owner[q[j].queue_id]].body
        BY <1>4, <3>2 DEF SubInv, EntryInv
      <4> QED
        BY <1>2, <1>5, <3>2, <4>1, <4>2
    <3> QED
      BY <1>5, <3>1, <3>2
  <2> QED
    BY <1>2, <1>5, <2>1, <2>2, <2>3, <2>4 DEF EntryInv
<1>11. RecordInv'
  BY <1>2, <1>9, <1>0 DEF SubInv, RecordInv
<1>12. KeylessInv'
  <2> SUFFICES ASSUME NEW u \in Sub, req[u].key = None
               PROVE  /\ sub[u].pc \in {"new", "propose"} => u \notin pend'
                      /\ sub[u].pc \in {"new", "propose"} \/ u \in pend' => \A i \in QIds : owner'[i] # u
                      /\ \A i, j \in QIds : owner'[i] = u /\ owner'[j] = u => i = j
    BY DEF KeylessInv
  <2>1. /\ sub[u].pc \in {"new", "propose"} => u \notin pend
        /\ sub[u].pc \in {"new", "propose"} \/ u \in pend => \A i \in QIds : owner[i] # u
        /\ \A i, j \in QIds : owner[i] = u /\ owner[j] = u => i = j
    BY DEF SubInv, KeylessInv
  <2>2. CASE u = s
    BY <1>2, <2>1, <2>2
  <2>3. CASE u # s
    BY <1>2, <2>1, <2>3
  <2> QED
    BY <2>2, <2>3
<1>13. PICK e \in Effect : /\ feed' = Append(feed, e) /\ e.kind = "bind" /\ e.id = n /\ e.to = s
                           /\ e.resp = "Enqueued"
  <2>1. EntryIds(queues'[main]) \subseteq QIds
    <3>1. EntryIds(q) \subseteq QIds
      BY <1>4, QueueFacts DEF EntryIds
    <3> QED
      BY <1>8, <3>1
  <2>2. PICK ids \in SUBSET QIds : ids = EntryIds(queues'[main])
    BY <2>1
  <2> DEFINE e == [kind |-> "bind", id |-> n, to |-> s, resp |-> "Enqueued", ids |-> ids]
  <2>3. feed' = Append(feed, e)
    BY <1>1, <2>2 DEF Committing
  <2>4. e \in Effect /\ e.kind = "bind" /\ e.id = n /\ e.to = s /\ e.resp = "Enqueued"
    BY DEF Effect
  <2> HIDE DEF e
  <2> QED
    BY <2>3, <2>4
<1>14. EntriesMove(e)
  BY <1>0, <1>1, <1>2, <1>9, <1>13 DEF EntriesMove
<1>15. EffectInv(e)'
  <2>1. <<s, s>> \in Alike /\ Alike' = Alike
    BY AlikeFacts, AlikeStable
  <2>2. sub[s].pc # "new"
    BY DEF SubInv, TicketInv, ChannelInv
  <2> QED
    BY <1>0, <1>2, <1>13, <2>1, <2>2 DEF EffectInv, Outcome
<1> QED
  BY <1>0, <1>2, <1>10, <1>11, <1>12, <1>13, <1>14, <1>15, CommitKeeps

\* What a refusal by the records, or a shared entry, says of the queue.
LEMMA RecordedWhen ==
    ASSUME NEW b, NEW key, NEW body,
           EnqueueResponse(b, key, body) \in {"IdempotencyHit", "IdempotencyFailed"}
    PROVE  /\ Recorded(b, key) /\ idempotency[b][key].body = body
           /\ (EnqueueResponse(b, key, body) = "IdempotencyHit") =
                 (idempotency[b][key].kind = "Applied")
<1>1. CASE b \notin branches
  BY <1>1 DEF EnqueueResponse
<1>2. CASE b \in branches /\ b \in retracted
  BY <1>2 DEF EnqueueResponse
<1>3. CASE b \in branches \ retracted /\ Recorded(b, key)
  BY <1>3 DEF EnqueueResponse
<1>4. CASE b \in branches \ retracted /\ ~Recorded(b, key) /\ InFlight(b, key) # {}
  BY <1>4 DEF EnqueueResponse
<1>5. CASE b \in branches \ retracted /\ ~Recorded(b, key) /\ InFlight(b, key) = {}
  BY <1>5 DEF EnqueueResponse
<1> QED
  BY <1>1, <1>2, <1>3, <1>4, <1>5

LEMMA InFlightWhen ==
    ASSUME NEW b, NEW key, NEW body, EnqueueResponse(b, key, body) = "InFlight"
    PROVE  \E i \in InFlight(b, key) : queues[b][i].body = body
<1>1. CASE b \notin branches
  BY <1>1 DEF EnqueueResponse
<1>2. CASE b \in branches /\ b \in retracted
  BY <1>2 DEF EnqueueResponse
<1>3. CASE b \in branches \ retracted /\ Recorded(b, key)
  BY <1>3 DEF EnqueueResponse
<1>4. CASE b \in branches \ retracted /\ ~Recorded(b, key) /\ InFlight(b, key) # {}
  BY <1>4 DEF EnqueueResponse
<1>5. CASE b \in branches \ retracted /\ ~Recorded(b, key) /\ InFlight(b, key) = {}
  BY <1>5 DEF EnqueueResponse
<1> QED
  BY <1>1, <1>2, <1>3, <1>4, <1>5

\* A command that makes no entry: its effect is the answer to s.
LEMMA AnswerKeeps ==
    ASSUME TypeOK, QueueInv, SubInv, NEW s \in Sub, s \in pend, pend' = pend \ {s},
           UNCHANGED <<vars, owner, req, role, sub, nApplied, view, interests, waiters, binding,
                       store, toRelease, ended, subFaults>>,
           NEW e \in Effect, feed' = Append(feed, e), e.to = s,
           \/ /\ e.kind = "bind" /\ e.resp \in {"Enqueued", "InFlight"}
              /\ e.id \in QIds /\ e.id < next_queue_id /\ ended[e.id] = "no"
              /\ owner[e.id] \in Sub /\ <<s, owner[e.id]>> \in Alike
           \/ e.kind = "none" /\ e.resp \in Refusal /\ Told(s, e.resp)
    PROVE  SubInv'
<1>0. /\ main \in Branch /\ None \notin QIds /\ None \notin Sub /\ QIds \subseteq Nat
      /\ next_queue_id \in Nat
      /\ owner \in [QIds -> Sub \union {None}]
      /\ ended \in [QIds -> {"no", "applied", "poisoned", "cleared"}]
      /\ toRelease \subseteq Cid /\ subFaults \in 0 .. MaxSubFaults
  BY QueueFacts DEF SubInv, SubmissionTypeOK
<1>1. /\ next_queue_id' = next_queue_id /\ queues' = queues /\ idempotency' = idempotency
      /\ owner' = owner /\ ended' = ended /\ req' = req /\ sub' = sub
  BY DEF vars
<1>2. EntryInv' /\ RecordInv' /\ KeylessInv'
  BY <1>1 DEF SubInv, EntryInv, RecordInv, KeylessInv, EntryIds
<1>3. EntriesMove(e)
  BY <1>0, <1>1 DEF EntriesMove
<1>4. Fate' = Fate /\ Alike' = Alike
  BY <1>1, AlikeStable DEF Fate
<1>5. EffectInv(e)'
  <2>1. sub[s].pc # "new"
    BY DEF SubInv, TicketInv, ChannelInv
  <2> QED
    BY <1>0, <1>1, <1>4, <2>1 DEF EffectInv, Outcome, Told
<1> QED
  BY <1>0, <1>1, <1>2, <1>3, <1>5, CommitKeeps

LEMMA CommitEnqueueKeeps ==
    ASSUME TypeOK, QueueInv, SubInv, TypeOK', QueueInv', NEW s \in Sub, CommitEnqueue(s)
    PROVE  SubInv'
<1> DEFINE key == req[s].key
           body == req[s].body
           response == EnqueueResponse(main, key, body)
<1>0. /\ main \in Branch /\ None \notin QIds /\ None \notin Sub
      /\ key \in Key \union {None} /\ body \in Body
  BY QueueFacts, RequestTyped DEF SubInv
<1>1. /\ s \in pend /\ pend' = pend \ {s}
      /\ UNCHANGED <<req, role, sub, nApplied, view, interests, waiters, binding, store,
                     toRelease, ended, subFaults>>
  BY DEF CommitEnqueue
<1>2. CASE /\ apply_enqueue_command(main, key, body)
           /\ owner' = [owner EXCEPT ![next_queue_id] = s]
           /\ Committing("bind", next_queue_id, s, "Enqueued")
  BY <1>1, <1>2, EnqueuedKeeps
<1>3. ASSUME UNCHANGED vars
      PROVE  EntryIds(queues'[main]) \subseteq QIds
  BY <1>3, QueueFacts DEF EntryIds, vars
<1>4. CASE /\ response = "InFlight" /\ UNCHANGED <<vars, owner>>
           /\ \E i \in InFlight(main, key) : Committing("bind", queues[main][i].queue_id, s, "InFlight")
  <2>1. PICK i \in InFlight(main, key) : Committing("bind", queues[main][i].queue_id, s, "InFlight")
    BY <1>4
  <2>2. PICK j \in InFlight(main, key) : queues[main][j].body = body
    BY <1>4, InFlightWhen
  <2>3. /\ i \in 1 .. Len(queues[main]) /\ j \in 1 .. Len(queues[main]) /\ key # None
        /\ queues[main][i].key = key /\ queues[main][j].key = key
    BY <2>1, <2>2, QueueFacts DEF InFlight
  <2>4. i = j
    BY <1>0, <2>3 DEF QueueInv, KeyLiveOnce
  <2>5. PICK d \in QIds : d = queues[main][i].queue_id
    BY <2>3, QueueFacts
  <2>6. d < next_queue_id /\ ended[d] = "no" /\ owner[d] \in Sub
    BY <2>3, <2>5, QueueFacts
  <2>7. req[owner[d]].key = key /\ req[owner[d]].body = body
    BY <2>2, <2>3, <2>4, <2>5 DEF SubInv, EntryInv
  <2>8. <<s, owner[d]>> \in Alike
    BY <2>3, <2>6, <2>7, AlikeFacts
  <2>9. PICK e \in Effect : /\ feed' = Append(feed, e) /\ e.kind = "bind" /\ e.id = d /\ e.to = s
                            /\ e.resp = "InFlight"
    <3>1. EntryIds(queues'[main]) \subseteq QIds
      BY <1>3, <1>4
    <3>2. PICK ids \in SUBSET QIds : ids = EntryIds(queues'[main])
      BY <3>1
    <3> DEFINE e == [kind |-> "bind", id |-> d, to |-> s, resp |-> "InFlight", ids |-> ids]
    <3>3. feed' = Append(feed, e)
      BY <2>1, <2>5, <3>2 DEF Committing
    <3>4. e \in Effect /\ e.kind = "bind" /\ e.id = d /\ e.to = s /\ e.resp = "InFlight"
      BY DEF Effect
    <3> HIDE DEF e
    <3> QED
      BY <3>3, <3>4
  <2> QED
    BY <1>1, <1>4, <2>6, <2>8, <2>9, AnswerKeeps
<1>5. CASE response \in Refusal /\ UNCHANGED <<vars, owner>> /\ Committing("none", None, s, response)
  <2>1. PICK r \in Refusal : r = response
    BY <1>5
  <2>2. PICK e \in Effect : /\ feed' = Append(feed, e) /\ e.kind = "none" /\ e.to = s /\ e.resp = r
    <3>1. EntryIds(queues'[main]) \subseteq QIds
      BY <1>3, <1>5
    <3>2. Committing("none", None, s, r)
      BY <1>5, <2>1
    <3>3. PICK ids \in SUBSET QIds : ids = EntryIds(queues'[main])
      BY <3>1
    <3> DEFINE e == [kind |-> "none", id |-> None, to |-> s, resp |-> r, ids |-> ids]
    <3>4. feed' = Append(feed, e)
      BY <3>2, <3>3 DEF Committing
    <3>5. e \in Effect /\ e.kind = "none" /\ e.to = s /\ e.resp = r
      BY DEF Effect
    <3> HIDE DEF e
    <3> QED
      BY <3>4, <3>5
  <2>3. Told(s, r)
    <3>1. CASE r \in {"IdempotencyHit", "IdempotencyFailed"}
      <4>1. /\ key \in Key /\ idempotency[main][key] # None /\ idempotency[main][key].body = body
            /\ (r = "IdempotencyHit") = (idempotency[main][key].kind = "Applied")
        BY <1>0, <2>1, <3>1, RecordedWhen DEF Recorded
      <4>2. PICK i \in QIds : i = idempotency[main][key].request_cid
        BY <4>1 DEF SubInv, RecordInv
      <4>3. /\ owner[i] # None /\ req[owner[i]].key = key /\ req[owner[i]].body = body
            /\ ended[i] = IF r = "IdempotencyHit" THEN "applied" ELSE "poisoned"
        BY <4>1, <4>2 DEF SubInv, RecordInv
      <4>4. owner[i] \in Sub
        BY <4>3 DEF SubInv, SubmissionTypeOK
      <4>5. <<s, owner[i]>> \in Alike
        BY <1>0, <4>1, <4>3, <4>4, AlikeFacts, NoneAssumption
      <4>6. ended[i] \in Fate[s]
        BY <4>3, <4>5, FateOf
      <4> QED
        BY <3>1, <4>3, <4>6 DEF Told
    <3>2. CASE r \notin {"IdempotencyHit", "IdempotencyFailed"}
      BY <3>2 DEF Told, Refusal
    <3> QED
      BY <3>1, <3>2
  <2> QED
    BY <1>1, <1>5, <2>2, <2>3, AnswerKeeps
<1> QED
  BY <1>2, <1>4, <1>5 DEF CommitEnqueue

\* The envelopes a response lists go to the release task.
LEMMA ReleaseTyped ==
    ASSUME SubInv, NEW S, NEW how, Ending(S, how)
    PROVE  toRelease' \subseteq Cid
BY DEF SubInv, SubmissionTypeOK, Ending

\* The front entry leaves the queue, applied or poisoned.
LEMMA PopKeeps ==
    ASSUME TypeOK, QueueInv, SubInv, TypeOK', QueueInv', queues[main] # <<>>,
           NEW kind \in {"Applied", "Failed"}, NEW c \in Commit \union {None},
           PopFront(main, kind, c, 0),
           NEW how \in {"applied", "poisoned"}, (kind = "Applied") = (how = "applied"),
           Ending({Front}, how),
           Committing(IF how = "applied" THEN "Applied" ELSE "Poisoned", Front, None, "none"),
           UNCHANGED <<req, role, sub, pend, nApplied, view, interests, waiters, binding, store,
                       owner, subFaults>>
    PROVE  SubInv'
<1>0. /\ main \in Branch /\ None \notin QIds /\ None \notin Sub /\ QIds \subseteq Nat
      /\ queues[main] \in Seq(QueueEntry) /\ next_queue_id \in Nat
      /\ owner \in [QIds -> Sub \union {None}]
      /\ ended \in [QIds -> {"no", "applied", "poisoned", "cleared"}]
      /\ toRelease' \subseteq Cid /\ subFaults \in 0 .. MaxSubFaults
  BY QueueFacts, ReleaseTyped DEF SubInv, SubmissionTypeOK
<1>1. PICK q \in Seq(QueueEntry) : q = queues[main]
  BY <1>0
<1>2. q # <<>> /\ 1 \in 1 .. Len(q) /\ Head(q) = q[1]
  BY <1>1
<1>3. PICK f \in QIds : f = Front
  BY <1>1, <1>2, QueueFacts DEF Front
<1>4. f = q[1].queue_id /\ f < next_queue_id /\ ended[f] = "no" /\ owner[f] \in Sub
  BY <1>1, <1>2, <1>3, QueueFacts DEF Front
<1>5. queues'[main] = Tail(q) /\ next_queue_id' = next_queue_id
  BY <1>0, <1>1 DEF PopFront, TypeOK
<1>6. /\ Len(Tail(q)) = Len(q) - 1
      /\ \A j \in 1 .. Len(q) - 1 : j + 1 \in 1 .. Len(q) /\ Tail(q)[j] = q[j + 1]
      /\ Tail(q) \in Seq(QueueEntry) /\ Len(q) \in Nat
  BY <1>2
<1>7. \A i, j \in 1 .. Len(q) : i < j => q[i].queue_id < q[j].queue_id
  BY <1>0, <1>1 DEF QueueInv, QueueIdsOrdered
<1>8. \A j \in 1 .. Len(q) : q[j].queue_id \in QIds
  BY <1>1, QueueFacts
<1>9. EntryIds(Tail(q)) = EntryIds(q) \ {f}
  <2>1. \A j \in 2 .. Len(q) : j \in 1 .. Len(q) /\ q[j].queue_id # f
    <3> TAKE j \in 2 .. Len(q)
    <3>1. j \in 1 .. Len(q) /\ 1 < j
      BY <1>6
    <3>2. q[1].queue_id < q[j].queue_id /\ q[j].queue_id \in Nat /\ f \in Nat
      BY <1>0, <1>2, <1>7, <1>8, <3>1
    <3> QED
      BY <1>4, <3>1, <3>2
  <2>2. EntryIds(q) = {q[j].queue_id : j \in 1 .. Len(q)}
    BY DEF EntryIds
  <2>3. EntryIds(Tail(q)) = {Tail(q)[j].queue_id : j \in 1 .. Len(q) - 1}
    <3>1. PICK t \in Seq(QueueEntry) : t = Tail(q)
      BY <1>6
    <3>2. DOMAIN t = 1 .. Len(q) - 1
      BY <1>6, <3>1
    <3> QED
      BY <3>1, <3>2 DEF EntryIds
  <2>4. ASSUME NEW i \in EntryIds(Tail(q)) PROVE i \in EntryIds(q) \ {f}
    <3>1. PICK j \in 1 .. Len(q) - 1 : i = q[j + 1].queue_id
      BY <1>6, <2>3
    <3>2. j + 1 \in 2 .. Len(q)
      BY <1>6
    <3> QED
      BY <2>1, <2>2, <3>1, <3>2
  <2>5. ASSUME NEW i \in EntryIds(q) \ {f} PROVE i \in EntryIds(Tail(q))
    <3>1. PICK j \in 1 .. Len(q) : i = q[j].queue_id
      BY <2>2
    <3>2. j - 1 \in 1 .. Len(q) - 1 /\ (j - 1) + 1 = j
      BY <1>4, <1>6, <3>1
    <3> QED
      BY <1>6, <2>3, <3>1, <3>2
  <2> QED
    BY <2>4, <2>5
<1>10. /\ ended' \in [QIds -> {"no", "applied", "poisoned", "cleared"}]
       /\ ended'[f] = how /\ \A i \in QIds : i # f => ended'[i] = ended[i]
  BY <1>0, <1>3 DEF Ending
<1>11. /\ q[1].key = req[owner[f]].key /\ q[1].body = req[owner[f]].body
       /\ q[1] \in QueueEntry /\ q[1].key \in Key \union {None}
  <2>1. q[1] \in QueueEntry
    BY <1>2
  <2> QED
    BY <1>1, <1>2, <1>4, <2>1 DEF SubInv, EntryInv, QueueEntry
<1>12. EntryInv'
  <2>1. \A i \in QIds : ended'[i] # "no" => i < next_queue_id
    BY <1>4, <1>10 DEF SubInv, EntryInv
  <2>2. \A i \in QIds : i \in EntryIds(Tail(q)) <=> i < next_queue_id /\ ended'[i] = "no"
    BY <1>1, <1>9, <1>10 DEF SubInv, EntryInv
  <2>3. \A j \in 1 .. Len(q) - 1 : /\ Tail(q)[j].key = req[owner[Tail(q)[j].queue_id]].key
                                   /\ Tail(q)[j].body = req[owner[Tail(q)[j].queue_id]].body
    BY <1>1, <1>6 DEF SubInv, EntryInv
  <2> QED
    BY <1>5, <1>6, <2>1, <2>2, <2>3 DEF SubInv, EntryInv
<1>13. RecordInv'
  <2>1. CASE q[1].key = None
    <3>1. idempotency' = idempotency
      BY <1>1, <1>2, <2>1 DEF PopFront
    <3>2. ASSUME NEW l \in Key, idempotency[main][l] # None
          PROVE  LET i == idempotency[main][l].request_cid IN
                 /\ i \in QIds /\ owner[i] # None
                 /\ req[owner[i]].key = l /\ req[owner[i]].body = idempotency[main][l].body
                 /\ ended'[i] = IF idempotency[main][l].kind = "Applied" THEN "applied" ELSE "poisoned"
      BY <1>4, <1>10, <3>2 DEF SubInv, RecordInv
    <3>3. ASSUME NEW i \in QIds, ended'[i] = "applied", req[owner[i]].key # None
          PROVE  /\ idempotency[main][req[owner[i]].key] # None
                 /\ idempotency[main][req[owner[i]].key].request_cid = i
      BY <1>10, <1>11, <2>1, <3>3 DEF SubInv, RecordInv
    <3> QED
      BY <3>1, <3>2, <3>3 DEF RecordInv
  <2>2. CASE q[1].key # None
    <3> DEFINE rec == [kind |-> kind, request_cid |-> f, body |-> q[1].body,
                       recorded_at |-> 0, head |-> c]
    <3>1. PICK k \in Key : k = q[1].key
      BY <1>11, <2>2
    <3>2. idempotency' = [idempotency EXCEPT ![main][k] = rec]
      BY <1>1, <1>2, <1>4, <2>2, <3>1 DEF PopFront
    <3>3. /\ rec.request_cid = f /\ rec.body = q[1].body /\ rec.kind = kind
          /\ rec \in ApplyOutcome
      BY <1>0, <1>11 DEF ApplyOutcome, QueueEntry
    <3> HIDE DEF rec
    <3>4. idempotency'[main][k] = rec /\ \A l \in Key : l # k => idempotency'[main][l] = idempotency[main][l]
      BY <1>0, <3>2 DEF TypeOK
    <3>5. idempotency[main][k] = None
      BY <1>0, <1>1, <1>2, <2>2, <3>1 DEF QueueInv, KeyLiveOnce
    <3>6. ASSUME NEW l \in Key, idempotency'[main][l] # None
          PROVE  LET i == idempotency'[main][l].request_cid IN
                 /\ i \in QIds /\ owner[i] # None
                 /\ req[owner[i]].key = l /\ req[owner[i]].body = idempotency'[main][l].body
                 /\ ended'[i] = IF idempotency'[main][l].kind = "Applied" THEN "applied" ELSE "poisoned"
      <4>1. CASE l = k
        BY <1>0, <1>4, <1>10, <1>11, <3>1, <3>3, <3>4, <4>1
      <4>2. CASE l # k
        BY <1>4, <1>10, <3>4, <3>6, <4>2 DEF SubInv, RecordInv
      <4> QED
        BY <4>1, <4>2
    <3>7. ASSUME NEW i \in QIds, ended'[i] = "applied", req[owner[i]].key # None
          PROVE  /\ idempotency'[main][req[owner[i]].key] # None
                 /\ idempotency'[main][req[owner[i]].key].request_cid = i
      <4>1. CASE i = f
        <5>1. rec # None
          BY <3>3, NoneAssumption
        <5> QED
          BY <1>11, <3>1, <3>3, <3>4, <4>1, <5>1
      <4>2. CASE i # f
        <5>1. ended[i] = "applied"
          BY <1>10, <3>7, <4>2
        <5>2. owner[i] \in Sub
          BY <1>0, <5>1 DEF SubInv, EntryInv
        <5>3. req[owner[i]].key \in Key
          BY <3>7, <5>2, RequestTyped DEF SubInv
        <5>4. /\ idempotency[main][req[owner[i]].key] # None
              /\ idempotency[main][req[owner[i]].key].request_cid = i
          BY <3>7, <5>1 DEF SubInv, RecordInv
        <5> QED
          BY <3>4, <3>5, <5>3, <5>4
      <4> QED
        BY <4>1, <4>2
    <3> QED
      BY <3>6, <3>7 DEF RecordInv
  <2> QED
    BY <2>1, <2>2
<1>14. KeylessInv'
  BY DEF SubInv, KeylessInv
<1>15. PICK e \in Effect : /\ feed' = Append(feed, e) /\ e.id = f /\ e.to = None /\ e.resp = "none"
                           /\ e.kind = IF how = "applied" THEN "Applied" ELSE "Poisoned"
  <2>1. EntryIds(queues'[main]) \subseteq QIds
    <3>1. EntryIds(q) \subseteq QIds
      BY <1>8 DEF EntryIds
    <3> QED
      BY <1>5, <1>9, <3>1
  <2>2. PICK x \in Outcome : x = IF how = "applied" THEN "Applied" ELSE "Poisoned"
    BY DEF Outcome
  <2>3. PICK ids \in SUBSET QIds : ids = EntryIds(queues'[main])
    BY <2>1
  <2> DEFINE e == [kind |-> x, id |-> f, to |-> None, resp |-> "none", ids |-> ids]
  <2>4. feed' = Append(feed, e)
    BY <1>3, <2>2, <2>3 DEF Committing
  <2>5. e \in Effect /\ e.kind = x /\ e.id = f /\ e.to = None /\ e.resp = "none"
    BY DEF Effect
  <2> HIDE DEF e
  <2> QED
    BY <2>2, <2>4, <2>5
<1>16. EntriesMove(e)
  BY <1>0, <1>4, <1>5, <1>10, <1>15 DEF EntriesMove, EffectEnds
<1>17. EffectInv(e)'
  BY <1>0, <1>10, <1>15 DEF EffectInv, Outcome
<1> QED
  BY <1>0, <1>10, <1>12, <1>13, <1>14, <1>15, <1>16, <1>17, CommitKeeps

\* An admin command clears the queue.
LEMMA ClearKeeps ==
    ASSUME TypeOK, QueueInv, SubInv, CommitClear
    PROVE  SubInv'
<1>0. /\ main \in Branch /\ None \notin QIds /\ None \notin Sub /\ QIds \subseteq Nat
      /\ queues[main] \in Seq(QueueEntry) /\ next_queue_id \in Nat
      /\ owner \in [QIds -> Sub \union {None}]
      /\ ended \in [QIds -> {"no", "applied", "poisoned", "cleared"}]
      /\ toRelease' \subseteq Cid /\ subFaults \in 0 .. MaxSubFaults /\ MaxSubFaults \in Nat
  BY QueueFacts, ReleaseTyped, SubmissionAssumption DEF SubInv, SubmissionTypeOK, CommitClear
<1>1. /\ UNCHANGED <<req, role, sub, pend, nApplied, view, interests, waiters, binding, store, owner>>
      /\ Ending(EntryIds(queues[main]), "cleared") /\ Committing("Cleared", None, None, "none")
      /\ subFaults' \in 0 .. MaxSubFaults
  BY <1>0 DEF CommitClear, Occurs
<1>2. queues'[main] = <<>> /\ next_queue_id' = next_queue_id /\ idempotency' = idempotency
  <2>1. \E reason : clear_queue_for_admin(main, reason, 0) /\ idempotency' = idempotency
    BY DEF CommitClear, reset_head, retract_ledger
  <2> QED
    BY <1>0, <2>1 DEF clear_queue_for_admin, TypeOK
<1>3. /\ ended' \in [QIds -> {"no", "applied", "poisoned", "cleared"}]
      /\ \A i \in QIds : ended'[i] = IF i \in EntryIds(queues[main]) THEN "cleared" ELSE ended[i]
  BY <1>0, <1>1 DEF Ending
<1>4. \A i \in QIds : i \in EntryIds(queues[main]) <=> i < next_queue_id /\ ended[i] = "no"
  BY DEF SubInv, EntryInv
<1>5. EntryIds(queues'[main]) = {}
  BY <1>2 DEF EntryIds
<1>6. EntryInv'
  <2>1. \A i \in QIds : ended'[i] # "no" => i < next_queue_id
    BY <1>3, <1>4 DEF SubInv, EntryInv
  <2>2. \A i \in QIds : ~(i < next_queue_id /\ ended'[i] = "no")
    BY <1>3, <1>4
  <2>3. Len(queues'[main]) = 0
    BY <1>2
  <2> QED
    BY <1>1, <1>2, <1>5, <2>1, <2>2, <2>3 DEF SubInv, EntryInv
<1>7. RecordInv'
  <2>1. ASSUME NEW l \in Key, idempotency[main][l] # None
        PROVE  LET i == idempotency[main][l].request_cid IN
               /\ i \in QIds /\ owner[i] # None
               /\ req[owner[i]].key = l /\ req[owner[i]].body = idempotency[main][l].body
               /\ ended'[i] = IF idempotency[main][l].kind = "Applied" THEN "applied" ELSE "poisoned"
    BY <1>3, <1>4, <2>1 DEF SubInv, RecordInv
  <2>2. ASSUME NEW i \in QIds, ended'[i] = "applied", req[owner[i]].key # None
        PROVE  /\ idempotency[main][req[owner[i]].key] # None
               /\ idempotency[main][req[owner[i]].key].request_cid = i
    BY <1>3, <2>2 DEF SubInv, RecordInv
  <2> QED
    BY <1>1, <1>2, <2>1, <2>2 DEF RecordInv
<1>8. KeylessInv'
  BY <1>1 DEF SubInv, KeylessInv
<1>9. PICK e \in Effect : feed' = Append(feed, e) /\ e.kind = "Cleared" /\ e.to = None
  <2>1. PICK ids \in SUBSET QIds : ids = EntryIds(queues'[main])
    BY <1>5
  <2> DEFINE e == [kind |-> "Cleared", id |-> None, to |-> None, resp |-> "none", ids |-> ids]
  <2>2. feed' = Append(feed, e)
    BY <1>1, <2>1 DEF Committing
  <2>3. e \in Effect /\ e.kind = "Cleared" /\ e.to = None
    BY DEF Effect, Outcome
  <2> HIDE DEF e
  <2> QED
    BY <2>2, <2>3
<1>10. EntriesMove(e)
  BY <1>0, <1>1, <1>2, <1>3, <1>4, <1>9 DEF EntriesMove, EffectEnds
<1>11. EffectInv(e)'
  BY <1>9 DEF EffectInv
<1> QED
  BY <1>0, <1>1, <1>3, <1>6, <1>7, <1>8, <1>9, <1>10, <1>11, CommitKeeps

\* A step of the submission system is a command of the state machine or leaves
\* it alone.
LEMMA LogStep ==
    ASSUME TypeOK, QueueInv, SubInv, [SubmissionNext]_subVars
    PROVE  [Next]_vars
<1>0. main \in Branch /\ 0 \in Millis
  BY SubmissionAssumption
<1>1. queues[main] # <<>> => Front \in IssuedIds
  <2> SUFFICES ASSUME queues[main] # <<>> PROVE Front \in IssuedIds
    OBVIOUS
  <2>1. queues[main] \in Seq(QueueEntry) /\ next_queue_id \in Nat /\ QIds \subseteq Nat
    BY QueueFacts
  <2>2. 1 \in 1 .. Len(queues[main]) /\ Head(queues[main]) = queues[main][1]
    BY <2>1
  <2>3. queues[main][1].queue_id \in QIds /\ queues[main][1].queue_id < next_queue_id
    BY <2>2, QueueFacts
  <2>4. Front \in Nat /\ Front < next_queue_id
    BY <2>1, <2>2, <2>3 DEF Front
  <2> QED
    BY <2>1, <2>4 DEF IssuedIds
<1>2. ASSUME NEW s \in Sub, CommitEnqueue(s) PROVE [Next]_vars
  <2>1. req[s].key \in Key \union {None} /\ req[s].body \in Body
    BY RequestTyped DEF SubInv
  <2>2. CASE apply_enqueue_command(main, req[s].key, req[s].body)
    BY <1>0, <2>1, <2>2 DEF Next
  <2> QED
    BY <1>2, <2>2 DEF CommitEnqueue
<1>3. CASE CommitApplyHead
  <2>1. PICK c \in Commit : apply_head(main, Front, c, 0)
    BY <1>3 DEF CommitApplyHead
  <2>2. Front \in IssuedIds
    BY <1>1, <1>3 DEF CommitApplyHead
  <2> HIDE DEF Front
  <2> QED
    BY <1>0, <2>1, <2>2 DEF Next
<1>4. CASE CommitPoison
  <2>1. Front \in IssuedIds /\ apply_poison_queue_entry(main, Front, 0)
    BY <1>1, <1>4 DEF CommitPoison
  <2> QED
    BY <1>0, <2>1 DEF Next
<1>5. CASE CommitClear
  <2>1. CASE retract_ledger(main, 0)
    BY <1>0, <2>1 DEF Next
  <2>2. CASE \E snapshot \in Snapshot : reset_head(main, snapshot, 0)
    BY <1>0, <2>2 DEF Next
  <2> QED
    BY <1>5, <2>1, <2>2 DEF CommitClear
<1>6. ASSUME NEW s \in Sub, arm(s) \/ TaskStep(s) \/ Fatal(s) \/ Cancel(s) PROVE UNCHANGED vars
  BY <1>6 DEF arm, TaskStep, Propose, ForwardToLeader, Respond, wait, Fatal, Cancel
<1>7. ASSUME NEW c \in Cid, ReleaseTask(c) PROVE UNCHANGED vars
  BY <1>7 DEF ReleaseTask
<1>8. CASE ApplyStep \/ install_snapshot \/ ChangeRole
  BY <1>8 DEF ApplyStep, ApplyNext, bind_take, bind_insert, resolve_with, Published,
              install_snapshot, ChangeRole
<1>9. CASE UNCHANGED subVars
  BY <1>9 DEF subVars
<1> QED
  BY <1>2, <1>3, <1>4, <1>5, <1>6, <1>7, <1>8, <1>9 DEF SubmissionNext

\* Every commit keeps the invariant.
LEMMA CommitStepKeeps ==
    ASSUME TypeOK, QueueInv, SubInv, TypeOK', QueueInv',
           \/ \E s \in Sub : CommitEnqueue(s)
           \/ CommitApplyHead \/ CommitPoison \/ CommitClear
    PROVE  SubInv'
<1>0. main \in Branch
  BY SubmissionAssumption
<1>1. CASE CommitApplyHead
  <2>1. PICK c \in Commit : apply_head(main, Front, c, 0)
    BY <1>1 DEF CommitApplyHead
  <2>2. queues[main] # <<>> /\ recently_cleared[main] = None
    BY <1>0, <1>1 DEF CommitApplyHead, QueueInv, MarkerOnlyWhenIdle
  <2>3. HeadResponse(main, Front, c) # "QueueCleared"
    BY <2>2 DEF HeadResponse, FrontCheck
  <2>4. PopFront(main, "Applied", c, 0)
    BY <2>1, <2>3 DEF apply_head
  <2> QED
    BY <1>1, <2>2, <2>4, PopKeeps DEF CommitApplyHead
<1>2. CASE CommitPoison
  <2>1. queues[main] # <<>> /\ recently_cleared[main] = None
    BY <1>0, <1>2 DEF CommitPoison, QueueInv, MarkerOnlyWhenIdle
  <2>2. FrontCheck(main, Front) # "QueueCleared"
    BY <2>1 DEF FrontCheck
  <2>3. PopFront(main, "Failed", None, 0)
    BY <1>2, <2>2 DEF CommitPoison, apply_poison_queue_entry
  <2> QED
    BY <1>2, <2>1, <2>3, PopKeeps DEF CommitPoison
<1> QED
  BY <1>1, <1>2, CommitEnqueueKeeps, ClearKeeps

-----------------------------------------------------------------------------
(* The node's apply path: the log shrinks by the effect that is published. *)

\* Steps that touch neither the log nor the tickets.
LEMMA QuietKeeps ==
    ASSUME SubInv,
           UNCHANGED <<vars, req, sub, pend, feed, interests, waiters, binding, owner, ended>>,
           nApplied' \in nApplied .. Len(feed), view' \subseteq QIds, store' \subseteq Cid,
           toRelease' \subseteq Cid, role' \in {"leader", "follower", "lost"},
           subFaults' \in 0 .. MaxSubFaults
    PROVE  SubInv'
<1>1. Alike' = Alike
  BY AlikeStable
<1>2. Fate' = Fate
  BY <1>1 DEF Fate
<1>3. nApplied \in 0 .. Len(feed) /\ Len(feed) \in Nat
  BY DEF SubInv, SubmissionTypeOK
<1>4. SubmissionTypeOK'
  BY <1>3 DEF SubInv, SubmissionTypeOK
<1>5. EntryInv' /\ RecordInv' /\ KeylessInv' /\ OrderInv'
  BY DEF SubInv, EntryInv, RecordInv, KeylessInv, OrderInv, Awaited, Ends, EntryIds, vars
<1>6. FeedInv' /\ HeardInv'
  BY <1>1, <1>2 DEF SubInv, FeedInv, EffectInv, HeardInv, Heard, Told
<1>7. TicketInv'
  BY <1>1, <1>3 DEF SubInv, TicketInv, InterestInv, BindingInv, WaiterInv, ChannelInv, Unbound
<1> QED
  BY <1>4, <1>5, <1>6, <1>7 DEF SubInv

LEMMA TakeKeeps ==
    ASSUME SubInv, bind_take
    PROVE  SubInv'
<1>0. /\ interests \in [Cid -> Sub \union {None}] /\ None \notin Sub /\ nApplied > 0
      /\ binding = None
      /\ UNCHANGED <<vars, req, role, sub, pend, feed, nApplied, view, waiters, store, toRelease,
                     owner, ended, subFaults>>
  BY SubmissionAssumption DEF SubInv, SubmissionTypeOK, bind_take
<1>1. PICK e \in Effect : e = Head(feed) /\ EffectInv(e)
  BY <1>0, HeadEffect
<1>2. e.kind = "bind" /\ e.to \in Sub /\ req[e.to].cid \in Cid
  <2>1. e.kind = "bind"
    BY <1>1 DEF bind_take, Armed
  <2>2. e.to \in Sub
    BY <1>1, <2>1 DEF EffectInv, Effect
  <2> QED
    BY <2>1, <2>2, RequestTyped DEF SubInv
<1>3. PICK b \in Sub : b = interests[req[e.to].cid]
  BY <1>0, <1>1, <1>2 DEF bind_take, Armed
<1>4. binding' = b /\ interests' = [interests EXCEPT ![req[e.to].cid] = None]
  BY <1>1, <1>2, <1>3 DEF bind_take, Armed
<1>5. req[b].cid = req[e.to].cid /\ Unbound(b)
  BY <1>0, <1>2, <1>3 DEF SubInv, TicketInv, InterestInv
<1>6. Alike' = Alike
  BY <1>0, AlikeStable
<1>7. Fate' = Fate
  BY <1>0, <1>6 DEF Fate
<1>8. SubmissionTypeOK'
  BY <1>0, <1>4 DEF SubInv, SubmissionTypeOK
<1>9. EntryInv' /\ RecordInv' /\ KeylessInv' /\ OrderInv'
  BY <1>0 DEF SubInv, EntryInv, RecordInv, KeylessInv, OrderInv, Awaited, Ends, EntryIds, vars
<1>10. FeedInv' /\ HeardInv'
  BY <1>0, <1>6, <1>7 DEF SubInv, FeedInv, EffectInv, HeardInv, Heard, Told
<1>11. InterestInv' /\ WaiterInv'
  BY <1>0, <1>4, <1>6 DEF SubInv, TicketInv, InterestInv, WaiterInv, Unbound
<1>12. BindingInv'
  BY <1>0, <1>1, <1>2, <1>4, <1>5 DEF BindingInv, Unbound
<1>13. ChannelInv'
  <2> SUFFICES ASSUME NEW u \in Sub, sub[u].chan = "open", sub[u].pc \notin {"new", "done"}
               PROVE  \/ interests'[req[u].cid] = u
                      \/ b = u
                      \/ sub[u].bound # None /\ waiters[sub[u].bound] = u
    BY <1>0, <1>4 DEF ChannelInv, SubInv, TicketInv
  <2>1. \/ interests[req[u].cid] = u
        \/ sub[u].bound # None /\ waiters[sub[u].bound] = u
    BY <1>0 DEF SubInv, TicketInv, ChannelInv
  <2>2. req[u].cid \in Cid
    BY RequestTyped DEF SubInv
  <2> QED
    BY <1>0, <1>3, <1>4, <2>1, <2>2
<1> QED
  BY <1>8, <1>9, <1>10, <1>11, <1>12, <1>13 DEF SubInv, TicketInv

\* Publishing the first effect keeps the order of the others.
LEMMA OrderShrinks ==
    ASSUME SubInv, feed # <<>>, feed' = Tail(feed), UNCHANGED <<next_queue_id, ended>>,
           \A i \in QIds : waiters'[i] # None => \/ Awaited(i, 1)
                                                 \/ waiters[i] # None /\ ~Ends(1, i)
    PROVE  OrderInv'
<1>0. feed \in Seq(Effect) /\ Len(feed) \in Nat
  BY DEF SubInv, SubmissionTypeOK
<1>1. PICK n \in Nat : n + 1 = Len(feed)
  BY <1>0
<1>2. Len(feed') = n /\ \A k \in 1 .. n : k + 1 \in 1 .. n + 1 /\ feed'[k] = feed[k + 1]
  BY <1>0, <1>1
<1>3. \A k \in 1 .. n, i \in QIds : Ends(k, i)' = Ends(k + 1, i)
  BY <1>2 DEF Ends
<1> SUFFICES ASSUME NEW i \in QIds, NEW p \in 0 .. n, Awaited(i, p)'
             PROVE  /\ \/ i < next_queue_id /\ ended[i] = "no"
                       \/ \E k \in p + 1 .. n : Ends(k, i)'
                    /\ \A k \in p + 1 .. n :
                          feed'[k].kind = "Cleared" /\ (\A l \in p + 1 .. k - 1 : ~Ends(l, i)')
                             => ended[i] = "cleared"
  BY <1>2 DEF OrderInv
<1>4. PICK o \in 0 .. n + 1 : Awaited(i, o) /\ (o = p + 1 \/ (p = 0 /\ o = 0 /\ ~Ends(1, i)))
  <2>1. CASE p = 0
    <3>1. Awaited(i, 1) \/ (waiters[i] # None /\ ~Ends(1, i))
      BY <2>1 DEF Awaited
    <3>2. waiters[i] # None => Awaited(i, 0)
      BY DEF Awaited
    <3>3. 0 \in 0 .. n + 1 /\ 1 \in 0 .. n + 1
      OBVIOUS
    <3> QED
      BY <2>1, <3>1, <3>2, <3>3
  <2>2. CASE p # 0
    <3>1. feed[p + 1].kind = "bind" /\ feed[p + 1].id = i
      BY <1>2, <2>2 DEF Awaited
    <3>2. Awaited(i, p + 1)
      BY <3>1 DEF Awaited
    <3> QED
      BY <3>2
  <2> QED
    BY <2>1, <2>2
<1>5. /\ \/ i < next_queue_id /\ ended[i] = "no"
         \/ \E k \in o + 1 .. n + 1 : Ends(k, i)
      /\ \A k \in o + 1 .. n + 1 :
            feed[k].kind = "Cleared" /\ (\A l \in o + 1 .. k - 1 : ~Ends(l, i)) => ended[i] = "cleared"
  BY <1>1, <1>4 DEF SubInv, OrderInv
<1>6. ASSUME NEW k \in o + 1 .. n + 1, Ends(k, i)
      PROVE  \E j \in p + 1 .. n : Ends(j, i)'
  <2>1. k # 1 \/ o # 0
    BY <1>4, <1>6
  <2>2. k - 1 \in p + 1 .. n /\ k - 1 \in 1 .. n /\ (k - 1) + 1 = k
    BY <1>4, <2>1
  <2>3. Ends(k - 1, i)' = Ends(k, i)
    BY <1>3, <2>2
  <2> QED
    BY <1>6, <2>2, <2>3
<1>7. ASSUME NEW k \in p + 1 .. n, feed'[k].kind = "Cleared",
             \A l \in p + 1 .. k - 1 : ~Ends(l, i)'
      PROVE  ended[i] = "cleared"
  <2>1. k + 1 \in o + 1 .. n + 1 /\ feed[k + 1].kind = "Cleared"
    BY <1>2, <1>4, <1>7
  <2>2. ASSUME NEW l \in o + 1 .. (k + 1) - 1 PROVE ~Ends(l, i)
    <3>1. CASE l = 1 /\ o = 0
      BY <1>4, <3>1
    <3>2. CASE ~(l = 1 /\ o = 0)
      <4>1. l - 1 \in p + 1 .. k - 1 /\ l - 1 \in 1 .. n /\ (l - 1) + 1 = l
        BY <1>4, <3>2
      <4>2. Ends(l - 1, i)' = Ends(l, i)
        BY <1>3, <4>1
      <4> QED
        BY <1>7, <4>1, <4>2
    <3> QED
      BY <3>1, <3>2
  <2> QED
    BY <1>5, <2>1, <2>2
<1> QED
  BY <1>5, <1>6, <1>7

\* What publishing leaves alone.
LEMMA PublishedFacts ==
    ASSUME SubInv, nApplied > 0, Published,
           \A u \in Sub : sub[u].pc # "new" => sub'[u].pc # "new",
           \A u \in Sub : sub'[u].pc \in {"new", "propose"} => sub[u].pc = sub'[u].pc
    PROVE  /\ Alike' = Alike /\ Fate' = Fate /\ EntryInv' /\ RecordInv' /\ KeylessInv' /\ FeedInv'
           /\ feed' \in Seq(Effect) /\ nApplied' \in 0 .. Len(feed')
<1>0. UNCHANGED <<vars, req, role, pend, view, store, toRelease, owner, ended, subFaults>>
      /\ feed' = Tail(feed) /\ nApplied' = nApplied - 1
  BY DEF Published
<1>1. Alike' = Alike
  BY <1>0, AlikeStable
<1>2. Fate' = Fate
  BY <1>0, <1>1 DEF Fate
<1>3. EntryInv' /\ RecordInv' /\ KeylessInv'
  BY <1>0 DEF SubInv, EntryInv, RecordInv, KeylessInv, EntryIds, vars
<1>4. feed \in Seq(Effect) /\ feed # <<>> /\ nApplied \in 0 .. Len(feed) /\ Len(feed) \in Nat
  BY HeadEffect DEF SubInv, SubmissionTypeOK
<1>5. PICK n \in Nat : n + 1 = Len(feed)
  BY <1>4
<1>6. /\ Len(feed') = n /\ feed' \in Seq(Effect)
      /\ \A k \in 1 .. n : k + 1 \in 1 .. n + 1 /\ feed'[k] = feed[k + 1]
  BY <1>0, <1>4, <1>5
<1>7. ASSUME NEW k \in 1 .. n
      PROVE  EffectInv(feed[k])'
  <2>1. PICK f \in Effect : f = feed[k + 1]
    BY <1>4, <1>5, <1>6
  <2>2. EffectInv(f) /\ f.to \in Sub \union {None}
    BY <1>5, <1>6, <2>1 DEF SubInv, FeedInv, Effect
  <2>3. EffectInv(f)'
    BY <1>0, <1>1, <1>2, <2>2 DEF EffectInv, Told
  <2>4. feed'[k] = f
    BY <1>6, <2>1
  <2> QED
    BY <2>3, <2>4 DEF EffectInv, Told
<1>8. FeedInv'
  BY <1>6, <1>7 DEF FeedInv
<1> QED
  BY <1>0, <1>1, <1>2, <1>3, <1>4, <1>5, <1>6, <1>8

\* The response of e returns to its submission, in a state f of the tasks.
LEMMA AnsweredFacts ==
    ASSUME NEW f \in [Sub -> Submission], NEW e \in Effect
    PROVE  /\ Answered(f, e) \in [Sub -> Submission]
           /\ \A u \in Sub :
                 /\ Answered(f, e)[u].bound = f[u].bound /\ Answered(f, e)[u].chan = f[u].chan
                 /\ Answered(f, e)[u].result = f[u].result
                 /\ IF u = e.to /\ u # None /\ f[u].pc = "proposed"
                    THEN Answered(f, e)[u].pc = "answered" /\ Answered(f, e)[u].resp = e.resp
                    ELSE Answered(f, e)[u].pc = f[u].pc /\ Answered(f, e)[u].resp = f[u].resp
<1>1. CASE e.to # None /\ f[e.to].pc = "proposed"
  <2>1. PICK t \in Sub : t = e.to
    BY <1>1 DEF Effect
  <2>2. PICK r \in {"none", "Enqueued", "InFlight"} \union Refusal : r = e.resp
    BY DEF Effect
  <2> DEFINE x == [f[t] EXCEPT !.pc = "answered", !.resp = r]
  <2>3. f[t] \in Submission
    OBVIOUS
  <2>4. /\ x \in Submission /\ x.pc = "answered" /\ x.resp = r /\ x.bound = f[t].bound
        /\ x.chan = f[t].chan /\ x.result = f[t].result
    BY <2>3 DEF Submission
  <2>5. Answered(f, e) = [f EXCEPT ![t] = x]
    BY <1>1, <2>1, <2>2 DEF Answered
  <2> HIDE DEF x
  <2>6. ASSUME NEW u \in Sub
        PROVE  /\ Answered(f, e)[u].bound = f[u].bound /\ Answered(f, e)[u].chan = f[u].chan
               /\ Answered(f, e)[u].result = f[u].result
               /\ IF u = e.to /\ u # None /\ f[u].pc = "proposed"
                  THEN Answered(f, e)[u].pc = "answered" /\ Answered(f, e)[u].resp = e.resp
                  ELSE Answered(f, e)[u].pc = f[u].pc /\ Answered(f, e)[u].resp = f[u].resp
    <3>1. CASE u = t
      <4>1. Answered(f, e)[u] = x
        BY <2>5, <3>1
      <4> QED
        BY <1>1, <2>1, <2>2, <2>4, <3>1, <4>1
    <3>2. CASE u # t
      <4>1. Answered(f, e)[u] = f[u]
        BY <2>5, <3>2
      <4> QED
        BY <2>1, <3>2, <4>1
    <3> QED
      BY <3>1, <3>2
  <2>7. Answered(f, e) \in [Sub -> Submission]
    BY <2>4, <2>5
  <2> QED
    BY <2>6, <2>7
<1>2. CASE ~(e.to # None /\ f[e.to].pc = "proposed")
  <2>1. Answered(f, e) = f
    BY <1>2 DEF Answered
  <2> QED
    BY <1>2, <2>1
<1> QED
  BY <1>1, <1>2

LEMMA InsertKeeps ==
    ASSUME SubInv, bind_insert
    PROVE  SubInv'
<1>0. /\ sub \in [Sub -> Submission] /\ waiters \in [QIds -> Sub \union {None}]
      /\ interests \in [Cid -> Sub \union {None}]
      /\ None \notin Sub /\ None \notin QIds /\ Published /\ interests' = interests /\ binding' = None
  BY SubmissionAssumption DEF SubInv, SubmissionTypeOK, bind_insert, QIds
<1>1. PICK b \in Sub : b = binding
  BY DEF SubInv, SubmissionTypeOK, bind_insert
<1>2. /\ nApplied > 0 /\ Head(feed).kind = "bind" /\ req[b].cid = req[Head(feed).to].cid
      /\ interests[req[b].cid] \notin {b, Head(feed).to}
      /\ Unbound(b) \/ sub[b].pc = "done"
  BY <1>0, <1>1 DEF SubInv, TicketInv, BindingInv
<1>3. PICK e \in Effect : e = Head(feed) /\ e = feed[1] /\ EffectInv(e) /\ feed # <<>>
  BY <1>2, HeadEffect
<1>4. /\ e.kind = "bind" /\ e.to \in Sub /\ e.resp \in {"Enqueued", "InFlight"}
      /\ owner[e.id] # None /\ <<e.to, owner[e.id]>> \in Alike
  BY <1>2, <1>3 DEF EffectInv, Effect
<1>5. PICK d \in QIds : d = e.id
  BY <1>2, <1>3 DEF EffectInv, Effect
<1>6. PICK w \in Sub \union {None} : w = waiters[d]
  BY <1>0
<1>7. waiters' = [waiters EXCEPT ![d] = b]
  BY <1>1, <1>3, <1>5 DEF bind_insert
<1> DEFINE g == Send(sub, w, "closed")
           id == IF sub[b].pc = "done" THEN None ELSE d
           h == [g EXCEPT ![b].bound = id]
<1>8. sub' = Answered(h, e)
  BY <1>1, <1>3, <1>5, <1>6 DEF bind_insert
<1>9. /\ g \in [Sub -> Submission]
      /\ \A u \in Sub :
            /\ g[u].pc = sub[u].pc /\ g[u].bound = sub[u].bound /\ g[u].resp = sub[u].resp
            /\ g[u].result = sub[u].result
            /\ g[u].chan = IF u = w /\ sub[u].chan = "open" THEN "closed" ELSE sub[u].chan
  <2>1. CASE w # None /\ sub[w].chan = "open"
    <3> DEFINE x == [sub[w] EXCEPT !.chan = "closed"]
    <3>1. w \in Sub /\ sub[w] \in Submission
      BY <1>0, <2>1
    <3>2. /\ x \in Submission /\ x.pc = sub[w].pc /\ x.bound = sub[w].bound /\ x.resp = sub[w].resp
          /\ x.result = sub[w].result /\ x.chan = "closed"
      BY <3>1 DEF Submission
    <3>3. g = [sub EXCEPT ![w] = x]
      BY <2>1 DEF Send
    <3> HIDE DEF x, g
    <3>4. g \in [Sub -> Submission] /\ g[w] = x /\ \A u \in Sub : u # w => g[u] = sub[u]
      BY <1>0, <3>1, <3>2, <3>3
    <3> QED
      BY <2>1, <3>2, <3>4
  <2>2. CASE ~(w # None /\ sub[w].chan = "open")
    <3>1. g = sub
      BY <2>2 DEF Send
    <3> QED
      BY <1>0, <2>2, <3>1
  <2> QED
    BY <2>1, <2>2
<1>10. id \in QIds \union {None}
  OBVIOUS
<1> HIDE DEF g, id
<1>11. /\ h \in [Sub -> Submission]
       /\ \A u \in Sub :
             /\ h[u].pc = g[u].pc /\ h[u].chan = g[u].chan /\ h[u].resp = g[u].resp
             /\ h[u].result = g[u].result /\ h[u].bound = IF u = b THEN id ELSE g[u].bound
  <2> DEFINE x == [g[b] EXCEPT !.bound = id]
  <2>1. g[b] \in Submission
    BY <1>9
  <2>2. /\ x \in Submission /\ x.pc = g[b].pc /\ x.chan = g[b].chan /\ x.resp = g[b].resp
        /\ x.result = g[b].result /\ x.bound = id
    BY <1>10, <2>1 DEF Submission
  <2>3. h = [g EXCEPT ![b] = x]
    OBVIOUS
  <2> HIDE DEF x, h
  <2>4. h \in [Sub -> Submission] /\ h[b] = x /\ \A u \in Sub : u # b => h[u] = g[u]
    BY <1>9, <2>2, <2>3
  <2> QED
    BY <2>2, <2>4
<1> HIDE DEF h
<1>12. sub' \in [Sub -> Submission]
  BY <1>8, <1>11, AnsweredFacts
<1>13. ASSUME NEW u \in Sub
       PROVE  /\ sub'[u].bound = IF u = b THEN id ELSE sub[u].bound
              /\ sub'[u].chan = IF u = w /\ sub[u].chan = "open" THEN "closed" ELSE sub[u].chan
              /\ sub'[u].result = sub[u].result
              /\ IF u = e.to /\ sub[u].pc = "proposed"
                 THEN sub'[u].pc = "answered" /\ sub'[u].resp = e.resp
                 ELSE sub'[u].pc = sub[u].pc /\ sub'[u].resp = sub[u].resp
  BY <1>0, <1>8, <1>9, <1>11, AnsweredFacts
<1>14. \A u \in Sub : /\ sub[u].pc # "new" => sub'[u].pc # "new"
                      /\ sub'[u].pc \in {"new", "propose", "done"} => sub[u].pc = sub'[u].pc
                      /\ sub[u].pc = "done" => sub'[u].pc = "done"
  BY <1>13
<1>15. /\ Alike' = Alike /\ Fate' = Fate /\ EntryInv' /\ RecordInv' /\ KeylessInv' /\ FeedInv'
       /\ feed' \in Seq(Effect) /\ nApplied' \in 0 .. Len(feed')
  BY <1>0, <1>2, <1>14, PublishedFacts
<1>16. /\ UNCHANGED <<vars, req, role, pend, view, store, toRelease, owner, ended, subFaults>>
       /\ feed' = Tail(feed)
  BY <1>0 DEF Published
<1>17. SubmissionTypeOK'
  BY <1>0, <1>7, <1>12, <1>15, <1>16 DEF SubInv, SubmissionTypeOK
<1>18. OrderInv'
  <2>1. ASSUME NEW i \in QIds, waiters'[i] # None
        PROVE  Awaited(i, 1) \/ (waiters[i] # None /\ ~Ends(1, i))
    <3>1. CASE i = d
      BY <1>3, <1>4, <1>5, <3>1 DEF Awaited
    <3>2. CASE i # d
      <4>1. waiters'[i] = waiters[i]
        BY <1>0, <1>7, <3>2
      <4> QED
        BY <1>3, <1>4, <2>1, <4>1 DEF Ends
    <3> QED
      BY <3>1, <3>2
  <2> QED
    BY <1>3, <1>16, <2>1, OrderShrinks DEF vars
<1>19. sub[b].pc # "new" /\ (sub[b].pc = "done" \/ sub[b].bound = None)
  BY <1>2 DEF Unbound
<1>20. InterestInv'
  <2> SUFFICES ASSUME NEW c \in Cid, interests[c] # None
               PROVE  req[interests[c]].cid = c /\ Unbound(interests[c])'
    BY <1>0, <1>16 DEF InterestInv, Unbound
  <2>1. PICK u \in Sub : u = interests[c]
    BY <1>0
  <2>2. req[u].cid = c /\ Unbound(u)
    BY <2>1 DEF SubInv, TicketInv, InterestInv
  <2>3. u # b /\ u # e.to
    BY <1>2, <1>3, <2>1, <2>2
  <2>4. sub'[u].bound = sub[u].bound /\ sub'[u].pc = sub[u].pc /\ sub'[u].resp = sub[u].resp
    BY <1>13, <2>3
  <2> QED
    BY <1>0, <2>1, <2>2, <2>4 DEF Unbound
<1>21. BindingInv'
  BY <1>0 DEF BindingInv
<1>22. WaiterInv'
  <2> SUFFICES ASSUME NEW i \in QIds, waiters'[i] # None
               PROVE  /\ owner[i] # None /\ <<waiters'[i], owner[i]>> \in Alike
                      /\ sub'[waiters'[i]].bound = i \/ sub'[waiters'[i]].pc = "done"
    BY <1>15, <1>16 DEF WaiterInv
  <2>1. CASE i = d
    <3>1. waiters'[i] = b
      BY <1>0, <1>7, <2>1
    <3>2. <<b, owner[d]>> \in Alike
      <4>1. owner[d] \in Sub
        BY <1>4, <1>5 DEF Alike
      <4> QED
        BY <1>2, <1>3, <1>4, <1>5, <4>1, AlikeFacts
    <3>3. sub'[b].bound = d \/ sub'[b].pc = "done"
      BY <1>13, <1>14 DEF id
    <3> QED
      BY <1>4, <1>5, <2>1, <3>1, <3>2, <3>3
  <2>2. CASE i # d
    <3>1. waiters'[i] = waiters[i]
      BY <1>0, <1>7, <2>2
    <3>2. PICK u \in Sub : u = waiters[i]
      BY <1>0, <3>1
    <3>3. owner[i] # None /\ <<u, owner[i]>> \in Alike /\ (sub[u].bound = i \/ sub[u].pc = "done")
      BY <3>1, <3>2 DEF SubInv, TicketInv, WaiterInv
    <3>4. sub'[u].bound = i \/ sub'[u].pc = "done"
      <4>1. CASE u = b
        BY <1>0, <1>14, <1>19, <3>3, <4>1
      <4>2. CASE u # b
        BY <1>13, <1>14, <3>3, <4>2
      <4> QED
        BY <4>1, <4>2
    <3> QED
      BY <3>1, <3>2, <3>3, <3>4
  <2> QED
    BY <2>1, <2>2
<1>23. ChannelInv'
  <2> SUFFICES ASSUME NEW u \in Sub
               PROVE  /\ sub'[u].pc = "new" => sub'[u].bound = None /\ sub'[u].chan = "open" /\ u \notin pend
                      /\ sub'[u].chan = "open" /\ sub'[u].pc \notin {"new", "done"} =>
                            \/ interests[req[u].cid] = u
                            \/ sub'[u].bound # None /\ waiters'[sub'[u].bound] = u
    BY <1>0, <1>16 DEF ChannelInv
  <2>1. w # None => sub[w].bound = d \/ sub[w].pc = "done"
    BY <1>6 DEF SubInv, TicketInv, WaiterInv
  <2>2. sub'[u].pc = "new" => sub'[u].bound = None /\ sub'[u].chan = "open" /\ u \notin pend
    <3> SUFFICES ASSUME sub[u].pc = "new"
                 PROVE  sub'[u].bound = None /\ sub'[u].chan = "open" /\ u \notin pend
      BY <1>14
    <3>1. sub[u].bound = None /\ sub[u].chan = "open" /\ u \notin pend
      BY DEF SubInv, TicketInv, ChannelInv
    <3>2. u # b /\ u # w
      BY <1>0, <1>19, <2>1, <3>1
    <3> QED
      BY <1>13, <3>1, <3>2
  <2>3. ASSUME sub'[u].chan = "open", sub'[u].pc \notin {"new", "done"}
        PROVE  \/ interests[req[u].cid] = u
               \/ sub'[u].bound # None /\ waiters'[sub'[u].bound] = u
    <3>1. sub[u].chan = "open" /\ u # w /\ sub[u].pc \notin {"new", "done"}
      BY <1>13, <2>3
    <3>2. \/ interests[req[u].cid] = u
          \/ b = u
          \/ sub[u].bound # None /\ waiters[sub[u].bound] = u
      BY <1>1, <3>1 DEF SubInv, TicketInv, ChannelInv
    <3>3. CASE b = u
      <4>1. sub'[u].bound = d /\ waiters'[d] = u
        BY <1>0, <1>7, <1>13, <3>1, <3>3 DEF id
      <4> QED
        BY <1>0, <4>1
    <3>4. CASE sub[u].bound # None /\ waiters[sub[u].bound] = u
      <4>1. u # b /\ sub[u].bound \in QIds
        BY <1>0, <1>19, <3>1, <3>4 DEF Submission
      <4>2. sub[u].bound # d
        BY <1>6, <3>1, <3>4
      <4>3. sub'[u].bound = sub[u].bound /\ waiters'[sub[u].bound] = u
        BY <1>0, <1>7, <1>13, <3>4, <4>1, <4>2
      <4> QED
        BY <3>4, <4>3
    <3> QED
      BY <3>2, <3>3, <3>4
  <2> QED
    BY <2>2, <2>3
<1>24. HeardInv'
  <2> SUFFICES ASSUME NEW u \in Sub
               PROVE  Heard(u)'
    BY DEF HeardInv
  <2>1. Heard(u)
    BY DEF SubInv, HeardInv
  <2>2. sub'[u].chan \in {sub[u].chan, "closed"} /\ sub'[u].result = sub[u].result
    BY <1>13
  <2>3. sub'[u].pc = "answered" => \/ sub[u].pc = "answered" /\ sub'[u].resp = sub[u].resp
                                   \/ sub'[u].resp \in {"Enqueued", "InFlight"}
    BY <1>4, <1>13
  <2> QED
    BY <1>15, <2>1, <2>2, <2>3 DEF Heard, Told
<1> QED
  BY <1>15, <1>17, <1>18, <1>20, <1>21, <1>22, <1>23, <1>24 DEF SubInv, TicketInv

LEMMA ResolveKeeps ==
    ASSUME SubInv, resolve_with
    PROVE  SubInv'
<1>0. /\ sub \in [Sub -> Submission] /\ waiters \in [QIds -> Sub \union {None}]
      /\ interests \in [Cid -> Sub \union {None}]
      /\ None \notin Sub /\ None \notin QIds /\ Published /\ interests' = interests
      /\ binding = None /\ binding' = None /\ nApplied > 0
  BY SubmissionAssumption DEF SubInv, SubmissionTypeOK, resolve_with, QIds
<1>1. PICK e \in Effect : e = Head(feed) /\ e = feed[1] /\ EffectInv(e) /\ feed # <<>>
  BY <1>0, HeadEffect
<1>2. /\ Armed(e) = None /\ e.to \in Sub \union {None} /\ e.kind \in {"bind", "none"} \union Outcome
  BY <1>1 DEF resolve_with, Effect
<1> DEFINE Hit(u) == \E i \in Resolved(e) : waiters[i] = u /\ sub[u].chan = "open"
           h == [u \in Sub |-> IF Hit(u) THEN [sub[u] EXCEPT !.chan = e.kind] ELSE sub[u]]
<1>3. /\ waiters' = [i \in QIds |-> IF i \in Resolved(e) THEN None ELSE waiters[i]]
      /\ sub' = Answered(h, e)
  BY <1>1 DEF resolve_with
<1>4. Resolved(e) # {} => e.kind \in {"Applied", "Poisoned", "Cleared"}
  BY <1>1 DEF Resolved, EffectInv, Outcome
<1>5. Resolved(e) \subseteq QIds
  BY <1>1, <1>4 DEF Resolved, EffectInv, Effect
<1> HIDE DEF Hit
<1>6. \A u \in Sub : Hit(u) => e.kind \in Outcome
  BY <1>4 DEF Hit, Outcome
<1>7. /\ h \in [Sub -> Submission]
      /\ \A u \in Sub :
            /\ h[u].pc = sub[u].pc /\ h[u].bound = sub[u].bound /\ h[u].resp = sub[u].resp
            /\ h[u].result = sub[u].result /\ h[u].chan = IF Hit(u) THEN e.kind ELSE sub[u].chan
  <2>1. ASSUME NEW u \in Sub
        PROVE  /\ h[u] \in Submission
               /\ h[u].pc = sub[u].pc /\ h[u].bound = sub[u].bound /\ h[u].resp = sub[u].resp
               /\ h[u].result = sub[u].result /\ h[u].chan = IF Hit(u) THEN e.kind ELSE sub[u].chan
    <3>1. sub[u] \in Submission
      BY <1>0
    <3>2. CASE Hit(u)
      <4> DEFINE x == [sub[u] EXCEPT !.chan = e.kind]
      <4>1. h[u] = x
        BY <3>2
      <4>2. e.kind \in Outcome
        BY <1>6, <3>2
      <4>3. /\ x \in Submission /\ x.pc = sub[u].pc /\ x.bound = sub[u].bound
            /\ x.resp = sub[u].resp /\ x.result = sub[u].result /\ x.chan = e.kind
        BY <3>1, <4>2 DEF Submission
      <4> HIDE DEF x, h
      <4> QED
        BY <3>2, <4>1, <4>3
    <3>3. CASE ~Hit(u)
      <4>1. h[u] = sub[u]
        BY <3>3
      <4> HIDE DEF h
      <4> QED
        BY <3>1, <3>3, <4>1
    <3> QED
      BY <3>2, <3>3
  <2>2. h = [u \in Sub |-> h[u]]
    OBVIOUS
  <2> HIDE DEF h
  <2>3. h \in [Sub -> Submission]
    BY <2>1, <2>2
  <2> QED
    BY <2>1, <2>3
<1> HIDE DEF h
<1>8. sub' \in [Sub -> Submission]
  BY <1>3, <1>7, AnsweredFacts
<1>9. ASSUME NEW u \in Sub
      PROVE  /\ sub'[u].bound = sub[u].bound
             /\ sub'[u].chan = IF Hit(u) THEN e.kind ELSE sub[u].chan
             /\ sub'[u].result = sub[u].result
             /\ IF u = e.to /\ sub[u].pc = "proposed"
                THEN sub'[u].pc = "answered" /\ sub'[u].resp = e.resp
                ELSE sub'[u].pc = sub[u].pc /\ sub'[u].resp = sub[u].resp
  BY <1>0, <1>3, <1>7, AnsweredFacts
<1>10. \A u \in Sub : /\ sub[u].pc # "new" => sub'[u].pc # "new"
                      /\ sub'[u].pc \in {"new", "propose", "done"} => sub[u].pc = sub'[u].pc
                      /\ sub[u].pc = "done" => sub'[u].pc = "done"
  BY <1>9
<1>11. /\ Alike' = Alike /\ Fate' = Fate /\ EntryInv' /\ RecordInv' /\ KeylessInv' /\ FeedInv'
       /\ feed' \in Seq(Effect) /\ nApplied' \in 0 .. Len(feed')
  BY <1>0, <1>10, PublishedFacts
<1>12. /\ UNCHANGED <<vars, req, role, pend, view, store, toRelease, owner, ended, subFaults>>
       /\ feed' = Tail(feed)
  BY <1>0 DEF Published
<1>13. \A i \in QIds : waiters'[i] # None => waiters'[i] = waiters[i] /\ i \notin Resolved(e)
  BY <1>3
<1>14. SubmissionTypeOK'
  <2>1. waiters' \in [QIds -> Sub \union {None}]
    BY <1>0, <1>3
  <2> QED
    BY <1>0, <1>8, <1>11, <1>12, <2>1 DEF SubInv, SubmissionTypeOK
<1>15. OrderInv'
  <2>1. ASSUME NEW i \in QIds, waiters'[i] # None
        PROVE  waiters[i] # None /\ ~Ends(1, i)
    <3>1. waiters[i] # None /\ i \notin Resolved(e)
      BY <1>13, <2>1
    <3>2. ~Ends(1, i)
      BY <1>1, <3>1 DEF Ends, Resolved, Outcome
    <3> QED
      BY <3>1, <3>2
  <2> QED
    BY <1>1, <1>12, <2>1, OrderShrinks DEF vars
<1>16. InterestInv'
  <2> SUFFICES ASSUME NEW c \in Cid, interests[c] # None
               PROVE  req[interests[c]].cid = c /\ Unbound(interests[c])'
    BY <1>0, <1>12 DEF InterestInv, Unbound
  <2>1. PICK u \in Sub : u = interests[c]
    BY <1>0
  <2>2. req[u].cid = c /\ Unbound(u)
    BY <2>1 DEF SubInv, TicketInv, InterestInv
  <2>3. u = e.to => e.resp \in Refusal
    <3>1. u = e.to => e.kind = "none"
      BY <1>0, <1>1, <1>2, <2>1, <2>2 DEF EffectInv, Armed
    <3> QED
      BY <1>1, <3>1 DEF EffectInv
  <2>4. /\ sub'[u].bound = None
        /\ \/ sub'[u].pc \in {"propose", "proposed"}
           \/ sub'[u].pc = "answered" /\ sub'[u].resp \in Refusal
    BY <1>9, <2>2, <2>3 DEF Unbound
  <2> QED
    BY <1>0, <2>1, <2>2, <2>4 DEF Unbound
<1>17. BindingInv'
  BY <1>0 DEF BindingInv
<1>18. WaiterInv'
  <2> SUFFICES ASSUME NEW i \in QIds, waiters'[i] # None
               PROVE  /\ owner[i] # None /\ <<waiters'[i], owner[i]>> \in Alike
                      /\ sub'[waiters'[i]].bound = i \/ sub'[waiters'[i]].pc = "done"
    BY <1>11, <1>12 DEF WaiterInv
  <2>1. waiters'[i] = waiters[i]
    BY <1>13
  <2>2. PICK u \in Sub : u = waiters[i]
    BY <1>0, <2>1
  <2>3. owner[i] # None /\ <<u, owner[i]>> \in Alike /\ (sub[u].bound = i \/ sub[u].pc = "done")
    BY <2>1, <2>2 DEF SubInv, TicketInv, WaiterInv
  <2> QED
    BY <1>9, <1>10, <2>1, <2>2, <2>3
<1>19. ChannelInv'
  <2> SUFFICES ASSUME NEW u \in Sub
               PROVE  /\ sub'[u].pc = "new" => sub'[u].bound = None /\ sub'[u].chan = "open" /\ u \notin pend
                      /\ sub'[u].chan = "open" /\ sub'[u].pc \notin {"new", "done"} =>
                            \/ interests[req[u].cid] = u
                            \/ sub'[u].bound # None /\ waiters'[sub'[u].bound] = u
    BY <1>0, <1>12 DEF ChannelInv
  <2>1. sub'[u].pc = "new" => sub'[u].bound = None /\ sub'[u].chan = "open" /\ u \notin pend
    <3> SUFFICES ASSUME sub[u].pc = "new"
                 PROVE  sub'[u].bound = None /\ sub'[u].chan = "open" /\ u \notin pend
      BY <1>10
    <3>1. sub[u].bound = None /\ sub[u].chan = "open" /\ u \notin pend
      BY DEF SubInv, TicketInv, ChannelInv
    <3>2. ~Hit(u)
      <4>1. ASSUME NEW i \in Resolved(e), waiters[i] = u PROVE FALSE
        BY <1>0, <1>5, <3>1, <4>1 DEF SubInv, TicketInv, WaiterInv
      <4> QED
        BY <4>1 DEF Hit
    <3> QED
      BY <1>9, <3>1, <3>2
  <2>2. ASSUME sub'[u].chan = "open", sub'[u].pc \notin {"new", "done"}
        PROVE  \/ interests[req[u].cid] = u
               \/ sub'[u].bound # None /\ waiters'[sub'[u].bound] = u
    <3>1. sub[u].pc \notin {"new", "done"}
      BY <1>9, <2>2
    <3>2. ~Hit(u) /\ sub[u].chan = "open"
      <4>1. Hit(u) => e.kind # "open"
        BY <1>6 DEF Outcome
      <4> QED
        BY <1>9, <2>2, <4>1
    <3>3. \/ interests[req[u].cid] = u
          \/ sub[u].bound # None /\ waiters[sub[u].bound] = u
      BY <1>0, <3>1, <3>2 DEF SubInv, TicketInv, ChannelInv
    <3>4. CASE sub[u].bound # None /\ waiters[sub[u].bound] = u
      <4>1. sub[u].bound \in QIds
        BY <1>0, <3>4 DEF Submission
      <4>2. sub[u].bound \notin Resolved(e)
        BY <3>2, <3>4 DEF Hit
      <4> QED
        BY <1>3, <1>9, <3>4, <4>1, <4>2
    <3> QED
      BY <3>3, <3>4
  <2> QED
    BY <2>1, <2>2
<1>20. HeardInv'
  <2> SUFFICES ASSUME NEW u \in Sub
               PROVE  Heard(u)'
    BY DEF HeardInv
  <2>1. Heard(u)
    BY DEF SubInv, HeardInv
  <2>2. Hit(u) => Told(u, e.kind)
    <3> SUFFICES ASSUME NEW i \in Resolved(e), waiters[i] = u PROVE Told(u, e.kind)
      BY DEF Hit
    <3>1. i \in QIds
      BY <1>5
    <3>2. ended[i] \in Fate[u]
      BY <1>0, <3>1, FateOf DEF SubInv, TicketInv, WaiterInv
    <3>3. e.kind = "Applied" => ended[i] = "applied"
      BY <1>1 DEF Resolved, EffectInv, Outcome
    <3>4. e.kind = "Poisoned" => ended[i] = "poisoned"
      BY <1>1 DEF Resolved, EffectInv, Outcome
    <3>5. e.kind = "Cleared" => ended[i] = "cleared"
      <4> SUFFICES ASSUME e.kind = "Cleared" PROVE ended[i] = "cleared"
        OBVIOUS
      <4>1. Len(feed) \in Nat /\ 0 \in 0 .. Len(feed) /\ 1 \in 0 + 1 .. Len(feed)
        BY <1>0, HeadEffect DEF SubInv, SubmissionTypeOK
      <4>2. Awaited(i, 0)
        BY <1>0 DEF Awaited
      <4>3. \A l \in 0 + 1 .. 1 - 1 : ~Ends(l, i)
        OBVIOUS
      <4>4. \A k \in 0 + 1 .. Len(feed) :
               feed[k].kind = "Cleared" /\ (\A l \in 0 + 1 .. k - 1 : ~Ends(l, i)) => ended[i] = "cleared"
        BY <3>1, <4>1, <4>2 DEF SubInv, OrderInv
      <4> QED
        BY <1>1, <4>1, <4>3, <4>4
    <3> QED
      BY <1>4, <3>2, <3>3, <3>4, <3>5 DEF Told
  <2>3. /\ sub'[u].result = sub[u].result
        /\ sub'[u].chan = sub[u].chan \/ Told(u, sub'[u].chan)
    BY <1>9, <2>2
  <2>4. sub'[u].pc = "answered" =>
           /\ sub'[u].resp \in {"Enqueued", "InFlight"} \union Refusal
           /\ sub'[u].resp \in {"Enqueued", "InFlight"} \/ Told(u, sub'[u].resp)
    <3>1. CASE u = e.to /\ sub[u].pc = "proposed"
      <4>1. e.kind \in {"bind", "none"}
        BY <1>0, <1>1, <1>2, <3>1 DEF EffectInv
      <4>2. \/ e.resp \in {"Enqueued", "InFlight"}
            \/ e.resp \in Refusal /\ Told(e.to, e.resp)
        BY <1>1, <4>1 DEF EffectInv
      <4> QED
        BY <1>9, <3>1, <4>2
    <3>2. CASE ~(u = e.to /\ sub[u].pc = "proposed")
      BY <1>9, <2>1, <3>2 DEF Heard
    <3> QED
      BY <3>1, <3>2
  <2> QED
    BY <1>11, <2>1, <2>3, <2>4 DEF Heard, Told
<1> QED
  BY <1>11, <1>14, <1>15, <1>16, <1>17, <1>18, <1>19, <1>20 DEF SubInv, TicketInv

LEMMA InstallKeeps ==
    ASSUME TypeOK, QueueInv, SubInv, install_snapshot
    PROVE  SubInv'
<1>0. /\ sub \in [Sub -> Submission] /\ waiters \in [QIds -> Sub \union {None}]
      /\ interests \in [Cid -> Sub \union {None}] /\ None \notin Sub /\ None \notin QIds
      /\ UNCHANGED <<vars, req, role, pend, nApplied, binding, store, toRelease, owner, ended>>
      /\ nApplied = 0 /\ binding = None /\ feed' = <<>>
      /\ interests' = [c \in Cid |-> None] /\ waiters' = [i \in QIds |-> None]
      /\ subFaults' \in 0 .. MaxSubFaults /\ view' \subseteq QIds
  <2>1. EntryIds(queues[main]) \subseteq QIds
    BY QueueFacts DEF EntryIds
  <2> QED
    BY <2>1, SubmissionAssumption DEF SubInv, SubmissionTypeOK, install_snapshot, Occurs, QIds
<1> DEFINE skipped == {feed[i].to : i \in DOMAIN feed}
           held == {interests[c] : c \in Cid} \union {waiters[i] : i \in QIds}
           Lost(u) == u \in skipped /\ sub[u].pc = "proposed"
           Hit(u) == u \in held /\ sub[u].chan = "open"
<1>1. sub' = [u \in Sub |-> IF Lost(u) THEN Over("Unknown")
                            ELSE [s \in Sub |-> IF Hit(s) THEN [sub[s] EXCEPT !.chan = "SnapshotInstalled"]
                                                ELSE sub[s]][u]]
  BY DEF install_snapshot
<1>2. \A u \in Sub : interests[req[u].cid] = u => u \in held
  BY RequestTyped DEF SubInv
<1>3. \A u \in Sub, i \in QIds : waiters[i] = u => u \in held
  OBVIOUS
<1>4. \A u \in Sub : u \in held => sub[u].pc # "new"
  <2>1. ASSUME NEW c \in Cid, NEW u \in Sub, interests[c] = u PROVE sub[u].pc # "new"
    BY <1>0, <2>1 DEF SubInv, TicketInv, InterestInv, Unbound
  <2>2. ASSUME NEW i \in QIds, NEW u \in Sub, waiters[i] = u PROVE sub[u].pc # "new"
    BY <1>0, <2>2 DEF SubInv, TicketInv, WaiterInv, ChannelInv
  <2> QED
    BY <2>1, <2>2
<1> HIDE DEF held, skipped
<1>5. ASSUME NEW u \in Sub
      PROVE  \/ sub'[u] = Over("Unknown") /\ sub[u].pc = "proposed"
             \/ sub'[u] = [sub[u] EXCEPT !.chan = "SnapshotInstalled"] /\ Hit(u)
             \/ sub'[u] = sub[u] /\ ~Hit(u)
  <2>1. sub'[u] = IF Lost(u) THEN Over("Unknown")
                  ELSE IF Hit(u) THEN [sub[u] EXCEPT !.chan = "SnapshotInstalled"] ELSE sub[u]
    BY <1>1
  <2> QED
    BY <2>1
<1>6. ASSUME NEW u \in Sub
      PROVE  /\ sub'[u] \in Submission
             /\ sub'[u].pc = sub[u].pc \/ (sub'[u].pc = "done" /\ sub[u].pc = "proposed")
             /\ sub'[u].pc # "done" => sub'[u].bound = sub[u].bound /\ sub'[u].resp = sub[u].resp
             /\ sub'[u].result \in {sub[u].result, "Unknown"}
             /\ sub'[u].chan \in {sub[u].chan, "SnapshotInstalled", "closed"}
             /\ sub'[u].chan = "open" => sub[u].chan = "open" /\ u \notin held
             /\ sub[u].pc = "new" => sub'[u] = sub[u]
             /\ sub[u].pc = "answered" => sub'[u].resp = sub[u].resp
  <2>1. sub[u] \in Submission
    BY <1>0
  <2>2. CASE sub'[u] = Over("Unknown") /\ sub[u].pc = "proposed"
    <3>1. /\ Over("Unknown") \in Submission /\ Over("Unknown").pc = "done"
          /\ Over("Unknown").chan = "closed" /\ Over("Unknown").result = "Unknown"
      BY SubmissionAssumption DEF Over, Submission
    <3> QED
      BY <2>2, <3>1
  <2>3. CASE sub'[u] = [sub[u] EXCEPT !.chan = "SnapshotInstalled"] /\ Hit(u)
    <3> DEFINE x == [sub[u] EXCEPT !.chan = "SnapshotInstalled"]
    <3>1. /\ x \in Submission /\ x.pc = sub[u].pc /\ x.bound = sub[u].bound /\ x.resp = sub[u].resp
          /\ x.result = sub[u].result /\ x.chan = "SnapshotInstalled"
      BY <2>1 DEF Submission, Outcome
    <3>2. sub'[u] = x
      BY <2>3
    <3> HIDE DEF x
    <3> QED
      BY <1>4, <2>3, <3>1, <3>2
  <2>4. CASE sub'[u] = sub[u] /\ ~Hit(u)
    BY <2>1, <2>4
  <2> QED
    BY <1>5, <2>2, <2>3, <2>4
<1>7. Alike' = Alike
  BY <1>0, AlikeStable
<1>8. Fate' = Fate
  BY <1>0, <1>7 DEF Fate
<1>9. SubmissionTypeOK'
  <2>1. sub' = [u \in Sub |-> sub'[u]]
    BY <1>1
  <2>2. sub' \in [Sub -> Submission]
    BY <1>6, <2>1
  <2>3. feed' \in Seq(Effect) /\ nApplied' \in 0 .. Len(feed')
    BY <1>0
  <2>4. interests' \in [Cid -> Sub \union {None}] /\ waiters' \in [QIds -> Sub \union {None}]
    BY <1>0
  <2> QED
    BY <1>0, <2>2, <2>3, <2>4 DEF SubInv, SubmissionTypeOK
<1>10. EntryInv' /\ RecordInv'
  BY <1>0 DEF SubInv, EntryInv, RecordInv, EntryIds, vars
<1>11. KeylessInv'
  <2>1. \A u \in Sub : sub'[u].pc \in {"new", "propose"} => sub[u].pc = sub'[u].pc
    BY <1>6
  <2> QED
    BY <1>0, <2>1 DEF SubInv, KeylessInv
<1>12. FeedInv' /\ OrderInv'
  <2>1. Len(feed') = 0 /\ \A i \in QIds : waiters'[i] = None
    BY <1>0
  <2>2. ASSUME NEW i \in QIds, NEW p \in 0 .. Len(feed') PROVE ~Awaited(i, p)'
    BY <2>1 DEF Awaited
  <2> QED
    BY <2>1, <2>2 DEF FeedInv, OrderInv
<1>13. InterestInv' /\ BindingInv' /\ WaiterInv'
  BY <1>0 DEF InterestInv, BindingInv, WaiterInv
<1>14. ChannelInv'
  <2> SUFFICES ASSUME NEW u \in Sub
               PROVE  /\ sub'[u].pc = "new" => sub'[u].bound = None /\ sub'[u].chan = "open" /\ u \notin pend
                      /\ ~(sub'[u].chan = "open" /\ sub'[u].pc \notin {"new", "done"})
    BY <1>0 DEF ChannelInv
  <2>1. sub'[u].pc = "new" => sub'[u].bound = None /\ sub'[u].chan = "open" /\ u \notin pend
    BY <1>6 DEF SubInv, TicketInv, ChannelInv
  <2>2. ~(sub'[u].chan = "open" /\ sub'[u].pc \notin {"new", "done"})
    <3> SUFFICES ASSUME sub'[u].chan = "open", sub'[u].pc \notin {"new", "done"} PROVE FALSE
      OBVIOUS
    <3>1. sub[u].chan = "open" /\ u \notin held /\ sub[u].pc \notin {"new", "done"}
      BY <1>6
    <3>2. sub[u].bound # None => sub[u].bound \in QIds
      BY <1>0 DEF Submission
    <3> QED
      BY <1>0, <1>2, <1>3, <3>1, <3>2 DEF SubInv, TicketInv, ChannelInv
  <2> QED
    BY <2>1, <2>2
<1>15. HeardInv'
  <2> SUFFICES ASSUME NEW u \in Sub
               PROVE  Heard(u)'
    BY DEF HeardInv
  <2>1. Heard(u)
    BY DEF SubInv, HeardInv
  <2>2. /\ sub'[u].result \in {sub[u].result, "Unknown"}
        /\ sub'[u].chan \in {sub[u].chan, "SnapshotInstalled", "closed"}
        /\ sub'[u].pc = "answered" => sub[u].pc = "answered" /\ sub'[u].resp = sub[u].resp
    BY <1>6
  <2> QED
    BY <1>8, <2>1, <2>2 DEF Heard, Told
<1> QED
  BY <1>9, <1>10, <1>11, <1>12, <1>13, <1>14, <1>15 DEF SubInv, TicketInv

-----------------------------------------------------------------------------
(* The theorems.                                                           *)

\* What every step keeps, with the invariants of the state machine.
ClusterInv == TypeOK /\ QueueInv /\ SubInv

LEMMA ClusterInit == SubmissionInit => ClusterInv
<1> SUFFICES ASSUME SubmissionInit PROVE ClusterInv
  OBVIOUS
<1>0. main \in Branch /\ None \notin Sub /\ None \notin QIds /\ MaxSubFaults \in Nat /\ MaxQueueId \in Nat
      /\ MaxRetries \in Nat \ {0}
  BY SubmissionAssumption, ConstantsAssumption DEF QIds
<1>1. TypeOK
  <2>1. queues \in [Branch -> Seq(QueueEntry)]
    BY DEF SubmissionInit
  <2>2. released \in [0 .. MaxQueueId - 1 -> Nat]
    BY DEF SubmissionInit, QIds
  <2>3. next_queue_id \in 0 .. MaxQueueId
    BY <1>0 DEF SubmissionInit
  <2> QED
    BY <1>0, <2>1, <2>2, <2>3 DEF SubmissionInit, TypeOK
<1>2. QueueInv
  <2>1. \A b \in Branch : queues[b] = <<>> /\ recently_cleared[b] = None
    BY DEF SubmissionInit
  <2> QED
    BY <2>1 DEF QueueInv, MarkerOnlyWhenIdle, QueueIdsOrdered, KeyLiveOnce
<1>3. SubmissionTypeOK
  <2> DEFINE x == [pc |-> "new", attempt |-> 1, bound |-> None, chan |-> "open",
                   resp |-> "none", result |-> "none"]
  <2>1. x \in Submission
    BY <1>0 DEF Submission
  <2>2. sub = [s \in Sub |-> x]
    BY DEF SubmissionInit
  <2> HIDE DEF x
  <2>3. sub \in [Sub -> Submission]
    BY <2>1, <2>2
  <2>4. feed \in Seq(Effect) /\ nApplied \in 0 .. Len(feed)
    BY DEF SubmissionInit
  <2> QED
    BY <1>0, <2>3, <2>4 DEF SubmissionInit, SubmissionTypeOK
<1>4. \A s \in Sub : /\ sub[s].pc = "new" /\ sub[s].bound = None /\ sub[s].chan = "open"
                     /\ sub[s].result = "none"
  BY DEF SubmissionInit
<1>5. queues[main] = <<>> /\ feed = <<>> /\ next_queue_id = 0 /\ \A i \in QIds : i \in Nat
  BY <1>0 DEF SubmissionInit, QIds
<1>6. EntryInv
  BY <1>5 DEF EntryInv, SubmissionInit, EntryIds
<1>7. RecordInv /\ KeylessInv
  BY <1>0 DEF SubmissionInit, RecordInv, KeylessInv
<1>8. FeedInv /\ OrderInv
  <2>1. Len(feed) = 0 /\ \A i \in QIds : waiters[i] = None
    BY <1>5 DEF SubmissionInit
  <2> QED
    BY <2>1 DEF FeedInv, OrderInv, Awaited
<1>9. TicketInv
  BY <1>4 DEF SubmissionInit, TicketInv, InterestInv, BindingInv, WaiterInv, ChannelInv
<1>10. HeardInv
  BY <1>4 DEF HeardInv, Heard, Told
<1> QED
  BY <1>1, <1>2, <1>3, <1>6, <1>7, <1>8, <1>9, <1>10 DEF ClusterInv, SubInv

LEMMA ClusterStep == ClusterInv /\ [SubmissionNext]_subVars => ClusterInv'
<1> SUFFICES ASSUME TypeOK, QueueInv, SubInv, [SubmissionNext]_subVars
             PROVE  ClusterInv'
  BY DEF ClusterInv
<1>1. TypeOK' /\ QueueInv'
  BY LogStep, TypeStep, QueueInvStep
<1>2. /\ nApplied \in 0 .. Len(feed) /\ Len(feed) \in Nat /\ view \subseteq QIds
      /\ store \subseteq Cid /\ toRelease \subseteq Cid /\ role \in {"leader", "follower", "lost"}
      /\ subFaults \in 0 .. MaxSubFaults /\ MaxSubFaults \in Nat /\ feed \in Seq(Effect)
  BY SubmissionAssumption DEF SubInv, SubmissionTypeOK
<1>3. ASSUME NEW s \in Sub, arm(s) \/ TaskStep(s) \/ Fatal(s) \/ Cancel(s) PROVE SubInv'
  BY <1>3, TaskKeeps
<1>4. ASSUME (\E s \in Sub : CommitEnqueue(s)) \/ CommitApplyHead \/ CommitPoison \/ CommitClear PROVE SubInv'
  BY <1>1, <1>4, CommitStepKeeps
<1>5. ASSUME NEW c \in Cid, ReleaseTask(c) PROVE SubInv'
  BY <1>2, <1>5, QuietKeeps DEF ReleaseTask
<1>6. ASSUME ApplyNext PROVE SubInv'
  <2>1. nApplied + 1 \in 1 .. Len(feed) /\ nApplied' = nApplied + 1
    BY <1>2, <1>6 DEF ApplyNext
  <2>2. feed[nApplied + 1] \in Effect
    BY <1>2, <2>1
  <2>3. view' \subseteq QIds
    BY <1>6, <2>1, <2>2 DEF ApplyNext, Effect
  <2> QED
    BY <1>2, <1>6, <2>1, <2>3, QuietKeeps DEF ApplyNext
<1>7. ASSUME ChangeRole PROVE SubInv'
  BY <1>2, <1>7, QuietKeeps DEF ChangeRole, Occurs
<1>8. ASSUME UNCHANGED subVars PROVE SubInv'
  BY <1>2, <1>8, QuietKeeps DEF subVars, submissionVars
<1>9. ASSUME bind_take \/ bind_insert \/ resolve_with \/ install_snapshot PROVE SubInv'
  BY <1>9, TakeKeeps, InsertKeeps, ResolveKeeps, InstallKeeps
<1>10. SubInv'
  BY <1>3, <1>4, <1>5, <1>6, <1>7, <1>8, <1>9 DEF SubmissionNext, ApplyStep
<1> QED
  BY <1>1, <1>10 DEF ClusterInv

\* The inductive invariant holds throughout, and with it the types and the
\* queue invariants of the state machine under the submissions of a node.
THEOREM SubmissionInvariant == SubmissionSpec => []ClusterInv
BY ClusterInit, ClusterStep, PTL DEF SubmissionSpec

\* What a client is told happened to an entry that carries its request or one
\* with its envelope (submit_and_await).
THEOREM OutcomesTrue == SubmissionSpec => []OutcomeIsTrue
<1>1. ClusterInv => OutcomeIsTrue
  <2> SUFFICES ASSUME SubInv, NEW s \in Sub
               PROVE  LET Happened(how) ==
                              \E i \in QIds : owner[i] # None /\ Same(s, owner[i]) /\ ended[i] = how IN
                      /\ sub[s].result \in {"Applied", "IdempotencyHit"} => Happened("applied")
                      /\ sub[s].result \in {"Poisoned", "IdempotencyFailed"} => Happened("poisoned")
                      /\ sub[s].result = "Cleared" => Happened("cleared")
    BY DEF ClusterInv, OutcomeIsTrue
  <2>1. \A how \in Fate[s] : \E i \in QIds : owner[i] # None /\ Same(s, owner[i]) /\ ended[i] = how
    BY DEF Fate, Alike
  <2>2. Told(s, sub[s].result)
    BY DEF SubInv, HeardInv, Heard
  <2> QED
    BY <2>1, <2>2 DEF Told
<1> QED
  BY <1>1, SubmissionInvariant, PTL

\* A parked submission holds the waiter of its entry, and the end of that
\* entry is still to be published (WaiterMap's arm, bind and resolve).
THEOREM NoOutcomeLost == SubmissionSpec => []NoLostOutcome
<1>1. ClusterInv => NoLostOutcome
  <2> SUFFICES ASSUME SubInv PROVE NoLostOutcome
    BY DEF ClusterInv
  <2>1. ASSUME NEW s \in Sub, sub[s].pc \in {"park", "grace"}, sub[s].chan = "open"
        PROVE  sub[s].bound # None /\ waiters[sub[s].bound] = s
    <3>1. ~Unbound(s)
      BY <2>1 DEF Unbound
    <3>2. None \notin Sub /\ req[s].cid \in Cid
      BY SubmissionAssumption, RequestTyped DEF SubInv
    <3>3. interests[req[s].cid] # s
      BY <3>1, <3>2 DEF SubInv, TicketInv, InterestInv
    <3>4. binding # s
      BY <2>1, <3>1, <3>2 DEF SubInv, TicketInv, BindingInv
    <3> QED
      BY <2>1, <3>3, <3>4 DEF SubInv, TicketInv, ChannelInv
  <2>2. ASSUME NEW i \in QIds, waiters[i] # None
        PROVE  i \in EntryIds(queues[main]) \/ EndPending(i)
    <3>1. feed \in Seq(Effect) /\ Len(feed) \in Nat /\ DOMAIN feed = 1 .. Len(feed)
      BY DEF SubInv, SubmissionTypeOK
    <3>2. Awaited(i, 0) /\ 0 \in 0 .. Len(feed)
      BY <2>2, <3>1 DEF Awaited
    <3>3. \/ i < next_queue_id /\ ended[i] = "no"
          \/ \E k \in 0 + 1 .. Len(feed) : Ends(k, i)
      BY <3>2 DEF SubInv, OrderInv
    <3>4. CASE \E k \in 0 + 1 .. Len(feed) : Ends(k, i)
      BY <3>1, <3>4 DEF Ends, EndPending, Outcome
    <3> QED
      BY <3>3, <3>4 DEF SubInv, EntryInv
  <2> QED
    BY <2>1, <2>2 DEF NoLostOutcome
<1> QED
  BY <1>1, SubmissionInvariant, PTL

\* No retry applies a request twice (attempts_allowed, the dedup checks of
\* apply_enqueue_command).
THEOREM AppliedOnce == SubmissionSpec => []RequestAppliedOnce
<1>1. ClusterInv => RequestAppliedOnce
  <2> SUFFICES ASSUME SubInv, NEW i \in QIds, NEW j \in QIds,
                      ended[i] = "applied", ended[j] = "applied", i # j
               PROVE  /\ owner[i] # owner[j]
                      /\ req[owner[i]].key # None => req[owner[i]].key # req[owner[j]].key
    BY DEF ClusterInv, RequestAppliedOnce
  <2>1. owner[i] \in Sub /\ owner[j] \in Sub
    BY DEF SubInv, EntryInv, SubmissionTypeOK
  <2>2. req[owner[i]].key # None => req[owner[i]].key # req[owner[j]].key
    BY DEF SubInv, RecordInv
  <2>3. req[owner[i]].key = None => owner[i] # owner[j]
    BY <2>1 DEF SubInv, KeylessInv
  <2> QED
    BY <2>2, <2>3
<1> QED
  BY <1>1, SubmissionInvariant, PTL
=============================================================================
