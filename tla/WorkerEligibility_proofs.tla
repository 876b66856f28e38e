---------------------- MODULE WorkerEligibility_proofs ----------------------
(***************************************************************************)
(* Safety theorems of WorkerEligibility, for any set of nodes, thresholds  *)
(* and number of faults.                                                   *)
(***************************************************************************)
EXTENDS WorkerEligibility, TLAPS

-----------------------------------------------------------------------------
(* What the monitor's operators do to a tracker.                           *)

LEMMA ZeroTimer == \A n \in Nat : 0 \in Timer(n) /\ None \in Timer(n)
BY DEF Timer

LEMMA AgedTimer ==
    ASSUME NEW n \in Nat, NEW timer \in Timer(n)
    PROVE  Aged(timer, n) \in Timer(n)
BY EligibilityAssumption DEF Timer, Aged

LEMMA AgedTrackers ==
    ASSUME NEW t \in PeerTracker
    PROVE  /\ AgedTracker(t) \in PeerTracker \union {None}
           /\ t # None => AgedTracker(t) \in PeerTracker
                          /\ AgedTracker(t).last_proposed = t.last_proposed
<1>1. /\ Aged(t.unreachable_since, UnreachableAfter) \in Timer(UnreachableAfter)
      /\ Aged(t.recovering_since, LiveAfter) \in Timer(LiveAfter)
      /\ Aged(t.last_refused, RefusalBackoff) \in Timer(RefusalBackoff)
  BY AgedTimer, EligibilityAssumption DEF PeerTracker
<1> QED
  BY <1>1 DEF PeerTracker, AgedTracker

LEMMA SeededTracker ==
    ASSUME NEW m, NEW p
    PROVE  /\ Seeded(m, p) \in PeerTracker
           /\ Seeded(m, p).last_proposed = IF p \in m.eligible THEN None ELSE "Demote"
BY ZeroTimer, EligibilityAssumption DEF Seeded, PeerTracker

LEMMA RecordedTracker ==
    ASSUME NEW m, NEW t \in PeerTracker, NEW p
    PROVE  /\ Recorded(m, t, p) \in PeerTracker
           /\ Recorded(m, t, p).last_proposed = t.last_proposed
<1> DEFINE advanced == p \in m.acked /\ (~t.observed \/ p \in m.moved)
           seen == [t EXCEPT !.observed = @ \/ advanced]
           us == IF seen.unreachable_since = None THEN 0 ELSE seen.unreachable_since
           rs == IF t.last_proposed = "Demote" /\ seen.recovering_since = None THEN 0
                 ELSE seen.recovering_since
           up == [seen EXCEPT !.unreachable_since = None, !.recovering_since = rs]
           down == [seen EXCEPT !.unreachable_since = us, !.recovering_since = None]
<1>1. seen \in PeerTracker /\ seen.last_proposed = t.last_proposed
  BY DEF PeerTracker
<1>2. Recorded(m, t, p) \in {up, down}
  BY DEF Recorded
<1> HIDE DEF seen
<1>3. us \in Timer(UnreachableAfter) /\ rs \in Timer(LiveAfter)
      /\ None \in Timer(UnreachableAfter) /\ None \in Timer(LiveAfter)
  BY <1>1, ZeroTimer, EligibilityAssumption DEF PeerTracker
<1> HIDE DEF us, rs
<1>4. /\ up \in PeerTracker /\ up.last_proposed = seen.last_proposed
      /\ down \in PeerTracker /\ down.last_proposed = seen.last_proposed
  BY <1>1, <1>3 DEF PeerTracker
<1> QED
  BY <1>1, <1>2, <1>4

-----------------------------------------------------------------------------
(* What a scan does.                                                       *)

\* The hysteresis of peer p as tick m finds it.
Expected(m, trackers, p) ==
    IF trackers[p] = None THEN Seeded(m, p).last_proposed ELSE trackers[p].last_proposed

\* A scan from tick m with these trackers records the peers it reaches without
\* touching their hysteresis, and ends asleep or with a proposal for one of them.
Scanned(m, trackers) ==
    /\ tracker' \in [Node -> PeerTracker \union {None}]
    /\ mon' \in Tick
    /\ \A p \in Node :
          \/ tracker'[p] \in {trackers[p], None}
          \/ p \in m.todo /\ tracker'[p].last_proposed = Expected(m, trackers, p)
    /\ \/ mon' = Asleep /\ lag' = lag
       \/ /\ lag' = Behind
          /\ mon'.todo \subseteq m.todo
          /\ mon'.eligible = m.eligible /\ mon'.configured = m.configured
          /\ mon'.cmd \in Proposal /\ mon'.cmd.voter \in m.todo \ mon'.todo
          /\ tracker'[mon'.cmd.voter] \in PeerTracker
          /\ \A p \in mon'.todo : tracker'[p] = trackers[p]

LEMMA AsleepTick == Asleep \in Tick
BY EligibilityAssumption DEF Asleep, Tick, LagRange

LEMMA ScanFacts ==
    ASSUME NEW m \in Tick, NEW trackers \in [Node -> PeerTracker \union {None}],
           ScanPeers(m, trackers)
    PROVE  Scanned(m, trackers)
<1> DEFINE before(p) == IF trackers[p] = None THEN Seeded(m, p) ELSE trackers[p]
           recorded == [p \in m.todo |-> Recorded(m, before(p), p)]
           proposal == [p \in m.todo |-> next_eligibility_proposal(recorded[p])]
           reached == {p \in m.todo : \A q \in m.todo : q < p => proposal[q] = None}
           proposing == {p \in reached : proposal[p] # None}
           scanned == [p \in Node |-> IF p \in reached THEN recorded[p] ELSE trackers[p]]
<1>1. m.todo \subseteq Node
  BY DEF Tick
<1>2. ASSUME NEW p \in m.todo
      PROVE  recorded[p] \in PeerTracker
             /\ recorded[p].last_proposed = Expected(m, trackers, p)
  <2>1. before(p) \in PeerTracker /\ before(p).last_proposed = Expected(m, trackers, p)
    BY <1>1, SeededTracker DEF Expected
  <2> HIDE DEF before
  <2> QED
    BY <2>1, RecordedTracker
<1>3. \/ /\ proposing = {}
         /\ tracker' = [p \in Node |-> IF p \in m.configured THEN scanned[p] ELSE None]
         /\ mon' = Asleep /\ UNCHANGED lag
      \/ \E p \in proposing :
         /\ tracker' = scanned
         /\ mon' = [m EXCEPT !.todo = @ \ reached,
                       !.cmd = [voter |-> p, eligible |-> proposal[p] = "Promote"]]
         /\ lag' = Behind
  BY DEF ScanPeers
<1>4. reached \subseteq m.todo /\ proposing \subseteq reached
  OBVIOUS
<1> HIDE DEF recorded, proposal, reached, proposing
<1>5. /\ scanned \in [Node -> PeerTracker \union {None}]
      /\ \A p \in Node :
            \/ scanned[p] = trackers[p]
            \/ p \in m.todo /\ scanned[p].last_proposed = Expected(m, trackers, p)
      /\ \A p \in reached : scanned[p] \in PeerTracker
      /\ \A p \in Node \ reached : scanned[p] = trackers[p]
  BY <1>1, <1>2, <1>4
<1> HIDE DEF scanned
<1>6. CASE /\ tracker' = [p \in Node |-> IF p \in m.configured THEN scanned[p] ELSE None]
           /\ mon' = Asleep /\ UNCHANGED lag
  <2>1. tracker' \in [Node -> PeerTracker \union {None}]
    BY <1>5, <1>6
  <2>2. \A p \in Node :
          \/ tracker'[p] \in {trackers[p], None}
          \/ p \in m.todo /\ tracker'[p].last_proposed = Expected(m, trackers, p)
    BY <1>5, <1>6
  <2> QED
    BY <1>6, <2>1, <2>2, AsleepTick DEF Scanned
<1>7. ASSUME NEW p \in proposing, tracker' = scanned, lag' = Behind,
             mon' = [m EXCEPT !.todo = @ \ reached,
                       !.cmd = [voter |-> p, eligible |-> proposal[p] = "Promote"]]
      PROVE  Scanned(m, trackers)
  <2> DEFINE cmd == [voter |-> p, eligible |-> proposal[p] = "Promote"]
             todo == m.todo \ reached
             e == [m EXCEPT !.todo = todo, !.cmd = cmd]
  <2>1. cmd \in Proposal /\ cmd.voter = p
    BY <1>1, <1>4 DEF Proposal
  <2>2. mon' = e /\ todo \subseteq m.todo /\ todo \subseteq Node \ reached /\ p \in m.todo \ todo
    BY <1>1, <1>4, <1>7
  <2> HIDE DEF cmd, todo
  <2>3. /\ e \in Tick /\ e.todo = todo /\ e.cmd = cmd
        /\ e.eligible = m.eligible /\ e.configured = m.configured
    BY <1>1, <2>1, <2>2 DEF Tick
  <2> HIDE DEF e
  <2>4. tracker'[p] \in PeerTracker /\ \A q \in todo : tracker'[q] = trackers[q]
    BY <1>4, <1>5, <1>7, <2>2
  <2> QED
    BY <1>5, <1>7, <2>1, <2>2, <2>3, <2>4 DEF Scanned
<1> QED
  BY <1>3, <1>6, <1>7

-----------------------------------------------------------------------------
(* Types.                                                                  *)

\* While a tick awaits its proposal, the proposal is one, and its peer is tracked.
AwaitsProposal ==
    mon # Asleep => mon.cmd \in Proposal /\ tracker[mon.cmd.voter] \in PeerTracker

\* The sample a tick starts from, and the trackers it starts with.
Sample == [todo |-> configured \ {leader}, cmd |-> None, acked |-> acked, moved |-> moved,
           lag |-> lag, configured |-> configured, eligible |-> eligible]

AgedTrackersNow == [p \in Node |-> AgedTracker(tracker[p])]

\* The trackers after the proposal was answered, and after it failed.
AnsweredTrackers ==
    [tracker EXCEPT ![mon.cmd.voter] =
          IF mon.cmd.voter \notin configured THEN [@ EXCEPT !.last_refused = 0]
          ELSE IF mon.cmd.eligible
          THEN [@ EXCEPT !.last_refused = None, !.last_proposed = "Promote", !.recovering_since = None]
          ELSE [@ EXCEPT !.last_refused = None, !.last_proposed = "Demote"]]

FailedTrackers == [tracker EXCEPT ![mon.cmd.voter].last_refused = 0]

LEMMA BehindType ==
    ASSUME lag \in [Node -> LagRange]
    PROVE  Behind \in [Node -> LagRange]
<1> SUFFICES ASSUME NEW p \in Node
             PROVE  (IF p = leader \/ lag[p] > MaxHealthyLag THEN lag[p] ELSE lag[p] + 1)
                       \in LagRange
  BY DEF Behind
<1>1. lag[p] \in 0 .. MaxHealthyLag + 1 /\ MaxHealthyLag \in Nat
  BY EligibilityAssumption DEF LagRange
<1> QED
  BY <1>1 DEF LagRange

LEMMA TickScans ==
    ASSUME EligTypeOK, tick
    PROVE  /\ Scanned(Sample, AgedTrackersNow)
           /\ AgedTrackersNow \in [Node -> PeerTracker \union {None}]
           /\ \A p \in Node : /\ tracker[p] = None => AgedTrackersNow[p] = None
                              /\ tracker[p] # None =>
                                    AgedTrackersNow[p].last_proposed = tracker[p].last_proposed
<1>1. Sample \in Tick
  BY DEF EligTypeOK, Sample, Tick
<1>2. ASSUME NEW p \in Node
      PROVE  /\ AgedTracker(tracker[p]) \in PeerTracker \union {None}
             /\ tracker[p] = None => AgedTracker(tracker[p]) = None
             /\ tracker[p] # None =>
                   AgedTracker(tracker[p]).last_proposed = tracker[p].last_proposed
  <2>1. tracker[p] \in PeerTracker \union {None}
    BY DEF EligTypeOK
  <2>2. AgedTracker(None) = None
    BY DEF AgedTracker
  <2> QED
    BY <2>1, <2>2, AgedTrackers
<1>3. AgedTrackersNow \in [Node -> PeerTracker \union {None}]
  BY <1>2 DEF AgedTrackersNow
<1>4. ScanPeers(Sample, AgedTrackersNow)
  BY DEF tick, Sample, AgedTrackersNow
<1>5. Scanned(Sample, AgedTrackersNow)
  BY <1>1, <1>3, <1>4, ScanFacts
<1> QED
  BY <1>2, <1>3, <1>5 DEF AgedTrackersNow

LEMMA AnswerScans ==
    ASSUME EligTypeOK, AwaitsProposal, propose_eligibility, NEW v, v = mon.cmd.voter
    PROVE  /\ Scanned(mon, AnsweredTrackers)
           /\ v \in Node /\ mon.cmd \in Proposal
           /\ AnsweredTrackers \in [Node -> PeerTracker \union {None}]
           /\ \A p \in Node \ {v} : AnsweredTrackers[p] = tracker[p]
           /\ v \in configured =>
                 AnsweredTrackers[v].last_proposed = IF mon.cmd.eligible THEN "Promote" ELSE "Demote"
<1>1. mon.cmd \in Proposal /\ v \in Node /\ tracker[v] \in PeerTracker
      /\ tracker \in [Node -> PeerTracker \union {None}] /\ mon \in Tick
  BY DEF propose_eligibility, AwaitsProposal, EligTypeOK, Proposal
<1> DEFINE t == tracker[v]
           e == IF v \notin configured THEN [t EXCEPT !.last_refused = 0]
                ELSE IF mon.cmd.eligible
                THEN [t EXCEPT !.last_refused = None, !.last_proposed = "Promote",
                               !.recovering_since = None]
                ELSE [t EXCEPT !.last_refused = None, !.last_proposed = "Demote"]
<1>2. AnsweredTrackers = [tracker EXCEPT ![v] = e]
  BY <1>1 DEF AnsweredTrackers
<1>3. {0, None} \subseteq Timer(RefusalBackoff) /\ None \in Timer(LiveAfter)
  BY ZeroTimer, EligibilityAssumption
<1>4. /\ e \in PeerTracker
      /\ v \in configured => e.last_proposed = IF mon.cmd.eligible THEN "Promote" ELSE "Demote"
  <2> HIDE DEF t
  <2>1. t \in PeerTracker
    BY <1>1 DEF t
  <2>2. CASE v \notin configured
    BY <1>3, <2>1, <2>2 DEF PeerTracker
  <2>3. CASE v \in configured /\ mon.cmd.eligible
    BY <1>3, <2>1, <2>3 DEF PeerTracker
  <2>4. CASE v \in configured /\ ~ mon.cmd.eligible
    BY <1>3, <2>1, <2>4 DEF PeerTracker
  <2> QED
    BY <2>2, <2>3, <2>4
<1> HIDE DEF e
<1>5. /\ AnsweredTrackers \in [Node -> PeerTracker \union {None}]
      /\ \A p \in Node \ {v} : AnsweredTrackers[p] = tracker[p]
      /\ AnsweredTrackers[v] = e
  BY <1>1, <1>2, <1>4
<1>6. ScanPeers(mon, AnsweredTrackers)
  BY DEF propose_eligibility, AnsweredTrackers
<1>7. Scanned(mon, AnsweredTrackers)
  BY <1>1, <1>5, <1>6, ScanFacts
<1> QED
  BY <1>1, <1>4, <1>5, <1>7

LEMMA FailureScans ==
    ASSUME EligTypeOK, AwaitsProposal, ProposeFails
    PROVE  /\ Scanned(mon, FailedTrackers)
           /\ FailedTrackers \in [Node -> PeerTracker \union {None}]
           /\ \A p \in Node : /\ tracker[p] = None => FailedTrackers[p] = None \/ p = mon.cmd.voter
                              /\ p # mon.cmd.voter => FailedTrackers[p] = tracker[p]
                              /\ FailedTrackers[p] # None /\ tracker[p] \in PeerTracker =>
                                    FailedTrackers[p].last_proposed = tracker[p].last_proposed
           /\ mon.cmd \in Proposal /\ mon.cmd.voter \in Node
           /\ tracker[mon.cmd.voter] \in PeerTracker
<1> DEFINE v == mon.cmd.voter
           e == [tracker[v] EXCEPT !.last_refused = 0]
<1>1. mon.cmd \in Proposal /\ v \in Node /\ tracker[v] \in PeerTracker
      /\ tracker \in [Node -> PeerTracker \union {None}] /\ mon \in Tick
  BY DEF ProposeFails, AwaitsProposal, EligTypeOK, Proposal
<1>2. FailedTrackers = [tracker EXCEPT ![v] = e]
  BY <1>1 DEF FailedTrackers
<1>3. e \in PeerTracker /\ e.last_proposed = tracker[v].last_proposed
  BY <1>1, ZeroTimer, EligibilityAssumption DEF PeerTracker
<1> HIDE DEF e
<1>4. /\ FailedTrackers \in [Node -> PeerTracker \union {None}]
      /\ \A p \in Node \ {v} : FailedTrackers[p] = tracker[p]
      /\ FailedTrackers[v] = e
  BY <1>1, <1>2, <1>3
<1>5. ScanPeers(mon, FailedTrackers)
  BY DEF ProposeFails, FailedTrackers
<1>6. Scanned(mon, FailedTrackers)
  BY <1>1, <1>4, <1>5, ScanFacts
<1> QED
  BY <1>1, <1>3, <1>4, <1>6

\* After a scan the tick sleeps or awaits a proposal.
LEMMA ScanTypes ==
    ASSUME NEW m, NEW trackers, Scanned(m, trackers), lag \in [Node -> LagRange]
    PROVE  AwaitsProposal' /\ lag' \in [Node -> LagRange] /\ mon' \in Tick
           /\ tracker' \in [Node -> PeerTracker \union {None}]
<1>1. Asleep' = Asleep
  BY DEF Asleep
<1> QED
  BY <1>1, BehindType DEF Scanned, AwaitsProposal

LEMMA EligTypeStep ==
    ASSUME EligTypeOK, AwaitsProposal, [EligNext]_eligVars
    PROVE  EligTypeOK' /\ AwaitsProposal'
<1> USE DEF EligTypeOK
<1>0. /\ MaxEligFaults \in Nat /\ MaxAppends \in Nat /\ MaxHealthyLag \in Nat
      /\ Asleep' = Asleep /\ Asleep \in Tick
      /\ \A kind : Mishap(kind) => eligFaults' \in 0 .. MaxEligFaults
  BY EligibilityAssumption, AsleepTick DEF Mishap, Asleep
<1>1. CASE tick
  <2>1. /\ AwaitsProposal' /\ lag' \in [Node -> LagRange] /\ mon' \in Tick
        /\ tracker' \in [Node -> PeerTracker \union {None}]
    BY <1>1, TickScans, ScanTypes
  <2>2. eligFaults' \in 0 .. MaxEligFaults
    BY <1>0, <1>1 DEF tick
  <2> QED
    BY <1>1, <2>1, <2>2 DEF tick
<1>2. CASE propose_eligibility
  <2>1. /\ AwaitsProposal' /\ lag' \in [Node -> LagRange] /\ mon' \in Tick
        /\ tracker' \in [Node -> PeerTracker \union {None}]
    BY <1>2, AnswerScans, ScanTypes
  <2>2. eligible' \subseteq configured
    BY <1>2 DEF propose_eligibility, apply_set_worker_eligibility
  <2> QED
    BY <1>2, <2>1, <2>2 DEF propose_eligibility
<1>3. CASE ProposeFails
  <2>1. /\ AwaitsProposal' /\ lag' \in [Node -> LagRange] /\ mon' \in Tick
        /\ tracker' \in [Node -> PeerTracker \union {None}] /\ mon.cmd \in Proposal
    BY <1>3, FailureScans, ScanTypes
  <2>2. eligFaults' \in 0 .. MaxEligFaults /\ orphans' \subseteq Proposal
    BY <1>0, <1>3, <2>1 DEF ProposeFails
  <2> QED
    BY <1>3, <2>1, <2>2 DEF ProposeFails
<1>4. ASSUME UNCHANGED <<mon, tracker>> PROVE AwaitsProposal'
  BY <1>0, <1>4 DEF AwaitsProposal
<1>5. CASE AppendEntry
  BY <1>0, <1>4, <1>5, BehindType DEF AppendEntry
<1>6. ASSUME NEW cmd \in orphans, LandOrphan(cmd) PROVE EligTypeOK' /\ AwaitsProposal'
  <2>1. eligible' \subseteq configured
    BY <1>6 DEF LandOrphan, apply_set_worker_eligibility
  <2> QED
    BY <1>4, <1>6, <2>1 DEF LandOrphan
<1>7. ASSUME NEW p \in Node, Replicate(p) PROVE EligTypeOK' /\ AwaitsProposal'
  <2>1. lag[p] \in LagRange /\ lag[p] \in 0 .. MaxHealthyLag + 1
    BY DEF LagRange
  <2>2. (IF lag[p] = 0 THEN 0 ELSE lag[p] - 1) \in LagRange /\ 0 \in LagRange
    BY <1>0, <2>1 DEF LagRange
  <2>3. lag' \in [Node -> LagRange]
    BY <1>7, <2>2 DEF Replicate
  <2> QED
    BY <1>4, <1>7, <2>3 DEF Replicate
<1>8. ASSUME NEW n \in Node, Crash(n) PROVE EligTypeOK' /\ AwaitsProposal'
  BY <1>0, <1>4, <1>8 DEF Crash
<1>9a. ASSUME NEW n \in Node, Elected(n)
       PROVE  /\ mon' \in Tick /\ tracker' \in [Node -> PeerTracker \union {None}]
              /\ lag' \in [Node -> LagRange] /\ orphans' \subseteq Proposal
              /\ leader' = n /\ acked' = {} /\ moved' = {} /\ AwaitsProposal'
  <2>1. mon' = Asleep /\ tracker' \in [Node -> PeerTracker \union {None}]
    BY <1>9a DEF Elected
  <2>2. lag' \in [Node -> LagRange]
    BY <1>0, <1>9a DEF Elected, LagRange
  <2>3. orphans' \subseteq Proposal
    BY <1>9a DEF Elected, AwaitsProposal
  <2> QED
    BY <1>0, <1>9a, <2>1, <2>2, <2>3 DEF Elected, AwaitsProposal
<1>9. ASSUME NEW n \in Node, Restart(n) PROVE EligTypeOK' /\ AwaitsProposal'
  <2>1. CASE n = leader
    BY <1>9, <1>9a, <2>1 DEF Restart
  <2>2. CASE n # leader
    BY <1>4, <1>9, <2>2 DEF Restart
  <2> QED
    BY <2>1, <2>2
<1>10. ASSUME NEW n \in Node, Elect(n) PROVE EligTypeOK' /\ AwaitsProposal'
  <2>1. eligFaults' \in 0 .. MaxEligFaults
    BY <1>0, <1>10 DEF Elect
  <2> QED
    BY <1>9a, <1>10, <2>1 DEF Elect
<1>11. ASSUME NEW n \in Node, ChangeMembership(n) PROVE EligTypeOK' /\ AwaitsProposal'
  <2>1. configured' \in {configured \ {n}, configured \union {n}}
        /\ eligible' \subseteq configured'
    BY <1>11 DEF ChangeMembership, apply_membership, EligibleAfterChange
  <2>2. leader \in configured'
    BY <1>11, <2>1 DEF ChangeMembership
  <2> QED
    BY <1>0, <1>4, <1>11, <2>1, <2>2, BehindType DEF ChangeMembership
<1>12. CASE UNCHANGED eligVars
  BY <1>4, <1>12 DEF eligVars
<1> QED
  BY <1>1, <1>2, <1>3, <1>5, <1>6, <1>7, <1>8, <1>9, <1>10, <1>11, <1>12
     DEF EligNext, MonitorStep

LEMMA EligTypeInitially == EligInit => EligTypeOK /\ AwaitsProposal
BY AsleepTick, EligibilityAssumption DEF EligInit, EligTypeOK, AwaitsProposal, LagRange

\* Every variable keeps its type; the leader stays a voter and every eligible
\* node is one, through elections and changes of the membership.
THEOREM EligTypeCorrect == EligSpec => []EligTypeOK
<1>1. EligTypeOK /\ AwaitsProposal /\ [EligNext]_eligVars => EligTypeOK' /\ AwaitsProposal'
  BY EligTypeStep
<1> QED
  BY <1>1, EligTypeInitially, PTL DEF EligSpec

-----------------------------------------------------------------------------
(* The hysteresis.                                                         *)

\* The runs' reading of the environment: the entries a new leader inherits are
\* applied before its first tick, no failed proposal lands, and nobody is added
\* back within a tick.
Settled == {"late", "landed", "readd"} \intersect EligFault = {}

\* A tracker agrees with the replicated state, also while a tick is under way.
TrackersAgree ==
    \A p \in configured : tracker[p] # None =>
        (tracker[p].last_proposed = "Demote") = (p \notin eligible)

\* The sample of a tick is as good as new for the voters it has yet to seed a
\* tracker for: what the tick has awaited meanwhile was about others.
SampleAgrees ==
    mon # Asleep =>
        /\ mon.todo \subseteq mon.configured /\ mon.cmd.voter \notin mon.todo
        /\ \A p \in mon.todo \intersect configured :
              tracker[p] = None => (p \in mon.eligible) = (p \in eligible)

\* A monitor that starts over an unanswered proposal has looked at nobody yet.
OrphansPrecede == orphans # {} => mon = Asleep /\ \A p \in Node : tracker[p] = None

HysteresisInv == TrackersAgree /\ SampleAgrees /\ OrphansPrecede

\* What a scan leaves agrees if what it found did.
LEMMA ScanAgrees ==
    ASSUME NEW m \in Tick, NEW trackers \in [Node -> PeerTracker \union {None}],
           Scanned(m, trackers), EligTypeOK, m.todo \subseteq m.configured, configured' = configured,
           \A p \in configured : trackers[p] # None =>
               (trackers[p].last_proposed = "Demote") = (p \notin eligible'),
           \A p \in m.todo \intersect configured : trackers[p] = None =>
               (p \in m.eligible) = (p \in eligible')
    PROVE  TrackersAgree' /\ SampleAgrees'
<1>0. configured \subseteq Node /\ Asleep' = Asleep
  BY DEF EligTypeOK, Asleep
<1>1. ASSUME NEW p \in configured, p \in m.todo
      PROVE  (Expected(m, trackers, p) = "Demote") = (p \notin eligible')
  <2>1. CASE trackers[p] = None
    BY <1>1, <2>1, SeededTracker, EligibilityAssumption DEF Expected
  <2>2. CASE trackers[p] # None
    BY <1>1, <2>2 DEF Expected
  <2> QED
    BY <2>1, <2>2
<1>2. TrackersAgree'
  <2> SUFFICES ASSUME NEW p \in configured, tracker'[p] # None
               PROVE  (tracker'[p].last_proposed = "Demote") = (p \notin eligible')
    BY DEF TrackersAgree
  <2>1. CASE tracker'[p] = trackers[p]
    BY <2>1
  <2>2. CASE p \in m.todo /\ tracker'[p].last_proposed = Expected(m, trackers, p)
    BY <1>1, <2>2
  <2> QED
    BY <1>0, <2>1, <2>2 DEF Scanned
<1>3. SampleAgrees'
  <2>1. CASE mon' = Asleep
    BY <1>0, <2>1 DEF SampleAgrees
  <2>2. CASE /\ mon'.todo \subseteq m.todo
             /\ mon'.eligible = m.eligible /\ mon'.configured = m.configured
             /\ mon'.cmd.voter \in m.todo \ mon'.todo
             /\ \A p \in mon'.todo : tracker'[p] = trackers[p]
    BY <2>2 DEF SampleAgrees
  <2> QED
    BY <2>1, <2>2 DEF Scanned
<1> QED
  BY <1>2, <1>3

LEMMA HysteresisStep ==
    ASSUME Settled, EligTypeOK, AwaitsProposal, HysteresisInv, [EligNext]_eligVars
    PROVE  HysteresisInv'
<1> USE DEF HysteresisInv
<1>0. configured \subseteq Node /\ Asleep' = Asleep
  BY DEF EligTypeOK, Asleep
<1>1. CASE tick
  <2>1. /\ Scanned(Sample, AgedTrackersNow)
        /\ AgedTrackersNow \in [Node -> PeerTracker \union {None}]
        /\ \A p \in Node : /\ tracker[p] = None => AgedTrackersNow[p] = None
                           /\ tracker[p] # None =>
                                 AgedTrackersNow[p].last_proposed = tracker[p].last_proposed
    BY <1>1, TickScans
  <2>2. /\ Sample \in Tick /\ Sample.todo \subseteq Sample.configured
        /\ Sample.todo \subseteq configured /\ Sample.eligible = eligible
    BY DEF EligTypeOK, Sample, Tick
  <2>3. UNCHANGED <<configured, eligible, orphans>> /\ orphans = {}
    BY <1>1 DEF tick, Settled
  <2>4. \A p \in configured : AgedTrackersNow[p] # None =>
           (AgedTrackersNow[p].last_proposed = "Demote") = (p \notin eligible')
    BY <1>0, <2>1, <2>3 DEF TrackersAgree
  <2>5. TrackersAgree' /\ SampleAgrees'
    BY <2>1, <2>2, <2>3, <2>4, ScanAgrees
  <2> QED
    BY <2>3, <2>5 DEF OrphansPrecede
<1>2. CASE propose_eligibility
  <2> DEFINE v == mon.cmd.voter
  <2>1. /\ Scanned(mon, AnsweredTrackers)
        /\ v \in Node /\ mon.cmd \in Proposal
        /\ AnsweredTrackers \in [Node -> PeerTracker \union {None}]
        /\ \A p \in Node \ {v} : AnsweredTrackers[p] = tracker[p]
        /\ v \in configured =>
              AnsweredTrackers[v].last_proposed = IF mon.cmd.eligible THEN "Promote" ELSE "Demote"
    BY <1>2, AnswerScans
  <2>2. /\ mon \in Tick /\ mon # Asleep /\ UNCHANGED <<configured, orphans>>
        /\ mon.todo \subseteq mon.configured /\ v \notin mon.todo
    BY <1>2 DEF EligTypeOK, propose_eligibility, SampleAgrees
  <2>3. /\ \A p \in Node \ {v} : p \in eligible' <=> p \in eligible
        /\ v \in configured => (v \in eligible' <=> mon.cmd.eligible)
    <3>1. eligible' = IF v \notin configured THEN eligible
                      ELSE IF mon.cmd.eligible THEN eligible \union {v} ELSE eligible \ {v}
      BY <1>2 DEF propose_eligibility, apply_set_worker_eligibility
    <3> QED
      BY <3>1
  <2>4. \A p \in configured : AnsweredTrackers[p] # None =>
           (AnsweredTrackers[p].last_proposed = "Demote") = (p \notin eligible')
    <3> SUFFICES ASSUME NEW p \in configured, AnsweredTrackers[p] # None
                 PROVE  (AnsweredTrackers[p].last_proposed = "Demote") = (p \notin eligible')
      OBVIOUS
    <3>1. CASE p = v
      BY <2>1, <2>3, <3>1 DEF Proposal
    <3>2. CASE p # v
      BY <1>0, <2>1, <2>3, <3>2 DEF TrackersAgree
    <3> QED
      BY <3>1, <3>2
  <2>5. \A p \in mon.todo \intersect configured : AnsweredTrackers[p] = None =>
           (p \in mon.eligible) = (p \in eligible')
    BY <1>0, <2>1, <2>2, <2>3 DEF SampleAgrees
  <2>6. TrackersAgree' /\ SampleAgrees'
    BY <2>1, <2>2, <2>4, <2>5, ScanAgrees
  <2> QED
    BY <2>2, <2>6 DEF OrphansPrecede
<1>3. CASE ProposeFails
  <2>1. /\ Scanned(mon, FailedTrackers)
        /\ FailedTrackers \in [Node -> PeerTracker \union {None}]
        /\ \A p \in Node : /\ tracker[p] = None => FailedTrackers[p] = None \/ p = mon.cmd.voter
                           /\ p # mon.cmd.voter => FailedTrackers[p] = tracker[p]
                           /\ FailedTrackers[p] # None /\ tracker[p] \in PeerTracker =>
                                 FailedTrackers[p].last_proposed = tracker[p].last_proposed
        /\ mon.cmd \in Proposal /\ mon.cmd.voter \in Node
        /\ tracker[mon.cmd.voter] \in PeerTracker
    BY <1>3, FailureScans
  <2>2. /\ mon \in Tick /\ mon # Asleep /\ UNCHANGED <<configured, eligible>>
        /\ mon.todo \subseteq mon.configured /\ mon.cmd.voter \notin mon.todo
        /\ orphans' = orphans
    BY <1>3 DEF EligTypeOK, ProposeFails, SampleAgrees, Settled
  <2>3. tracker[mon.cmd.voter] # None
    BY <2>1, NoTrackerAssumption
  <2>4. \A p \in configured : FailedTrackers[p] # None =>
           (FailedTrackers[p].last_proposed = "Demote") = (p \notin eligible')
    BY <1>0, <2>1, <2>2, <2>3 DEF TrackersAgree, EligTypeOK
  <2>5. \A p \in mon.todo \intersect configured : FailedTrackers[p] = None =>
           (p \in mon.eligible) = (p \in eligible')
    BY <1>0, <2>1, <2>2 DEF SampleAgrees
  <2>6. TrackersAgree' /\ SampleAgrees'
    BY <2>1, <2>2, <2>4, <2>5, ScanAgrees
  <2> QED
    BY <2>2, <2>6 DEF OrphansPrecede
<1>4. ASSUME UNCHANGED <<configured, eligible, tracker, mon, orphans>> PROVE HysteresisInv'
  BY <1>0, <1>4 DEF TrackersAgree, SampleAgrees, OrphansPrecede
<1>5. ASSUME NEW cmd \in orphans, LandOrphan(cmd) PROVE HysteresisInv'
  BY <1>0, <1>5 DEF LandOrphan, TrackersAgree, SampleAgrees, OrphansPrecede
<1>6. ASSUME NEW n \in Node, Elected(n), configured' = configured PROVE HysteresisInv'
  <2>1. mon' = Asleep /\ (\A p \in Node : tracker'[p] = None)
    BY <1>6 DEF Elected
  <2> QED
    BY <1>0, <1>6, <2>1 DEF TrackersAgree, SampleAgrees, OrphansPrecede
<1>6a. ASSUME NEW n \in Node, Restart(n) \/ Elect(n) PROVE HysteresisInv'
  BY <1>4, <1>6, <1>6a DEF Restart, Elect
<1>7. ASSUME NEW n \in Node, ChangeMembership(n) PROVE HysteresisInv'
  <2>1. UNCHANGED <<tracker, mon, orphans>>
    BY <1>7 DEF ChangeMembership
  <2>2. eligible \subseteq configured
    BY DEF EligTypeOK
  <2>3. CASE configured' = configured \ {n} /\ eligible' = (configured \ {n}) \ (configured \ eligible)
    <3>1. \A p \in configured' : p \in configured /\ (p \in eligible' <=> p \in eligible)
      BY <2>2, <2>3
    <3> QED
      BY <1>0, <2>1, <3>1 DEF TrackersAgree, SampleAgrees, OrphansPrecede
  <2>4. CASE /\ n \notin configured /\ configured' = configured \union {n}
             /\ eligible' = (configured \union {n}) \ (configured \ eligible)
             /\ tracker[n] = None /\ n \notin mon.configured
    <3>1. /\ \A p \in configured' : p # n => p \in configured /\ (p \in eligible' <=> p \in eligible)
      BY <2>2, <2>4
    <3>2. mon # Asleep => n \notin mon.todo
      BY <2>4 DEF SampleAgrees
    <3> QED
      BY <1>0, <2>1, <2>4, <3>1, <3>2 DEF TrackersAgree, SampleAgrees, OrphansPrecede
  <2> QED
    BY <1>7, <2>3, <2>4 DEF ChangeMembership, apply_membership, EligibleAfterChange, Settled
<1>8. CASE UNCHANGED eligVars
  BY <1>4, <1>8 DEF eligVars
<1> QED
  BY <1>1, <1>2, <1>3, <1>4, <1>5, <1>6a, <1>7, <1>8
     DEF EligNext, MonitorStep, AppendEntry, Replicate, Crash

\* Between ticks the monitor's hysteresis agrees with the replicated state about
\* every voter it tracks, however many proposals fail, leaders change and voters
\* come and go.
THEOREM HysteresisSound ==
    ASSUME Settled
    PROVE  EligSpec => []HysteresisTrue
<1>1. EligInit => HysteresisInv
  BY DEF EligInit, HysteresisInv, TrackersAgree, SampleAgrees, OrphansPrecede
<1>2. /\ EligTypeOK /\ AwaitsProposal /\ HysteresisInv /\ [EligNext]_eligVars
      => EligTypeOK' /\ AwaitsProposal' /\ HysteresisInv'
  BY EligTypeStep, HysteresisStep
<1>3. HysteresisInv => HysteresisTrue
  BY DEF HysteresisInv, TrackersAgree, HysteresisTrue
<1> QED
  BY <1>1, <1>2, <1>3, EligTypeInitially, PTL DEF EligSpec
=============================================================================
