------------------------- MODULE WorkerEligibility -------------------------
(***************************************************************************)
(* Which voters may host commit workers: the leader's LivenessMonitor      *)
(* (raft/liveness_monitor.rs), SetWorkerEligibility and apply_membership   *)
(* on the replicated voter sets.  The rendezvous owner of a branch is      *)
(* picked from the eligible ones.                                          *)
(*                                                                         *)
(* The monitor samples replication once per tick, goes through its peers   *)
(* and awaits each proposal before the next, so a decision is as old as    *)
(* the sample.  Time is counted in ticks.  Log positions appear as the     *)
(* distance of a peer's match to the leader's last entry, saturated just   *)
(* above the healthy window.                                               *)
(***************************************************************************)
EXTENDS Naturals, FiniteSets

CONSTANTS
    Node,              \* node ids
    UnreachableAfter,  \* unreachable_after, in ticks
    LiveAfter,         \* live_after, in ticks
    RefusalBackoff,    \* refusal_backoff, in ticks
    MaxHealthyLag,     \* max_healthy_lag
    EligFault,         \* what may go wrong
    MaxEligFaults,     \* bound: how many times
    MaxAppends,        \* bound: entries the clients append
    None

ASSUME EligibilityAssumption ==
    /\ Node \subseteq Nat /\ None \notin Nat /\ None # "Demote"
    /\ UnreachableAfter \in Nat /\ LiveAfter \in Nat /\ RefusalBackoff \in Nat
    /\ MaxHealthyLag \in Nat /\ MaxEligFaults \in Nat /\ MaxAppends \in Nat
    /\ EligFault \subseteq {"crash", "elect", "member", "lose", "landed", "late", "readd", "slow"}

VARIABLES
    configured,   \* configured_voters
    eligible,     \* worker_eligible_voters
    leader,       \* the node whose monitor runs
    alive,        \* nodes that are up
    lag,          \* lag[p]: entries p's match is behind the leader's last one
    acked,        \* peers with an acknowledged match on this leader
    moved,        \* peers whose match advanced since the last sample
    tracker,      \* tracker[p]: the monitor's PeerTracker, None if it has none
    mon,          \* the monitor's tick: its place, its samples, what it awaits
    orphans,      \* proposals in the log that no monitor waits for
    appends,      \* client entries so far
    eligFaults    \* faults so far

eligVars == <<configured, eligible, leader, alive, lag, acked, moved, tracker, mon, orphans,
              appends, eligFaults>>

LagRange == 0 .. MaxHealthyLag + 1

\* Timers count the ticks since they started and stop at their threshold.
Timer(limit) == (0 .. limit) \union {None}

PeerTracker ==
    [unreachable_since : Timer(UnreachableAfter), recovering_since : Timer(LiveAfter),
     last_proposed : {"Promote", "Demote", None}, last_refused : Timer(RefusalBackoff),
     observed : BOOLEAN]

ASSUME NoTrackerAssumption == None \notin PeerTracker

Proposal == [voter : Node, eligible : BOOLEAN]

\* A tick that awaits a proposal: the peers it has not come to, the proposal,
\* and what it copied from the metrics and from the state when it began.
Tick == [todo : SUBSET Node, cmd : Proposal \union {None}, acked : SUBSET Node,
         moved : SUBSET Node, lag : [Node -> LagRange], configured : SUBSET Node,
         eligible : SUBSET Node]

Asleep == [todo |-> {}, cmd |-> None, acked |-> {}, moved |-> {}, lag |-> [p \in Node |-> 0],
           configured |-> {}, eligible |-> {}]

EligInit ==
    /\ configured = Node /\ eligible = Node
    /\ leader \in Node /\ alive = Node
    /\ lag = [p \in Node |-> 0] /\ acked = Node /\ moved = {}
    /\ tracker = [p \in Node |-> None]
    /\ mon = Asleep
    /\ orphans = {} /\ appends = 0 /\ eligFaults = 0

Mishap(kind) == kind \in EligFault /\ eligFaults < MaxEligFaults /\ eligFaults' = eligFaults + 1

-----------------------------------------------------------------------------
(* The replicated sets.                                                    *)

\* apply_membership: demotions of voters that stay survive.
EligibleAfterChange(voters) == voters \ (configured \ eligible)

apply_membership(voters) ==
    /\ configured' = voters
    /\ eligible' = EligibleAfterChange(voters)

\* Refused (a no-op) when the voter is not configured.
apply_set_worker_eligibility(cmd) ==
    eligible' = IF cmd.voter \notin configured THEN eligible
                ELSE IF cmd.eligible THEN eligible \union {cmd.voter}
                ELSE eligible \ {cmd.voter}

\* The leader's log grew: every peer is one entry further behind.
Behind == [p \in Node |-> IF p = leader \/ lag[p] > MaxHealthyLag THEN lag[p] ELSE lag[p] + 1]

-----------------------------------------------------------------------------
(* The monitor.                                                            *)

Aged(timer, limit) == IF timer = None \/ timer = limit THEN timer ELSE timer + 1

AgedTracker(t) ==
    IF t = None THEN None
    ELSE [t EXCEPT !.unreachable_since = Aged(@, UnreachableAfter),
                   !.recovering_since = Aged(@, LiveAfter),
                   !.last_refused = Aged(@, RefusalBackoff)]

\* Mutant: a fresh monitor takes every peer for eligible.
Seeded_Eligible(m, p) ==
    [unreachable_since |-> None, recovering_since |-> None, last_proposed |-> None,
     last_refused |-> None, observed |-> FALSE]

\* A new tracker carries the replicated state into its hysteresis.
Seeded(m, p) ==
    [unreachable_since |-> None, recovering_since |-> None,
     last_proposed |-> IF p \in m.eligible THEN None ELSE "Demote",
     last_refused |-> None, observed |-> FALSE]

\* record_replication_progress: the peer advanced within the healthy window
\* or is caught up, or it is unhealthy.
Recorded(m, t, p) ==
    LET advanced == p \in m.acked /\ (~t.observed \/ p \in m.moved)
        healthy == p \in m.acked /\ m.lag[p] <= MaxHealthyLag
                   /\ (advanced \/ m.lag[p] = 0)
        seen == [t EXCEPT !.observed = @ \/ advanced] IN
    IF healthy
    THEN [seen EXCEPT !.unreachable_since = None,
             !.recovering_since = IF t.last_proposed = "Demote" /\ @ = None THEN 0 ELSE @]
    ELSE [seen EXCEPT !.unreachable_since = IF @ = None THEN 0 ELSE @,
             !.recovering_since = None]

\* Mutant: a demoted peer is left alone.
next_eligibility_proposal_NoPromote(t) ==
    IF t.last_refused \notin {None, RefusalBackoff} THEN None
    ELSE IF t.unreachable_since = UnreachableAfter /\ t.last_proposed # "Demote" THEN "Demote"
    ELSE None

\* Mutant: any earlier proposal blocks a demotion, not only a demotion.
next_eligibility_proposal_Once(t) ==
    IF t.last_refused \notin {None, RefusalBackoff} THEN None
    ELSE IF t.unreachable_since = UnreachableAfter /\ t.last_proposed = None THEN "Demote"
    ELSE IF t.last_proposed = "Demote" /\ t.recovering_since = LiveAfter THEN "Promote"
    ELSE None

next_eligibility_proposal(t) ==
    IF t.last_refused \notin {None, RefusalBackoff} THEN None
    ELSE IF t.unreachable_since = UnreachableAfter /\ t.last_proposed # "Demote" THEN "Demote"
    ELSE IF t.last_proposed = "Demote" /\ t.recovering_since = LiveAfter THEN "Promote"
    ELSE None

\* The loop over the peers, from where the tick m stands: each peer's sample is
\* recorded in its tracker, up to the first for which it is time to propose.
\* That proposal is appended and awaited.  When there is none the tick ends, and
\* the trackers of peers that were no voters when it began are dropped.
ScanPeers(m, trackers) ==
    LET recorded == [p \in m.todo |->
            Recorded(m, IF trackers[p] = None THEN Seeded(m, p) ELSE trackers[p], p)]
        proposal == [p \in m.todo |-> next_eligibility_proposal(recorded[p])]
        reached == {p \in m.todo : \A q \in m.todo : q < p => proposal[q] = None}
        proposing == {p \in reached : proposal[p] # None}
        scanned == [p \in Node |-> IF p \in reached THEN recorded[p] ELSE trackers[p]] IN
    IF proposing = {}
    THEN /\ tracker' = [p \in Node |-> IF p \in m.configured THEN scanned[p] ELSE None]
         /\ mon' = Asleep /\ UNCHANGED lag
    ELSE \E p \in proposing :
         /\ tracker' = scanned
         /\ mon' = [m EXCEPT !.todo = @ \ reached,
                       !.cmd = [voter |-> p, eligible |-> proposal[p] = "Promote"]]
         /\ lag' = Behind

\* A tick copies the metrics and the voter sets, and goes through the peers.
\* A tick is much longer than a round of replication: that a peer which is up
\* has not caught up within one is a "slow" fault.  Entries a new leader
\* inherits are applied before its first tick unless "late" is possible.
tick ==
    /\ mon = Asleep /\ leader \in alive
    /\ "late" \in EligFault \/ orphans = {}
    /\ IF \A p \in alive \ {leader} : p \in acked /\ lag[p] = 0
       THEN UNCHANGED eligFaults ELSE Mishap("slow")
    /\ ScanPeers([todo |-> configured \ {leader}, cmd |-> None, acked |-> acked, moved |-> moved,
                  lag |-> lag, configured |-> configured, eligible |-> eligible],
                 [p \in Node |-> AgedTracker(tracker[p])])
    /\ moved' = {}
    /\ UNCHANGED <<configured, eligible, leader, alive, acked, orphans, appends>>

\* The proposal commits, is applied and answered; the tick goes on.
propose_eligibility ==
    /\ mon # Asleep /\ leader \in alive
    /\ apply_set_worker_eligibility(mon.cmd)
    /\ ScanPeers(mon, [tracker EXCEPT ![mon.cmd.voter] =
          IF mon.cmd.voter \notin configured THEN [@ EXCEPT !.last_refused = 0]
          ELSE IF mon.cmd.eligible
          THEN [@ EXCEPT !.last_refused = None, !.last_proposed = "Promote", !.recovering_since = None]
          ELSE [@ EXCEPT !.last_refused = None, !.last_proposed = "Demote"]])
    /\ UNCHANGED <<configured, leader, alive, acked, moved, orphans, appends, eligFaults>>

\* The propose fails at the raft layer; with "landed" faults the command may be
\* in the log all the same.
ProposeFails ==
    /\ mon # Asleep /\ leader \in alive /\ Mishap("lose")
    /\ orphans' \in {orphans} \union
          (IF "landed" \in EligFault THEN {orphans \union {mon.cmd}} ELSE {})
    /\ ScanPeers(mon, [tracker EXCEPT ![mon.cmd.voter].last_refused = 0])
    /\ UNCHANGED <<configured, eligible, leader, alive, acked, moved, appends>>

-----------------------------------------------------------------------------
(* The cluster around it.                                                  *)

\* An entry nobody waits for commits, or is overwritten.
LandOrphan(cmd) ==
    /\ cmd \in orphans
    /\ orphans' = orphans \ {cmd}
    /\ apply_set_worker_eligibility(cmd) \/ UNCHANGED eligible
    /\ UNCHANGED <<configured, leader, alive, lag, acked, moved, tracker, mon, appends, eligFaults>>

\* A client's command is appended.
AppendEntry ==
    /\ appends < MaxAppends /\ leader \in alive
    /\ appends' = appends + 1
    /\ lag' = Behind
    /\ UNCHANGED <<configured, eligible, leader, alive, acked, moved, tracker, mon, orphans, eligFaults>>

\* The leader hears of a later match of peer p.
Replicate(p) ==
    /\ leader \in alive /\ p \in alive \ {leader}
    /\ lag[p] > 0 \/ p \notin acked
    /\ lag' \in {[lag EXCEPT ![p] = 0], [lag EXCEPT ![p] = IF @ = 0 THEN 0 ELSE @ - 1]}
    /\ acked' = acked \union {p}
    /\ moved' = moved \union {p}
    /\ UNCHANGED <<configured, eligible, leader, alive, tracker, mon, orphans, appends, eligFaults>>

Majority(S) == 2 * Cardinality(S \intersect configured) > Cardinality(configured)

Crash(n) ==
    /\ Mishap("crash")
    /\ n \in alive /\ Majority(alive \ {n})
    /\ alive' = alive \ {n}
    /\ UNCHANGED <<configured, eligible, leader, lag, acked, moved, tracker, mon, orphans, appends>>

\* Node n wins an election: the monitor and the trackers of the one before are
\* gone, and its unanswered proposal may survive in the log.  No peer has
\* acknowledged the new leader, whose blank entry nobody has.
Elected(n) ==
    /\ leader' = n
    /\ tracker' = [p \in Node |-> None]
    /\ mon' = Asleep
    /\ orphans' = IF mon # Asleep THEN orphans \union {mon.cmd} ELSE orphans
    /\ lag' = [p \in Node |-> IF p = n THEN 0 ELSE 1] /\ acked' = {} /\ moved' = {}

\* A node comes back.  A leader that does so before another is elected is a new
\* process that has to be elected again.
Restart(n) ==
    /\ n \in Node \ alive
    /\ alive' = alive \union {n}
    /\ IF n = leader THEN Elected(n)
       ELSE UNCHANGED <<leader, lag, acked, moved, tracker, mon, orphans>>
    /\ UNCHANGED <<configured, eligible, appends, eligFaults>>

\* Another voter is elected.
Elect(n) ==
    /\ \/ leader \notin alive /\ UNCHANGED eligFaults
       \/ leader \in alive /\ Mishap("elect")
    /\ n \in (alive \intersect configured) \ {leader}
    /\ Elected(n)
    /\ UNCHANGED <<configured, eligible, alive, appends>>

\* change-membership removes or adds a voter.  One that is added back within a
\* tick meets its old tracker, or the tick's sample of its old eligibility
\* ("readd").
ChangeMembership(n) ==
    /\ Mishap("member")
    /\ n # leader /\ leader \in alive
    /\ \/ n \in configured /\ Majority(alive \ {n}) /\ apply_membership(configured \ {n})
       \/ /\ n \notin configured /\ apply_membership(configured \union {n})
          /\ "readd" \in EligFault \/ (tracker[n] = None /\ n \notin mon.configured)
    /\ lag' = Behind
    /\ acked' = acked \ {n} /\ moved' = moved \ {n}
    /\ UNCHANGED <<leader, alive, tracker, mon, orphans, appends>>

-----------------------------------------------------------------------------
MonitorStep == tick \/ propose_eligibility

EligNext ==
    \/ MonitorStep \/ ProposeFails \/ AppendEntry
    \/ \E cmd \in orphans : LandOrphan(cmd)
    \/ \E n \in Node : Replicate(n) \/ Crash(n) \/ Restart(n) \/ Elect(n) \/ ChangeMembership(n)

EligSpec == EligInit /\ [][EligNext]_eligVars

\* The monitor's loop runs, raft replicates to nodes that are up, decides what
\* is in its log and replaces a dead leader.  Nobody owes a restart.
FairEligSpec ==
    /\ EligSpec
    /\ WF_eligVars(MonitorStep)
    /\ WF_eligVars(\E cmd \in orphans : LandOrphan(cmd))
    /\ \A p \in Node : WF_eligVars(Replicate(p))
    /\ WF_eligVars(leader \notin alive /\ \E n \in Node : Elect(n))

-----------------------------------------------------------------------------
(* Properties.                                                             *)

\* Every variable has its type; only configured voters are eligible, and a
\* dead majority never happens (the bound on crashes).
EligTypeOK ==
    /\ eligible \subseteq configured /\ configured \subseteq Node
    /\ leader \in configured /\ alive \subseteq Node
    /\ lag \in [Node -> LagRange] /\ acked \subseteq Node /\ moved \subseteq Node
    /\ tracker \in [Node -> PeerTracker \union {None}]
    /\ mon \in Tick
    /\ orphans \subseteq Proposal
    /\ appends \in 0 .. MaxAppends /\ eligFaults \in 0 .. MaxEligFaults

\* Between ticks the monitor's hysteresis agrees with the replicated state
\* about every voter it tracks ("the last EligibilityProposal this monitor
\* expects the replicated state to reflect for this peer"): a disagreement
\* either way leaves the voter as it is for good.
HysteresisTrue ==
    mon = Asleep /\ orphans = {} =>
        \A p \in configured : tracker[p] # None =>
            (tracker[p].last_proposed = "Demote") = (p \notin eligible)

\* A voter that stays down with entries pending loses its eligibility, so its
\* branches move to another owner.
DeadDemoted ==
    \A p \in Node :
        <>[](p \in configured \ alive /\ (lag[p] > 0 \/ p \notin acked)) => <>[](p \notin eligible)

\* "Restored advancement past live_after flips the voter back": a voter that
\* stays up and does not lead ends up eligible, whoever demoted it.
RecoveredPromoted ==
    \A p \in Node :
        <>[](p \in configured \intersect alive /\ p # leader) => <>[](p \in eligible)

=============================================================================
