----------------------------- MODULE Wal_proofs -----------------------------
(***************************************************************************)
(* Safety theorems of the write-ahead log, for any number of writers, keys *)
(* and operations and any of the faults: nobody is left waiting for a task *)
(* that is gone, unflushed frames are in the active segment, replay brings *)
(* every key back to an outcome it may have, and what a power loss leaves  *)
(* of the log has no hole, and is refused only for a segment that could    *)
(* not be opened.                                                          *)
(*                                                                         *)
(* TaskInv, RestartInv and LogInv are about the tasks and the log's        *)
(* structure, FileInv about the records of each key, its file and what the *)
(* device may have of it, OrphanInv about segments that no queue knows.    *)
(***************************************************************************)
EXTENDS Wal, SequenceTheorems, FiniteSetTheorems, WellFoundedInduction, TLAPS

-----------------------------------------------------------------------------
(* Tasks.                                                                  *)

Place == {"idle", "file", "append", "wait", "lead", "rotate", "big", "retire", "retiring"}
Operation == {"Cas", "Write", "Delete", "Insert", "Cancel", "Big", "Tick"}

TaskState ==
    [pc : Place, op : Operation \union {None}, key : Key \union {None}, val : Contents,
     seq : Nat, covered : Nat, held : SUBSET Nat]

\* The numbers of the log, the watermark below them, and who is where: the flag
\* of the leader and the name of the one who retires segments point to the task
\* that is there, and to nobody else; a leader covers what it sampled.
TaskInv ==
    /\ next_seq \in Nat \ {0} /\ durable_end \in 1 .. next_seq
    /\ task \in [Task -> TaskState]
    /\ \A t \in Task :
          /\ task[t].pc # "idle" => task[t].op \in Operation
          /\ task[t].pc = "lead" <=> flushing = t
          /\ task[t].pc = "lead" => task[t].covered \in durable_end .. next_seq
          /\ task[t].pc = "retiring" <=> retiring.by = t
    /\ flushing \in Task \union {None} /\ retiring.by \in Task \union {None}

\* Task t goes to one of the places in P, the others stay where they are.
Moves(t, P) ==
    /\ task' \in [Task -> TaskState]
    /\ \A u \in Task : u # t => task'[u] = task[u]
    /\ task'[t].pc \in P
    /\ task'[t].pc # "idle" => task'[t].op \in Operation

LEMMA IdleState == Idle \in TaskState /\ Idle.pc = "idle"
BY DEF Idle, TaskState, Place, Contents

LEMMA FinishMoves ==
    ASSUME task \in [Task -> TaskState], NEW t \in Task, Finish(t)
    PROVE  Moves(t, {"idle"})
<1>1. task' = [task EXCEPT ![t] = Idle]
  BY DEF Finish
<1> QED
  BY <1>1, IdleState DEF Moves

LEMMA GotoMoves ==
    ASSUME task \in [Task -> TaskState], NEW t \in Task, NEW p \in Place, Goto(t, p),
           task[t].op \in Operation
    PROVE  Moves(t, {p})
<1> DEFINE e == [task[t] EXCEPT !.pc = p]
<1>1. task[t] \in TaskState
  OBVIOUS
<1>2. e \in TaskState /\ e.pc = p /\ e.op = task[t].op
  BY <1>1 DEF TaskState
<1>3. task' = [task EXCEPT ![t] = e]
  BY DEF Goto
<1> HIDE DEF e
<1> QED
  BY <1>2, <1>3 DEF Moves

LEMMA EndMoves ==
    ASSUME task \in [Task -> TaskState], NEW t \in Task,
           Succeed(t) \/ FailClean(t) \/ FailUnknown(t)
    PROVE  Moves(t, {"idle"})
BY FinishMoves DEF Succeed, FailClean, FailUnknown

LEMMA DurableMoves ==
    ASSUME task \in [Task -> TaskState], NEW t \in Task, Durable(t), task[t].op \in Operation
    PROVE  Moves(t, {"idle", "file", "retire"})
<1>1. \/ Goto(t, "file") \/ Goto(t, "retire") \/ Succeed(t) \/ FailClean(t)
  BY DEF Durable, Operation
<1>2. CASE Goto(t, "file") \/ Goto(t, "retire")
  BY <1>2, GotoMoves DEF Place, Moves
<1>3. CASE Succeed(t) \/ FailClean(t)
  BY <1>3, EndMoves DEF Moves
<1> QED
  BY <1>1, <1>2, <1>3

LEMMA RetiredMoves ==
    ASSUME task \in [Task -> TaskState], NEW t \in Task, NEW n, Retired(t, n),
           task[t].op \in Operation, durable_end \in Nat \ {0}
    PROVE  Moves(t, {"idle", "big", "rotate"})
<1>1. CASE FailClean(t)
  BY <1>1, EndMoves DEF Moves
<1>2. CASE Goto(t, "rotate")
  BY <1>2, GotoMoves DEF Place, Moves
<1>3. CASE task' = [task EXCEPT ![t] = [@ EXCEPT !.pc = "big", !.seq = durable_end - 1]]
  <2> DEFINE e == [task[t] EXCEPT !.pc = "big", !.seq = durable_end - 1]
  <2>1. task[t] \in TaskState
    OBVIOUS
  <2>2. durable_end - 1 \in Nat
    OBVIOUS
  <2>3. e \in TaskState /\ e.pc = "big" /\ e.op = task[t].op
    BY <2>1, <2>2 DEF TaskState, Place
  <2>4. task' = [task EXCEPT ![t] = e]
    BY <1>3
  <2> HIDE DEF e
  <2> QED
    BY <2>3, <2>4 DEF Moves
<1> QED
  BY <1>1, <1>2, <1>3 DEF Retired

\* A step of a task that neither leads nor retires, before or after it, and
\* leaves the numbers of the log alone or lets them grow.
LEMMA TaskStutters ==
    ASSUME TaskInv, NEW t \in Task, Moves(t, Place \ {"lead", "retiring"}),
           task[t].pc \notin {"lead", "retiring"},
           UNCHANGED flushing, retiring'.by = retiring.by,
           next_seq' \in Nat, next_seq' >= next_seq,
           durable_end' = durable_end \/ (flushing = None /\ durable_end' \in 1 .. next_seq')
    PROVE  TaskInv'
<1>1. next_seq' \in Nat \ {0} /\ durable_end' \in 1 .. next_seq'
  BY DEF TaskInv
<1>2. task' \in [Task -> TaskState]
  BY DEF Moves
<1>3. ASSUME NEW u \in Task
      PROVE  /\ task'[u].pc # "idle" => task'[u].op \in Operation
             /\ task'[u].pc = "lead" <=> flushing' = u
             /\ task'[u].pc = "lead" => task'[u].covered \in durable_end' .. next_seq'
             /\ task'[u].pc = "retiring" <=> retiring'.by = u
  <2>1. CASE u = t
    BY <2>1 DEF TaskInv, Moves
  <2>2. CASE u # t
    <3>1. task'[u] = task[u]
      BY <2>2 DEF Moves
    <3>2. u # None
      BY WalAssumption DEF Task
    <3>3. task'[u].pc = "lead" => task'[u].covered \in durable_end' .. next_seq'
      BY <1>1, <3>1, <3>2 DEF TaskInv
    <3> QED
      BY <3>1, <3>3 DEF TaskInv
  <2> QED
    BY <2>1, <2>2
<1> QED
  BY <1>1, <1>2, <1>3 DEF TaskInv

LEMMA TaskStays ==
    ASSUME TaskInv, NEW t \in Task, Moves(t, Place \ {"lead", "retiring"}),
           task[t].pc \notin {"lead", "retiring"},
           UNCHANGED <<flushing, retiring, next_seq, durable_end>>
    PROVE  TaskInv'
<1>1. next_seq' \in Nat /\ next_seq' >= next_seq
  BY DEF TaskInv
<1> QED
  BY <1>1, TaskStutters

\* Where a restart stands nobody is at work and no segment is open.
RestartInv ==
    /\ status # "up" =>
          /\ active = <<>> /\ unlinked = <<>> /\ retiring = NotRetiring /\ flushing = None
          /\ \A t \in Task : task[t].pc = "idle"
    /\ status = "replayed" => closed = <<>>
    /\ retiring.by = None => retiring = NotRetiring
    /\ retiring.unlinking => retiring.queue # <<>>

\* Whatever a task does, it does while the log is open.
LEMMA AtWork ==
    ASSUME TaskInv, RestartInv, NEW t \in Task, task[t].pc # "idle" \/ retiring.by = t
    PROVE  status = "up"
BY WalAssumption DEF RestartInv, NotRetiring, Task

LEMMA BeginMoves ==
    ASSUME TaskInv, NEW w \in Writer, begin_operation(w)
    PROVE  Moves(w, {"file", "rotate", "append"})
<1>0. Key = HeadKey \union BlobKey /\ w \in Task
  BY DEF Key, Task
<1>1. PICK op \in Operation, k \in Key, v \in Contents : Begin(w, op, k, v)
  BY <1>0 DEF begin_operation, Operation, Contents
<1> DEFINE p == CASE op = "Insert" -> "file" [] op = "Big" -> "rotate" [] OTHER -> "append"
           e == [Idle EXCEPT !.op = op, !.key = k, !.val = v, !.pc = p]
<1>2. p \in {"file", "rotate", "append"}
  OBVIOUS
<1>3. task' = [task EXCEPT ![w] = e]
  BY <1>1 DEF Begin
<1> HIDE DEF p
<1>4. e \in TaskState /\ e.pc = p /\ e.op = op
  BY <1>2, IdleState DEF TaskState, Place
<1> HIDE DEF e
<1> QED
  BY <1>0, <1>2, <1>3, <1>4 DEF Moves, TaskInv

LEMMA AppendMoves ==
    ASSUME TaskInv, NEW w \in Writer, append(w)
    PROVE  \E p \in {"rotate", "file", "lead", "wait"} :
              /\ Moves(w, {p})
              /\ p = "lead" => flushing = None
              /\ task'[w].covered = IF p = "lead" THEN next_seq + 1 ELSE 0
              /\ flushing' = IF p = "lead" THEN w ELSE flushing
<1>0. w \in Task /\ task[w] \in TaskState /\ task[w].op \in Operation /\ next_seq \in Nat
      /\ task \in [Task -> TaskState]
  BY DEF Task, TaskInv, append
<1>1. PICK p \in {"rotate", IF ~Syncs(task[w].op) THEN "file"
                            ELSE IF flushing = None THEN "lead" ELSE "wait"} :
          /\ task' = [task EXCEPT ![w] =
                [@ EXCEPT !.pc = p, !.seq = next_seq, !.held = Guards(w),
                          !.covered = IF p = "lead" THEN next_seq + 1 ELSE 0]]
          /\ flushing' = IF p = "lead" THEN w ELSE flushing
  BY DEF append
<1> DEFINE c == IF p = "lead" THEN next_seq + 1 ELSE 0
           e == [task[w] EXCEPT !.pc = p, !.seq = next_seq, !.held = Guards(w), !.covered = c]
<1>2. p \in {"rotate", "file", "lead", "wait"} /\ (p = "lead" => flushing = None)
  BY <1>1
<1>3. c \in Nat /\ Guards(w) \in SUBSET Nat /\ p \in Place
  BY <1>0, <1>2 DEF TaskState, Place, Guards
<1>4. task' = [task EXCEPT ![w] = e]
  BY <1>1
<1> HIDE DEF c
<1>5. e \in TaskState /\ e.pc = p /\ e.op = task[w].op /\ e.covered = c
  BY <1>0, <1>3 DEF TaskState
<1> HIDE DEF e
<1>6. Moves(w, {p}) /\ task'[w].covered = c
  BY <1>0, <1>4, <1>5 DEF Moves
<1> QED
  BY <1>1, <1>2, <1>6 DEF c

LEMMA TaskPreserved ==
    ASSUME TaskInv, RestartInv, [WalNext]_walVars,
           replay_unlink => next_seq' \in Nat \ {0}
    PROVE  TaskInv'
<1> USE DEF logVars, retireVars
<1>0. /\ task \in [Task -> TaskState] /\ Writer \subseteq Task /\ Ticker \in Task /\ None \notin Task
      /\ next_seq \in Nat \ {0} /\ durable_end \in 1 .. next_seq /\ durable_end \in Nat \ {0}
      /\ \A t \in Task : task[t].pc # "idle" => task[t].op \in Operation
  BY WalAssumption DEF TaskInv, Task
<1>1. ASSUME NEW w \in Writer, begin_operation(w) PROVE TaskInv'
  <2>0. w \in Task
    BY <1>0
  <2>1. Moves(w, Place \ {"lead", "retiring"}) /\ task[w].pc = "idle"
    BY <1>1, BeginMoves, IdleState DEF Moves, Place, begin_operation
  <2> QED
    BY <1>0, <2>0, <1>1, <2>1, TaskStays DEF begin_operation
<1>2. ASSUME NEW w \in Writer, write_file(w) PROVE TaskInv'
  <2>0. w \in Task
    BY <1>0
  <2>1. task[w].pc = "file" /\ (Goto(w, "append") \/ Succeed(w))
    BY <1>2 DEF write_file
  <2>2. Moves(w, Place \ {"lead", "retiring"})
    BY <1>0, <2>0, <2>1, GotoMoves, EndMoves DEF Moves, Place
  <2> QED
    BY <1>0, <2>0, <1>2, <2>1, <2>2, TaskStays DEF write_file
<1>3. ASSUME NEW w \in Writer, write_fails(w) PROVE TaskInv'
  <2>0. w \in Task
    BY <1>0
  <2> DEFINE e == [task[w] EXCEPT !.pc = "append", !.op = "Cancel"]
  <2>1. task[w].pc \in {"file", "big"} /\ (FailClean(w) \/ task' = [task EXCEPT ![w] = e])
    BY <1>3 DEF write_fails
  <2>2. task[w] \in TaskState
    BY <1>0, <2>0
  <2>3. e \in TaskState /\ e.pc = "append" /\ e.op = "Cancel"
    BY <2>2 DEF TaskState, Place, Operation
  <2> HIDE DEF e
  <2>4. Moves(w, Place \ {"lead", "retiring"})
    BY <1>0, <2>0, <2>1, <2>3, EndMoves DEF Moves, Place, Operation
  <2> QED
    BY <1>0, <2>0, <1>3, <2>1, <2>4, TaskStays DEF write_fails
<1>4. ASSUME NEW w \in Writer, big_write(w) PROVE TaskInv'
  <2>0. w \in Task
    BY <1>0
  <2>1. Moves(w, Place \ {"lead", "retiring"}) /\ task[w].pc = "big"
    BY <1>0, <2>0, <1>4, EndMoves DEF Moves, Place, big_write
  <2> QED
    BY <1>0, <2>0, <1>4, <2>1, TaskStays DEF big_write
<1>5. ASSUME NEW w \in Writer, append(w) PROVE TaskInv'
  <2>0. w \in Task
    BY <1>0
  <2>1. PICK p \in {"rotate", "file", "lead", "wait"} :
              /\ Moves(w, {p})
              /\ p = "lead" => flushing = None
              /\ task'[w].covered = IF p = "lead" THEN next_seq + 1 ELSE 0
              /\ flushing' = IF p = "lead" THEN w ELSE flushing
    BY <1>5, AppendMoves
  <2>2. /\ task[w].pc = "append" /\ next_seq' = next_seq + 1
        /\ UNCHANGED <<durable_end, retiring>>
    BY <1>5 DEF append
  <2>3. CASE p # "lead"
    <3>1. Moves(w, Place \ {"lead", "retiring"})
      BY <2>1, <2>3 DEF Moves, Place
    <3> QED
      <4>1. next_seq' \in Nat /\ next_seq' >= next_seq
        BY <1>0, <2>2
      <4>2. UNCHANGED flushing /\ retiring'.by = retiring.by
        BY <2>1, <2>2, <2>3
      <4> QED
        BY <2>0, <2>2, <3>1, <4>1, <4>2, TaskStutters
  <2>4. CASE p = "lead"
    <3>1. ASSUME NEW u \in Task
          PROVE  /\ task'[u].pc # "idle" => task'[u].op \in Operation
                 /\ task'[u].pc = "lead" <=> flushing' = u
                 /\ task'[u].pc = "lead" => task'[u].covered \in durable_end' .. next_seq'
                 /\ task'[u].pc = "retiring" <=> retiring'.by = u
      <4>1. CASE u = w
        BY <1>0, <2>0, <2>1, <2>2, <2>4, <4>1 DEF Moves, TaskInv
      <4>2. CASE u # w
        BY <1>0, <2>0, <2>1, <2>2, <2>4, <4>2 DEF Moves, TaskInv
      <4> QED
        BY <4>1, <4>2
    <3> QED
      BY <1>0, <2>0, <2>1, <2>2, <2>4, <3>1 DEF Moves, TaskInv
  <2> QED
    BY <2>3, <2>4
<1>6. ASSUME NEW w \in Writer, append_fails(w) \/ open_segment_fails(w) PROVE TaskInv'
  <2>0. w \in Task /\ AppendFailed(w)
    BY <1>0, <1>6 DEF append_fails, open_segment_fails
  <2>1. Moves(w, Place \ {"lead", "retiring"}) /\ task[w].pc = "append"
    BY <1>0, <2>0, EndMoves DEF Moves, Place, AppendFailed
  <2>2. UNCHANGED <<flushing, retiring, next_seq, durable_end>>
    BY <2>0 DEF AppendFailed
  <2> QED
    BY <2>0, <2>1, <2>2, TaskStays
<1>23. ASSUME NEW w \in Writer, big_write_fails(w) PROVE TaskInv'
  <2>0. w \in Task
    BY <1>0
  <2>1. Moves(w, Place \ {"lead", "retiring"}) /\ task[w].pc = "big"
    BY <1>0, <2>0, <1>23, FinishMoves DEF Moves, Place, big_write_fails
  <2> QED
    BY <1>0, <2>0, <1>23, <2>1, TaskStays DEF big_write_fails
<1>7. ASSUME NEW t \in Task, wait_durable(t) PROVE TaskInv'
  <2>1. Moves(t, Place \ {"lead", "retiring"}) /\ task[t].pc = "wait"
    BY <1>0, <1>7, EndMoves, DurableMoves DEF Moves, Place, wait_durable
  <2>2. UNCHANGED <<flushing, retiring, next_seq, durable_end>>
    BY <1>7 DEF wait_durable
  <2> QED
    BY <2>1, <2>2, TaskStays
<1>8. ASSUME NEW t \in Task, lead_flush(t) PROVE TaskInv'
  <2> DEFINE e == [task[t] EXCEPT !.pc = "lead", !.covered = next_seq]
  <2>1. /\ task[t].pc = "wait" /\ flushing = None /\ flushing' = t /\ task' = [task EXCEPT ![t] = e]
        /\ UNCHANGED <<next_seq, durable_end, retiring>>
    BY <1>8 DEF lead_flush
  <2>2. task[t] \in TaskState
    BY <1>0
  <2>3. e \in TaskState /\ e.pc = "lead" /\ e.op = task[t].op /\ e.covered = next_seq
    BY <1>0, <2>2 DEF TaskState, Place
  <2> HIDE DEF e
  <2>4. ASSUME NEW u \in Task
        PROVE  /\ task'[u].pc # "idle" => task'[u].op \in Operation
               /\ task'[u].pc = "lead" <=> flushing' = u
               /\ task'[u].pc = "lead" => task'[u].covered \in durable_end' .. next_seq'
               /\ task'[u].pc = "retiring" <=> retiring'.by = u
    <3>1. CASE u = t
      BY <1>0, <2>1, <2>3, <3>1 DEF TaskInv
    <3>2. CASE u # t
      BY <1>0, <2>1, <3>2 DEF TaskInv
    <3> QED
      BY <3>1, <3>2
  <2> QED
    BY <1>0, <2>1, <2>3, <2>4 DEF TaskInv
<1>9. ASSUME NEW t \in Task, flush_returns(t) \/ flush_unwinds(t) PROVE TaskInv'
  <2>1. /\ task[t].pc = "lead" /\ flushing = t /\ flushing' = None
        /\ durable_end' \in {durable_end, task[t].covered}
        /\ UNCHANGED <<next_seq, retiring>>
    BY <1>9 DEF flush_returns, flush_unwinds, Released, Covered, TaskInv
  <2>2. Moves(t, {"idle", "file", "retire"})
    BY <1>0, <1>9, EndMoves, DurableMoves DEF Moves, flush_returns, flush_unwinds
  <2>3. ASSUME NEW u \in Task
        PROVE  /\ task'[u].pc # "idle" => task'[u].op \in Operation
               /\ task'[u].pc # "lead" /\ flushing' # u
               /\ task'[u].pc = "retiring" <=> retiring'.by = u
    <3>1. CASE u = t
      BY <1>0, <2>1, <2>2, <3>1 DEF Moves, TaskInv
    <3>2. CASE u # t
      BY <1>0, <2>1, <2>2, <3>2 DEF Moves, TaskInv
    <3> QED
      BY <3>1, <3>2
  <2>4. durable_end' \in 1 .. next_seq'
    BY <1>0, <2>1 DEF TaskInv
  <2> QED
    BY <1>0, <2>1, <2>2, <2>3, <2>4 DEF Moves, TaskInv
<1>10. ASSUME NEW t \in Task, rotate(t) PROVE TaskInv'
  <2>1. /\ task[t].pc = "rotate" /\ flushing = None /\ durable_end' \in {durable_end, next_seq}
        /\ UNCHANGED <<next_seq, flushing, retiring>>
    BY <1>10 DEF rotate, FlushedByRotation
  <2>2. Moves(t, Place \ {"lead", "retiring"})
    BY <1>0, <1>10, EndMoves, DurableMoves DEF Moves, Place, rotate
  <2>3. durable_end' \in 1 .. next_seq' /\ next_seq' >= next_seq
    BY <1>0, <2>1
  <2> QED
    BY <1>0, <2>1, <2>2, <2>3, TaskStutters
<1>11. CASE tick
  <2>1. PICK p \in {"rotate", "lead", "retire"} :
          /\ p = "lead" => flushing = None /\ durable_end < next_seq
          /\ task' = [task EXCEPT ![Ticker] =
                [Idle EXCEPT !.op = "Tick", !.pc = p, !.covered = IF p = "lead" THEN next_seq ELSE 0]]
          /\ flushing' = IF p = "lead" THEN Ticker ELSE flushing
    BY <1>11 DEF tick
  <2>2. task[Ticker].pc = "idle" /\ UNCHANGED <<next_seq, durable_end, retiring>>
    BY <1>11, IdleState DEF tick
  <2> DEFINE c == IF p = "lead" THEN next_seq ELSE 0
             e == [Idle EXCEPT !.op = "Tick", !.pc = p, !.covered = c]
  <2>3. e \in TaskState /\ e.pc = p /\ e.op = "Tick" /\ e.covered = c
    BY <1>0, IdleState DEF TaskState, Place, Operation
  <2>4. task' = [task EXCEPT ![Ticker] = e]
    BY <2>1
  <2> HIDE DEF e
  <2>5. Moves(Ticker, {p}) /\ task'[Ticker].covered = c
    BY <1>0, <2>3, <2>4 DEF Moves, Operation
  <2>6. ASSUME NEW u \in Task
        PROVE  /\ task'[u].pc # "idle" => task'[u].op \in Operation
               /\ task'[u].pc = "lead" <=> flushing' = u
               /\ task'[u].pc = "lead" => task'[u].covered \in durable_end' .. next_seq'
               /\ task'[u].pc = "retiring" <=> retiring'.by = u
    <3>1. CASE u = Ticker
      BY <1>0, <2>1, <2>2, <2>5, <3>1 DEF Moves, TaskInv
    <3>2. CASE u # Ticker
      BY <1>0, <2>1, <2>2, <2>5, <3>2 DEF Moves, TaskInv
    <3> QED
      BY <3>1, <3>2
  <2> QED
    BY <1>0, <2>1, <2>2, <2>5, <2>6 DEF Moves, TaskInv
<1>12. ASSUME NEW t \in Task, UNCHANGED <<next_seq, durable_end, flushing>>,
              retiring.by \in {t, None}, retiring'.by \in {t, None},
              Moves(t, IF retiring'.by = t THEN {"retiring"} ELSE {"idle", "big", "rotate"}),
              task[t].pc \in {"retire", "retiring"}
       PROVE  TaskInv'
  <2>1. ASSUME NEW u \in Task
        PROVE  /\ task'[u].pc # "idle" => task'[u].op \in Operation
               /\ task'[u].pc = "lead" <=> flushing' = u
               /\ task'[u].pc = "lead" => task'[u].covered \in durable_end' .. next_seq'
               /\ task'[u].pc = "retiring" <=> retiring'.by = u
    <3>1. CASE u = t
      BY <1>0, <1>12, <3>1 DEF Moves, TaskInv
    <3>2. CASE u # t
      BY <1>0, <1>12, <3>2 DEF Moves, TaskInv
    <3> QED
      BY <3>1, <3>2
  <2> QED
    BY <1>0, <1>12, <2>1 DEF Moves, TaskInv
<1>13. ASSUME NEW t \in Task, retire_closed(t) PROVE TaskInv'
  <2>1. /\ task[t].pc = "retire" /\ retiring.by = None
        /\ UNCHANGED <<next_seq, durable_end, flushing>>
    BY <1>13 DEF retire_closed
  <2>2. CASE Retired(t, Len(closed)) /\ UNCHANGED retiring
    BY <1>0, <1>12, <2>1, <2>2, RetiredMoves
  <2>3. CASE Goto(t, "retiring") /\ FlushFiles(t, closed)
    <3>1. retiring'.by = t
      BY <2>3 DEF FlushFiles
    <3>2. Moves(t, {"retiring"})
      BY <1>0, <2>1, <2>3, GotoMoves DEF Place
    <3> QED
      BY <1>12, <2>1, <3>1, <3>2
  <2> QED
    BY <1>13, <2>2, <2>3 DEF retire_closed
<1>14. ASSUME UNCHANGED <<next_seq, durable_end, flushing, task>>, retiring'.by = retiring.by
       PROVE  TaskInv'
  BY <1>14 DEF TaskInv
<1>15. ASSUME NEW t \in Task, retire_flush(t) \/ retire_unlink(t) PROVE TaskInv'
  BY <1>14, <1>15 DEF retire_flush, retire_unlink, FlushFiles
<1>16. ASSUME NEW t \in Task, retire_end(t) PROVE TaskInv'
  <2>1. /\ retiring.by = t /\ retiring'.by = None /\ task[t].pc = "retiring"
        /\ UNCHANGED <<next_seq, durable_end, flushing>>
    BY <1>16 DEF retire_end, NotRetiring, TaskInv
  <2>2. Moves(t, {"idle", "big", "rotate"})
    BY <1>0, <1>16, <2>1, RetiredMoves DEF retire_end
  <2> QED
    BY <1>0, <1>12, <2>1, <2>2
<1>17. ASSUME NEW t \in Task, RetirementFails(t) PROVE TaskInv'
  <2>0. RetireFailed(t) /\ (retiring.by = t \/ (retiring.by = None /\ task[t].pc = "retire"))
    BY <1>17 DEF RetirementFails, retire_dir_fails, retire_fails
  <2>1. /\ retiring.by \in {t, None} /\ retiring'.by = None /\ task[t].pc \in {"retire", "retiring"}
        /\ UNCHANGED <<next_seq, durable_end, flushing>>
    BY <2>0 DEF RetireFailed, NotRetiring, TaskInv
  <2>2. Moves(t, {"idle", "big", "rotate"})
    BY <1>0, <2>0, EndMoves DEF RetireFailed, Moves
  <2> QED
    BY <1>0, <1>12, <2>1, <2>2
<1>18. CASE WritebackFails
  BY <1>14, <1>18 DEF WritebackFails
<1>19. CASE PowerLoss
  <2>1. /\ task' = [t \in Task |-> Idle] /\ flushing' = None /\ retiring'.by = None
        /\ next_seq' = 1 /\ durable_end' = 1
    BY <1>19 DEF PowerLoss, NotRetiring
  <2> QED
    BY <1>0, <2>1, IdleState DEF TaskInv
<1>20. CASE replay_refuses \/ replay_apply \/ replay_flush \/ Reopen
  BY <1>14, <1>20 DEF replay_refuses, replay_apply, replay_flush, Reopen
<1>21. CASE replay_unlink
  <2>1. /\ status = "flushed" /\ next_seq' \in Nat \ {0} /\ durable_end' = next_seq'
        /\ UNCHANGED <<flushing, task, retiring>>
    BY <1>21 DEF replay_unlink
  <2>2. \A t \in Task : task[t].pc = "idle"
    BY <2>1 DEF RestartInv
  <2> QED
    BY <1>0, <2>1, <2>2 DEF TaskInv
<1>22. CASE UNCHANGED walVars
  BY <1>14, <1>22 DEF walVars
<1> QED
  BY <1>1, <1>2, <1>3, <1>4, <1>5, <1>6, <1>7, <1>8, <1>9, <1>10, <1>11, <1>13, <1>15, <1>16,
     <1>17, <1>18, <1>19, <1>20, <1>21, <1>22, <1>23
     DEF WalNext, TaskStep, WriterStep, Restart

LEMMA RestartPreserved ==
    ASSUME TaskInv, RestartInv, [WalNext]_walVars
    PROVE  RestartInv'
<1> USE DEF logVars, retireVars
<1>0. Writer \subseteq Task /\ Ticker \in Task /\ None \notin Task
  BY WalAssumption DEF Task
<1>1. ASSUME NEW w \in Writer, begin_operation(w) \/ WriterStep(w) PROVE RestartInv'
  <2>1. w \in Task
    BY <1>0
  <2>2. status = "up" /\ UNCHANGED <<status, closed, retiring>>
    BY <1>1, <2>1, AtWork DEF begin_operation, WriterStep, write_file, write_fails, big_write,
                              big_write_fails, append, append_fails, open_segment_fails, AppendFailed
  <2> QED
    BY <2>2 DEF RestartInv
<1>2. ASSUME NEW t \in Task, TaskStep(t) \/ RetirementFails(t) PROVE RestartInv'
  <2>1. status = "up" /\ UNCHANGED status
    BY <1>2, AtWork DEF TaskStep, wait_durable, lead_flush, flush_returns, flush_unwinds, rotate, retire_closed,
                        retire_flush, retire_unlink, retire_end, RetirementFails, retire_dir_fails, retire_fails,
                        RetireFailed
  <2>2. CASE UNCHANGED retiring
    BY <2>1, <2>2 DEF RestartInv
  <2>3. CASE retiring' = NotRetiring
    BY <2>1, <2>3 DEF RestartInv, NotRetiring
  <2>4. CASE retire_closed(t) /\ FlushFiles(t, closed) /\ closed # <<>>
    BY <1>0, <2>1, <2>4 DEF RestartInv, FlushFiles
  <2>5. CASE retire_flush(t)
    BY <1>0, <2>1, <2>5 DEF RestartInv, FlushFiles, retire_flush
  <2>6. CASE retire_unlink(t)
    BY <1>0, <2>1, <2>6 DEF RestartInv, retire_unlink
  <2> QED
    BY <1>2, <2>2, <2>3, <2>4, <2>5, <2>6
       DEF TaskStep, wait_durable, lead_flush, flush_returns, flush_unwinds, rotate, retire_closed, retire_end,
           RetirementFails, retire_dir_fails, retire_fails, RetireFailed
<1>3. CASE tick \/ WritebackFails
  BY <1>3 DEF tick, WritebackFails, RestartInv
<1>4. CASE PowerLoss
  BY <1>4, IdleState DEF PowerLoss, RestartInv, NotRetiring
<1>5. CASE Restart
  BY <1>5 DEF Restart, replay_refuses, replay_apply, replay_flush, replay_unlink, Reopen, RestartInv
<1>6. CASE UNCHANGED walVars
  BY <1>6 DEF walVars, RestartInv
<1> QED
  BY <1>1, <1>2, <1>3, <1>4, <1>5, <1>6 DEF WalNext

-----------------------------------------------------------------------------
(* Chains of segments.                                                     *)

\* A segment is not empty and numbers its records without a gap.
Consecutive(segment) ==
    /\ segment # <<>>
    /\ \A j \in 1 .. Len(segment) : segment[j].seq = segment[1].seq + (j - 1)

LastSeq(chain) == Last(Last(chain)).seq

Linked(chain) ==
    /\ \A i \in 1 .. Len(chain) : Consecutive(chain[i])
    /\ \A i \in 1 .. Len(chain) - 1 : chain[i + 1][1].seq = Last(chain[i]).seq + 1

LEMMA LinkedConcat ==
    ASSUME NEW T, NEW c \in Seq(T), NEW d \in Seq(T), Linked(c \o d)
    PROVE  Linked(d) /\ (d # <<>> => LastSeq(c \o d) = LastSeq(d))
<1> DEFINE e == c \o d
<1>1. /\ Len(e) = Len(c) + Len(d) /\ Len(c) \in Nat /\ Len(d) \in Nat
      /\ \A i \in 1 .. Len(d) : d[i] = e[Len(c) + i]
  OBVIOUS
<1>2. Linked(e)
  OBVIOUS
<1> HIDE DEF e
<1>3. ASSUME NEW i \in 1 .. Len(d) PROVE Consecutive(d[i])
  <2>1. Len(c) + i \in 1 .. Len(e)
    BY <1>1
  <2> QED
    BY <1>1, <1>2, <2>1 DEF Linked
<1>4. ASSUME NEW i \in 1 .. Len(d) - 1 PROVE d[i + 1][1].seq = Last(d[i]).seq + 1
  <2>1. Len(c) + i \in 1 .. Len(e) - 1
    BY <1>1
  <2>2. d[i] = e[Len(c) + i] /\ d[i + 1] = e[Len(c) + i + 1]
    BY <1>1
  <2> QED
    BY <1>2, <2>1, <2>2 DEF Linked
<1>5. d # <<>> => Last(e) = Last(d)
  BY <1>1 DEF Last
<1> QED
  BY <1>3, <1>4, <1>5 DEF Linked, LastSeq, e

\* A chain and one segment more.
LEMMA LinkedAppend ==
    ASSUME NEW T, NEW c \in Seq(T), NEW s \in T, Linked(c), Consecutive(s),
           c # <<>> => s[1].seq = LastSeq(c) + 1
    PROVE  Linked(Append(c, s)) /\ LastSeq(Append(c, s)) = Last(s).seq
<1> DEFINE e == Append(c, s)
<1>1. /\ Len(e) = Len(c) + 1 /\ Len(c) \in Nat /\ e[Len(c) + 1] = s
      /\ \A i \in 1 .. Len(c) : e[i] = c[i]
  OBVIOUS
<1> HIDE DEF e
<1>2. ASSUME NEW i \in 1 .. Len(e) PROVE Consecutive(e[i])
  BY <1>1 DEF Linked
<1>3. ASSUME NEW i \in 1 .. Len(e) - 1 PROVE e[i + 1][1].seq = Last(e[i]).seq + 1
  <2>1. CASE i = Len(c)
    <3>1. c # <<>>
      BY <2>1, <1>1
    <3> QED
      BY <1>1, <2>1, <3>1 DEF LastSeq, Last
  <2>2. CASE i # Len(c)
    BY <1>1, <2>2 DEF Linked
  <2> QED
    BY <2>1, <2>2
<1> QED
  BY <1>1, <1>2, <1>3 DEF Linked, LastSeq, Last, e

\* One record more.
LEMMA ConsecutiveAppend ==
    ASSUME NEW S, \A r \in S : r.seq \in Nat, NEW s \in Seq(S), NEW r \in S,
           s # <<>> => Consecutive(s) /\ Last(s).seq + 1 = r.seq
    PROVE  /\ Consecutive(Append(s, r)) /\ Last(Append(s, r)) = r
           /\ Append(s, r)[1] = IF s = <<>> THEN r ELSE s[1]
<1> DEFINE e == Append(s, r)
<1>1. /\ Len(e) = Len(s) + 1 /\ Len(s) \in Nat /\ e[Len(s) + 1] = r /\ e # <<>>
      /\ \A i \in 1 .. Len(s) : e[i] = s[i] /\ s[i] \in S /\ s[i].seq \in Nat
  OBVIOUS
<1> HIDE DEF e
<1>2. CASE s = <<>>
  <2>1. Len(s) = 0
    BY <1>2
  <2>2. r.seq \in Nat
    OBVIOUS
  <2> QED
    BY <1>1, <1>2, <2>1, <2>2 DEF Consecutive, Last, e
<1>3. CASE s # <<>>
  <2>1. Len(s) >= 1 /\ e[1] = s[1] /\ s[1].seq \in Nat
    BY <1>1, <1>3
  <2>2. s[Len(s)].seq = s[1].seq + (Len(s) - 1) /\ r.seq = s[Len(s)].seq + 1
    BY <1>1, <1>3, <2>1 DEF Consecutive, Last
  <2>3. ASSUME NEW j \in 1 .. Len(e) PROVE e[j].seq = e[1].seq + (j - 1)
    <3>1. CASE j = Len(s) + 1
      <4>1. e[j].seq = s[Len(s)].seq + 1 /\ e[1].seq = s[1].seq
        BY <1>1, <2>1, <2>2, <3>1
      <4>2. \A a, b \in Nat : a = b + (Len(s) - 1) => a + 1 = b + (j - 1)
        BY <1>1, <3>1
      <4>3. s[Len(s)].seq \in Nat
        BY <1>1, <2>1
      <4> QED
        BY <2>1, <2>2, <4>1, <4>2, <4>3
    <3>2. CASE j # Len(s) + 1
      <4>1. j \in 1 .. Len(s) /\ e[j] = s[j]
        BY <1>1, <3>2
      <4> QED
        BY <1>3, <2>1, <4>1 DEF Consecutive
    <3> QED
      BY <3>1, <3>2
  <2> QED
    BY <1>1, <1>3, <2>1, <2>3 DEF Consecutive, Last, e
<1> QED
  BY <1>2, <1>3

\* The first records of a segment.
LEMMA ConsecutivePrefix ==
    ASSUME NEW S, NEW s \in Seq(S), Consecutive(s), NEW n \in 1 .. Len(s)
    PROVE  /\ SubSeq(s, 1, n) \in Seq(S) /\ Consecutive(SubSeq(s, 1, n))
           /\ SubSeq(s, 1, n)[1] = s[1]
<1> DEFINE e == SubSeq(s, 1, n)
<1>1. e \in Seq(S) /\ Len(e) = n /\ \A i \in 1 .. n : e[i] = s[i]
  BY SubSeqProperties
<1> HIDE DEF e
<1>2. e # <<>>
  BY <1>1
<1> QED
  BY <1>1, <1>2 DEF Consecutive, e

LEMMA SuffixSplits ==
    ASSUME NEW T, NEW s \in Seq(T), NEW x \in Suffixes(s)
    PROVE  x \in Seq(T) /\ \E p \in Seq(T) : s = p \o x
<1>1. CASE x = <<>>
  BY <1>1, ConcatEmptySeq
<1>2. ASSUME NEW l \in 1 .. Len(s), x = SubSeq(s, l, Len(s))
      PROVE  x \in Seq(T) /\ \E p \in Seq(T) : s = p \o x
  <2> DEFINE p == SubSeq(s, 1, l - 1)
  <2>1. x \in Seq(T) /\ p \in Seq(T)
    BY <1>2, SubSeqProperties
  <2>2. p \o SubSeq(s, (l - 1) + 1, Len(s)) = SubSeq(s, 1, Len(s))
    <3>1. 1 \in 1 .. Len(s) + 1 /\ l - 1 \in 1 - 1 .. Len(s) /\ Len(s) \in l - 1 .. Len(s)
      OBVIOUS
    <3> QED
      BY <3>1, ConcatAdjacentSubSeq
  <2>3. (l - 1) + 1 = l /\ SubSeq(s, 1, Len(s)) = s
    OBVIOUS
  <2> QED
    BY <1>2, <2>1, <2>2, <2>3
<1> QED
  BY <1>1, <1>2 DEF Suffixes

-----------------------------------------------------------------------------
(* The log.                                                                *)

\* S has the records of the log: what they say of the files is of no concern.
LogTyped(S) ==
    /\ \A r \in S : r.seq \in Nat \ {0}
    /\ active \in Seq(S) /\ closed \in Seq(Seq(S)) /\ unlinked \in Seq(Seq(S))
    /\ retiring.queue \in Seq(Seq(S)) /\ orphans \subseteq Nat \ {0}

\* The segments before the active one: a power loss may leave those that are
\* removed, too.
Past == unlinked \o (retiring.queue \o closed)

\* The chain of the segments has no hole, the active one ends it, and the next
\* record continues it.
ChainInv ==
    /\ Linked(Past)
    /\ active # <<>> => /\ Consecutive(active)
                        /\ Past # <<>> => active[1].seq = LastSeq(Past) + 1
    /\ status = "up" =>
          IF active = <<>> THEN Past # <<>> => LastSeq(Past) + 1 = next_seq
          ELSE Last(active).seq + 1 = next_seq

\* The active segment begins at or below the watermark.
WatermarkInv ==
    IF active = <<>> THEN durable_end = next_seq ELSE active[1].seq <= durable_end

LEMMA PastTyped ==
    ASSUME NEW S, LogTyped(S)
    PROVE  Past \in Seq(Seq(S))
BY DEF LogTyped, Past

LEMMA LogTypedGrows ==
    ASSUME NEW S, LogTyped(S), NEW R, S \subseteq R, \A r \in R : r.seq \in Nat \ {0}
    PROVE  LogTyped(R)
<1>1. \A s \in Seq(S) : s \in Seq(R)
  BY SeqMonotonic
<1>2. Seq(S) \subseteq Seq(R)
  BY <1>1
<1>3. \A c \in Seq(Seq(S)) : c \in Seq(Seq(R))
  BY <1>2, SeqMonotonic
<1> QED
  BY <1>1, <1>3 DEF LogTyped

\* The segments a power loss leaves before the active one end the chain.
LEMMA SurvivorsLinked ==
    ASSUME NEW S, LogTyped(S), TaskInv, RestartInv, Linked(Past), NEW old \in Survivors
    PROVE  /\ old \in Seq(Seq(S)) /\ Linked(old)
           /\ old # <<>> => LastSeq(old) = LastSeq(Past) /\ Past # <<>>
<1> DEFINE T == Seq(S)
           late == IF status = "flushed" THEN <<>> ELSE closed
           early == IF status = "flushed" THEN closed ELSE unlinked
<1>1. /\ closed \in Seq(T) /\ unlinked \in Seq(T) /\ retiring.queue \in Seq(T)
      /\ late \in Seq(T) /\ early \in Seq(T)
  BY DEF LogTyped
<1>2. PICK x \in Suffixes(early) : old = (x \o retiring.queue) \o late
  BY DEF Survivors
<1> HIDE DEF T, early, late
<1>3. x \in Seq(T) /\ \E p \in Seq(T) : early = p \o x
  BY <1>1, <1>2, SuffixSplits
<1>4. PICK p \in Seq(T) : early = p \o x
  BY <1>3
<1>5. Past = early \o (retiring.queue \o late)
  <2>1. CASE status = "flushed"
    <3>1. unlinked = <<>> /\ retiring.queue = <<>>
      BY <2>1 DEF RestartInv, NotRetiring
    <3>2. Past = closed
      BY <1>1, <3>1, ConcatEmptySeq DEF Past
    <3>3. retiring.queue \o late = <<>>
      BY <1>1, <2>1, <3>1, ConcatEmptySeq DEF late
    <3> QED
      BY <1>1, <2>1, <3>2, <3>3, ConcatEmptySeq DEF early
  <2>2. CASE status # "flushed"
    BY <2>2 DEF Past, early, late
  <2> QED
    BY <2>1, <2>2
<1>6. old = x \o (retiring.queue \o late) /\ retiring.queue \o late \in Seq(T)
  <2>0. PICK q \in Seq(T) : q = retiring.queue
    BY <1>1
  <2>1. x \in Seq(T) /\ late \in Seq(T)
    BY <1>1, <1>3
  <2>2. (x \o q) \o late = x \o (q \o late)
    BY <2>1, ConcatAssociative
  <2> QED
    BY <1>2, <2>0, <2>1, <2>2, ConcatProperties
<1>7. old \in Seq(T)
  BY <1>3, <1>6, ConcatProperties
<1>8. Past = p \o old
  <2> DEFINE z == retiring.queue \o late
  <2>1. z \in Seq(T) /\ old = x \o z /\ Past = (p \o x) \o z
    BY <1>4, <1>5, <1>6
  <2> HIDE DEF z
  <2>2. (p \o x) \o z = p \o (x \o z)
    BY <1>3, <1>4, <2>1, ConcatAssociative
  <2> QED
    BY <2>1, <2>2
<1>9. old # <<>> => Past # <<>>
  BY <1>4, <1>7, <1>8, ConcatEqualIffEmpty
<1> QED
  BY <1>4, <1>7, <1>8, <1>9, LinkedConcat DEF T

LEMMA LogTypedPreserved ==
    ASSUME TaskInv, RestartInv, ChainInv, NEW S, LogTyped(S), [WalNext]_walVars
    PROVE  \E R : LogTyped(R) /\ LogTyped(R)'
<1> USE DEF logVars, retireVars
<1>0. /\ \A r \in S : r.seq \in Nat \ {0}
      /\ active \in Seq(S) /\ closed \in Seq(Seq(S)) /\ unlinked \in Seq(Seq(S))
      /\ retiring.queue \in Seq(Seq(S)) /\ <<>> \in Seq(S) /\ <<>> \in Seq(Seq(S))
      /\ orphans \subseteq Nat \ {0}
  BY DEF LogTyped
<1>1. CASE UNCHANGED <<active, closed, unlinked, retiring>> /\ orphans' \subseteq Nat \ {0}
  BY <1>1 DEF LogTyped
<1>2. ASSUME NEW w \in Writer, append(w) PROVE \E R : LogTyped(R) /\ LogTyped(R)'
  <2>1. PICK r : r = Record(w)
    OBVIOUS
  <2>2. PICK R : R = S \union {r}
    OBVIOUS
  <2>3. r.seq \in Nat \ {0}
    BY <2>1 DEF Record, TaskInv
  <2>4. LogTyped(R)
    BY <1>0, <2>2, <2>3, LogTypedGrows
  <2>5. active' = Append(active, r) /\ UNCHANGED <<closed, unlinked, retiring, orphans>>
    BY <1>2, <2>1 DEF append
  <2>6. active \in Seq(R) /\ r \in R
    BY <2>2, <2>4 DEF LogTyped
  <2>7. active' \in Seq(R)
    BY <2>5, <2>6
  <2> QED
    BY <2>4, <2>5, <2>7 DEF LogTyped
<1>3. ASSUME NEW t \in Task, TaskStep(t) \/ RetirementFails(t) PROVE \E R : LogTyped(R) /\ LogTyped(R)'
  <2>0. UNCHANGED orphans
    BY <1>3 DEF TaskStep, wait_durable, lead_flush, flush_returns, flush_unwinds, rotate, retire_closed,
                retire_flush, retire_unlink, retire_end, RetirementFails, retire_dir_fails, retire_fails,
                RetireFailed
  <2>1. CASE active' = <<>> /\ closed' = Append(closed, active) /\ UNCHANGED <<unlinked, retiring>>
    <3>1. closed' \in Seq(Seq(S))
      BY <1>0, <2>1
    <3> QED
      BY <1>0, <2>0, <2>1, <3>1 DEF LogTyped
  <2>2. CASE rotate(t)
    <3>1. \/ UNCHANGED <<active, closed, unlinked, retiring>>
          \/ active' = <<>> /\ closed' = Append(closed, active) /\ UNCHANGED <<unlinked, retiring>>
          \/ active = <<>> /\ active' = <<>> /\ UNCHANGED <<closed, unlinked, retiring>>
      BY <2>2 DEF rotate
    <3> QED
      BY <1>0, <1>1, <2>0, <2>1, <3>1
  <2>3. CASE retire_closed(t)
    <3>1. CASE UNCHANGED <<closed, retiring>>
      BY <1>0, <1>1, <2>0, <2>3, <3>1 DEF retire_closed
    <3>2. CASE retiring'.queue = closed /\ closed' = <<>>
      BY <1>0, <2>0, <2>3, <3>2 DEF LogTyped, retire_closed
    <3> QED
      BY <2>3, <3>1, <3>2 DEF retire_closed, FlushFiles
  <2>4. CASE retire_unlink(t)
    <3>1. retiring.queue # <<>> /\ retiring' = [by |-> t, queue |-> Tail(retiring.queue), unlinking |-> FALSE]
          /\ unlinked' = Append(unlinked, retiring.queue[1]) /\ UNCHANGED <<active, closed>>
      BY <2>4 DEF RestartInv, retire_unlink
    <3>2. retiring.queue[1] \in Seq(S) /\ Tail(retiring.queue) \in Seq(Seq(S))
      BY <1>0, <3>1
    <3>3. unlinked' \in Seq(Seq(S))
      BY <1>0, <3>1, <3>2
    <3> QED
      BY <1>0, <2>0, <3>1, <3>2, <3>3 DEF LogTyped
  <2>5. CASE retire_end(t) \/ RetirementFails(t)
    <3>1. closed' = retiring.queue \o closed /\ retiring'.queue = <<>> /\ unlinked' \in {<<>>, unlinked}
          /\ UNCHANGED active
      BY <2>5 DEF retire_end, RetirementFails, retire_dir_fails, retire_fails, RetireFailed, Requeued, NotRetiring
    <3>2. closed' \in Seq(Seq(S))
      BY <1>0, <3>1
    <3> QED
      BY <1>0, <2>0, <3>1, <3>2 DEF LogTyped
  <2>6. CASE retire_flush(t)
    BY <1>0, <2>0, <2>6 DEF LogTyped, retire_flush, FlushFiles
  <2>7. CASE wait_durable(t) \/ lead_flush(t) \/ flush_returns(t) \/ flush_unwinds(t)
    BY <1>0, <1>1, <2>0, <2>7 DEF wait_durable, lead_flush, flush_returns, flush_unwinds
  <2> QED
    BY <1>3, <2>2, <2>3, <2>4, <2>5, <2>6, <2>7 DEF TaskStep
<1>4. CASE PowerLoss
  <2>1. PICK n \in 0 .. Len(active), old \in Survivors :
            closed' = old \o Segments(SubSeq(active, 1, n))
    BY <1>4 DEF PowerLoss
  <2>2. active' = <<>> /\ unlinked' = <<>> /\ retiring'.queue = <<>>
    BY <1>4 DEF PowerLoss, NotRetiring
  <2>3. SubSeq(active, 1, n) \in Seq(S)
    BY <1>0, SubSeqProperties
  <2>4. Segments(SubSeq(active, 1, n)) \in Seq(Seq(S))
    BY <2>3 DEF Segments
  <2>5. old \in Seq(Seq(S))
    BY SurvivorsLinked DEF ChainInv
  <2>6. closed' \in Seq(Seq(S))
    BY <2>1, <2>4, <2>5
  <2>7. orphans' \subseteq Nat \ {0}
    <3>1. active # <<>> => active[1].seq \in Nat \ {0}
      BY <1>0
    <3> QED
      BY <1>0, <1>4, <3>1 DEF PowerLoss
  <2> QED
    BY <1>0, <2>2, <2>6, <2>7 DEF LogTyped
<1>5. CASE replay_unlink
  BY <1>0, <1>5 DEF replay_unlink, LogTyped
<1>6. ASSUME NEW w \in Writer, open_segment_fails(w) PROVE \E R : LogTyped(R) /\ LogTyped(R)'
  BY <1>0, <1>1, <1>6 DEF open_segment_fails, AppendFailed, TaskInv
<1>7. CASE UNCHANGED <<active, closed, unlinked, retiring, orphans>>
  BY <1>0, <1>1, <1>7
<1> QED
  BY <1>2, <1>3, <1>4, <1>5, <1>6, <1>7
     DEF WalNext, WriterStep, begin_operation, write_file, write_fails, big_write, big_write_fails, append_fails,
         AppendFailed, tick, WritebackFails, Restart, replay_refuses, replay_apply, replay_flush, Reopen, walVars

\* Numbering goes on behind the last record that is left.
LEMMA ReplayNumbers ==
    ASSUME NEW S, LogTyped(S), RestartInv, ChainInv, replay_unlink
    PROVE  next_seq' \in Nat \ {0}
<1>1. CASE closed = <<>>
  BY <1>1 DEF replay_unlink, LogTyped
<1>2. CASE closed # <<>>
  <2>1. closed \in Seq(Seq(S)) /\ unlinked = <<>> /\ retiring.queue = <<>>
    BY DEF LogTyped, RestartInv, NotRetiring, replay_unlink
  <2>2. Past = closed
    BY <2>1, ConcatEmptySeq DEF Past
  <2>3. PICK c \in Seq(Seq(S)) : c = closed
    BY <2>1
  <2>4. Len(c) \in 1 .. Len(c) /\ c[Len(c)] \in Seq(S)
    BY <1>2, <2>3
  <2>5. PICK s \in Seq(S) : s = Last(closed)
    BY <2>3, <2>4 DEF Last
  <2>6. s # <<>>
    BY <2>2, <2>3, <2>4, <2>5 DEF ChainInv, Linked, Consecutive, Last
  <2>7. s[Len(s)] \in S
    BY <2>6
  <2>8. Last(s).seq \in Nat
    BY <2>7 DEF Last, LogTyped
  <2> QED
    BY <1>2, <2>5, <2>8 DEF replay_unlink
<1> QED
  BY <1>1, <1>2

LEMMA ChainPreserved ==
    ASSUME TaskInv, RestartInv, ChainInv, NEW S, LogTyped(S), LogTyped(S)', [WalNext]_walVars
    PROVE  ChainInv'
<1> USE DEF logVars, retireVars
<1> DEFINE T == Seq(S)
<1>0. /\ \A r \in S : r.seq \in Nat
      /\ active \in T /\ closed \in Seq(T) /\ unlinked \in Seq(T) /\ retiring.queue \in Seq(T)
      /\ Past \in Seq(T) /\ next_seq \in Nat
  BY PastTyped DEF LogTyped, TaskInv
<1>1. CASE UNCHANGED <<active, Past, next_seq, status>>
  BY <1>1 DEF ChainInv
<1>2. ASSUME NEW w \in Writer, append(w) PROVE ChainInv'
  <2>0. status = "up"
    BY <1>2, AtWork DEF append, Task
  <2>1. PICK r : r = Record(w)
    OBVIOUS
  <2>2. /\ active' = Append(active, r) /\ r.seq = next_seq /\ next_seq' = next_seq + 1
        /\ status' = status /\ Past' = Past
    BY <1>2, <2>1 DEF append, Record, Past
  <2>3. r \in S
    <3>1. active' \in Seq(S) /\ Len(active) + 1 \in 1 .. Len(active') /\ active'[Len(active) + 1] = r
      BY <1>0, <2>2 DEF LogTyped
    <3> QED
      BY <3>1
  <2>4. active # <<>> => Consecutive(active) /\ Last(active).seq + 1 = r.seq
    BY <2>0, <2>2 DEF ChainInv
  <2>5. /\ Consecutive(active') /\ Last(active') = r /\ active' # <<>>
        /\ active'[1] = IF active = <<>> THEN r ELSE active[1]
    <3>1. PICK a \in Seq(S) : a = active
      BY <1>0
    <3>2. /\ Consecutive(Append(a, r)) /\ Last(Append(a, r)) = r
          /\ Append(a, r)[1] = IF a = <<>> THEN r ELSE a[1]
      <4>1. \A x \in S : x.seq \in Nat
        BY <1>0
      <4>2. a # <<>> => Consecutive(a) /\ Last(a).seq + 1 = r.seq
        BY <2>4, <3>1
      <4> QED
        BY <2>3, <4>1, <4>2, ConsecutiveAppend
    <3> QED
      BY <2>2, <3>1, <3>2 DEF Consecutive
  <2> QED
    BY <1>0, <2>0, <2>2, <2>5 DEF ChainInv
<1>3. ASSUME NEW t \in Task, rotate(t) PROVE ChainInv'
  <2>0. status = "up" /\ status' = status /\ next_seq' = next_seq
    BY <1>3, AtWork DEF rotate
  <2>1. \/ UNCHANGED <<active, closed, unlinked, retiring>>
        \/ active # <<>> /\ active' = <<>> /\ closed' = Append(closed, active)
           /\ UNCHANGED <<unlinked, retiring>>
    BY <1>3 DEF rotate
  <2>2. CASE UNCHANGED <<active, closed, unlinked, retiring>>
    BY <1>1, <2>0, <2>2 DEF Past
  <2>3. CASE /\ active # <<>> /\ active' = <<>> /\ closed' = Append(closed, active)
             /\ UNCHANGED <<unlinked, retiring>>
    <3>1. PICK u \in Seq(T), q \in Seq(T), c \in Seq(T), a \in T :
              u = unlinked /\ q = retiring.queue /\ c = closed /\ a = active
      BY <1>0
    <3>2. u \o (q \o Append(c, a)) = Append(u \o (q \o c), a)
      <4> HIDE DEF T
      <4>1. q \o Append(c, a) = Append(q \o c, a) /\ q \o c \in Seq(T)
        OBVIOUS
      <4> QED
        BY <4>1
    <3>3. Past' = Append(Past, active)
      BY <2>3, <3>1, <3>2 DEF Past
    <3>4. Linked(Append(Past, active)) /\ LastSeq(Append(Past, active)) = Last(active).seq
      <4>1. /\ Consecutive(active) /\ Linked(Past)
            /\ Past # <<>> => active[1].seq = LastSeq(Past) + 1
        BY <2>3 DEF ChainInv
      <4> HIDE DEF T
      <4> QED
        BY <1>0, <4>1, LinkedAppend
    <3> QED
      BY <2>0, <2>3, <3>3, <3>4 DEF ChainInv
  <2> QED
    BY <2>1, <2>2, <2>3
<1>4. ASSUME NEW t \in Task, retire_closed(t) PROVE ChainInv'
  <2>1. UNCHANGED <<active, next_seq, status, unlinked>>
    BY <1>4 DEF retire_closed
  <2>2. CASE UNCHANGED <<closed, retiring>>
    BY <1>1, <2>1, <2>2 DEF Past
  <2>3. CASE retiring'.queue = closed /\ closed' = <<>>
    <3>1. retiring.queue = <<>>
      BY <1>4 DEF retire_closed, RestartInv, NotRetiring
    <3>2. closed \o <<>> = <<>> \o closed
      <4> HIDE DEF T
      <4> QED
        BY <1>0, ConcatEmptySeq
    <3> QED
      BY <1>1, <2>1, <2>3, <3>1, <3>2 DEF Past
  <2> QED
    BY <1>4, <2>2, <2>3 DEF retire_closed, FlushFiles
<1>5. ASSUME NEW t \in Task, retire_unlink(t) PROVE ChainInv'
  <2>1. /\ retiring.queue # <<>> /\ retiring'.queue = Tail(retiring.queue)
        /\ unlinked' = Append(unlinked, retiring.queue[1])
        /\ UNCHANGED <<active, closed, next_seq, status>>
    BY <1>5 DEF RestartInv, retire_unlink
  <2>2. PICK u \in Seq(T), q \in Seq(T), c \in Seq(T) :
            u = unlinked /\ q = retiring.queue /\ c = closed
    BY <1>0
  <2>3. Append(u, q[1]) \o (Tail(q) \o c) = u \o (q \o c)
    <3> HIDE DEF T
    <3>1. q # <<>> /\ Head(q) \in T /\ Tail(q) \in Seq(T) /\ q = <<Head(q)>> \o Tail(q) /\ q[1] = Head(q)
      BY <2>1, <2>2
    <3> DEFINE h == <<Head(q)>>
               r == Tail(q)
               v == r \o c
    <3>2. /\ h \in Seq(T) /\ r \in Seq(T) /\ v \in Seq(T) /\ q = h \o r
          /\ Append(u, q[1]) = u \o h
      BY <3>1, AppendIsConcat, ConcatProperties
    <3> HIDE DEF h, r
    <3>3. (u \o h) \o v = u \o (h \o v)
      <4> HIDE DEF v
      <4>1. u \in Seq(T) /\ h \in Seq(T) /\ v \in Seq(T)
        BY <3>2
      <4> QED
        BY <4>1, ConcatAssociative
    <3>4. (h \o r) \o c = h \o (r \o c)
      BY <3>2, ConcatAssociative
    <3> QED
      BY <3>2, <3>3, <3>4 DEF r
  <2> QED
    BY <1>1, <2>1, <2>2, <2>3 DEF Past
<1>18. ASSUME closed' = retiring.queue \o closed, retiring'.queue = <<>>,
              UNCHANGED <<unlinked, active, next_seq, status>>
       PROVE  ChainInv'
  <2>1. PICK d \in Seq(T) : d = retiring.queue \o closed
    <3> HIDE DEF T
    <3>1. retiring.queue \o closed \in Seq(T)
      BY <1>0
    <3> QED
      BY <3>1
  <2>2. <<>> \o d = d
    <3> HIDE DEF T
    <3> QED
      BY <2>1, ConcatEmptySeq
  <2> QED
    BY <1>1, <1>18, <2>1, <2>2 DEF Past
<1>6. ASSUME closed' = retiring.queue \o closed, retiring'.queue = <<>>, unlinked' = <<>>,
             UNCHANGED <<active, next_seq, status>>
      PROVE  ChainInv'
  <2>1. /\ closed' = retiring.queue \o closed /\ retiring'.queue = <<>> /\ unlinked' = <<>>
        /\ UNCHANGED <<active, next_seq, status>>
    BY <1>6
  <2>2. PICK u \in Seq(T), d \in Seq(T) : u = unlinked /\ d = retiring.queue \o closed
    <3> HIDE DEF T
    <3>1. retiring.queue \o closed \in Seq(T) /\ unlinked \in Seq(T)
      BY <1>0
    <3> QED
      BY <3>1
  <2>3. Past' = d /\ Past = u \o d
    <3> HIDE DEF T
    <3> QED
      BY <2>1, <2>2, ConcatEmptySeq DEF Past
  <2>4. Linked(d) /\ (d # <<>> => LastSeq(Past) = LastSeq(d) /\ Past # <<>>)
    <3> HIDE DEF T
    <3>1. Linked(u \o d)
      BY <2>3 DEF ChainInv
    <3>2. d # <<>> => u \o d # <<>>
      BY <2>2, ConcatEqualIffEmpty
    <3> QED
      BY <2>3, <3>1, <3>2, LinkedConcat
  <2> QED
    BY <2>1, <2>3, <2>4 DEF ChainInv
<1>19. ASSUME NEW t \in Task, retire_end(t) \/ RetirementFails(t) PROVE ChainInv'
  <2>1. /\ closed' = retiring.queue \o closed /\ retiring'.queue = <<>> /\ unlinked' \in {<<>>, unlinked}
        /\ UNCHANGED <<active, next_seq, status>>
    BY <1>19 DEF retire_end, RetirementFails, retire_dir_fails, retire_fails, RetireFailed, Requeued, NotRetiring
  <2> QED
    BY <1>6, <1>18, <2>1
<1>7. ASSUME NEW t \in Task, retire_flush(t) PROVE ChainInv'
  BY <1>1, <1>7 DEF retire_flush, FlushFiles, Past
<1>8. CASE PowerLoss
  <2>1. PICK n \in 0 .. Len(active), old \in Survivors :
            closed' = old \o Segments(SubSeq(active, 1, n))
    BY <1>8 DEF PowerLoss
  <2>2. active' = <<>> /\ unlinked' = <<>> /\ retiring'.queue = <<>> /\ status' # "up"
    BY <1>8 DEF PowerLoss, NotRetiring
  <2>3. old \in Seq(T) /\ Linked(old) /\ (old # <<>> => LastSeq(old) = LastSeq(Past))
    BY SurvivorsLinked DEF ChainInv
  <2>4. Past' = closed'
    <3>1. closed' \in Seq(T)
      BY DEF LogTyped
    <3>2. <<>> \o closed' = closed'
      BY <3>1, ConcatEmptySeq
    <3> QED
      BY <2>2, <3>2 DEF Past
  <2>5. CASE n = 0
    <3>1. SubSeq(active, 1, n) = <<>>
      BY <2>5
    <3>2. closed' = old
      BY <2>1, <2>3, <3>1, ConcatEmptySeq DEF Segments
    <3> QED
      BY <2>2, <2>3, <2>4, <3>2 DEF ChainInv
  <2>6. CASE n # 0
    <3>1. active # <<>> /\ n \in 1 .. Len(active)
      BY <1>0, <2>6
    <3>2. PICK s \in T : s = SubSeq(active, 1, n) /\ Consecutive(s) /\ s[1] = active[1]
      BY <1>0, <3>1, ConsecutivePrefix DEF ChainInv
    <3>3. old # <<>> => s[1].seq = LastSeq(old) + 1
      <4>1. old # <<>> => Past # <<>>
        BY SurvivorsLinked DEF ChainInv
      <4> QED
        BY <2>3, <3>1, <3>2, <4>1 DEF ChainInv
    <3>4. closed' = Append(old, s)
      <4>1. Segments(s) = <<s>>
        BY <3>2 DEF Segments, Consecutive
      <4> HIDE DEF T
      <4> QED
        BY <2>1, <2>3, <3>2, <4>1, AppendIsConcat
    <3>5. Linked(Append(old, s))
      <4> HIDE DEF T
      <4> QED
        BY <2>3, <3>2, <3>3, LinkedAppend
    <3> QED
      BY <2>2, <2>4, <3>4, <3>5 DEF ChainInv
  <2> QED
    BY <2>5, <2>6
<1>9. CASE replay_unlink
  <2>1. active = <<>> /\ unlinked = <<>> /\ retiring.queue = <<>>
    BY <1>9 DEF replay_unlink, RestartInv, NotRetiring
  <2>2. active' = <<>> /\ unlinked' = <<>> /\ retiring'.queue = <<>> /\ closed' = <<>> /\ status' # "up"
    BY <1>9, <2>1 DEF replay_unlink
  <2>3. Past' = <<>>
    BY <2>2 DEF Past
  <2> QED
    BY <2>2, <2>3 DEF ChainInv, Linked
<1>10. CASE Reopen
  <2>1. /\ active = <<>> /\ unlinked = <<>> /\ retiring.queue = <<>> /\ closed = <<>>
        /\ UNCHANGED <<active, unlinked, retiring, closed>>
    BY <1>10 DEF Reopen, RestartInv, NotRetiring
  <2>2. Past = <<>> /\ Past' = Past
    BY <2>1 DEF Past
  <2> QED
    BY <2>1, <2>2 DEF ChainInv, Linked
<1>11. CASE UNCHANGED <<active, closed, unlinked, retiring, next_seq>> /\ UNCHANGED status
  BY <1>1, <1>11 DEF Past
<1>12. CASE UNCHANGED <<active, closed, unlinked, retiring, next_seq>> /\ status' # "up"
  <2>1. Past' = Past
    BY <1>12 DEF Past
  <2> QED
    BY <1>12, <2>1 DEF ChainInv
<1>13. ASSUME NEW w \in Writer, begin_operation(w) \/ WriterStep(w) PROVE ChainInv'
  BY <1>2, <1>11, <1>13 DEF WriterStep, begin_operation, write_file, write_fails, big_write,
                            big_write_fails, append_fails, open_segment_fails, AppendFailed
<1>14. ASSUME NEW t \in Task, wait_durable(t) \/ lead_flush(t) \/ flush_returns(t) \/ flush_unwinds(t) PROVE ChainInv'
  BY <1>11, <1>14 DEF wait_durable, lead_flush, flush_returns, flush_unwinds
<1>15. CASE tick \/ WritebackFails
  BY <1>11, <1>15 DEF tick, WritebackFails
<1>16. CASE replay_refuses \/ replay_apply \/ replay_flush
  BY <1>12, <1>16 DEF replay_refuses, replay_apply, replay_flush
<1>17. CASE UNCHANGED walVars
  BY <1>11, <1>17 DEF walVars
<1> QED
  BY <1>3, <1>4, <1>5, <1>7, <1>8, <1>9, <1>10, <1>13, <1>14, <1>15, <1>16, <1>17, <1>19
     DEF WalNext, TaskStep, Restart

LEMMA WatermarkPreserved ==
    ASSUME TaskInv, RestartInv, ChainInv, WatermarkInv, NEW S, LogTyped(S), [WalNext]_walVars
    PROVE  WatermarkInv'
<1> USE DEF logVars, retireVars
<1>0. /\ \A r \in S : r.seq \in Nat
      /\ active \in Seq(S) /\ next_seq \in Nat /\ durable_end \in Nat
  BY DEF LogTyped, TaskInv
<1>1. CASE UNCHANGED <<active, next_seq, durable_end>>
  BY <1>1 DEF WatermarkInv
<1>2. ASSUME NEW w \in Writer, append(w) PROVE WatermarkInv'
  <2>1. PICK r : r = Record(w)
    OBVIOUS
  <2>2. active' = Append(active, r) /\ r.seq = next_seq /\ durable_end' = durable_end
    BY <1>2, <2>1 DEF append, Record
  <2>3. active' # <<>> /\ active'[1] = IF active = <<>> THEN r ELSE active[1]
    BY <1>0, <2>2
  <2> QED
    BY <1>0, <2>2, <2>3 DEF WatermarkInv
<1>3. ASSUME NEW t \in Task, flush_returns(t) PROVE WatermarkInv'
  <2>1. /\ UNCHANGED <<active, next_seq>> /\ durable_end' \in durable_end .. next_seq
    BY <1>0, <1>3 DEF flush_returns, Covered, TaskInv
  <2>2. active # <<>> => active[1].seq \in Nat
    BY <1>0
  <2> QED
    BY <1>0, <2>1, <2>2 DEF WatermarkInv
<1>4. ASSUME NEW t \in Task, rotate(t) PROVE WatermarkInv'
  BY <1>1, <1>4 DEF rotate, FlushedByRotation, WatermarkInv
<1>5. CASE PowerLoss \/ replay_unlink
  BY <1>5 DEF PowerLoss, replay_unlink, RestartInv, WatermarkInv
<1> QED
  BY <1>1, <1>2, <1>3, <1>4, <1>5
     DEF WalNext, WriterStep, begin_operation, write_file, write_fails, big_write, big_write_fails, append_fails,
         open_segment_fails, AppendFailed, TaskStep, wait_durable, lead_flush, flush_unwinds, retire_closed,
         retire_flush, retire_unlink, retire_end, RetirementFails, retire_dir_fails, retire_fails, RetireFailed,
         tick, WritebackFails, Restart, replay_refuses, replay_apply, replay_flush, Reopen, walVars

-----------------------------------------------------------------------------
(* The theorems.                                                           *)

LogInv == (\E S : LogTyped(S)) /\ ChainInv /\ WatermarkInv

LEMMA WalInitially == WalInit => TaskInv /\ RestartInv /\ LogInv
<1> SUFFICES ASSUME WalInit PROVE TaskInv /\ RestartInv /\ LogInv
  OBVIOUS
<1>1. TaskInv
  BY WalAssumption, IdleState DEF WalInit, TaskInv, NotRetiring, Task
<1>2. RestartInv
  BY IdleState DEF WalInit, RestartInv, NotRetiring
<1>3. LogTyped({})
  BY DEF WalInit, LogTyped, NotRetiring
<1>4. Past = <<>>
  BY DEF WalInit, Past, NotRetiring
<1>5. ChainInv /\ WatermarkInv
  BY <1>4 DEF WalInit, ChainInv, Linked, WatermarkInv
<1> QED
  BY <1>1, <1>2, <1>3, <1>5 DEF LogInv

\* The inductive invariant of the log, whatever the tasks do and whenever the
\* power fails.
THEOREM WalInvariant == WalSpec => [](TaskInv /\ RestartInv /\ LogInv)
<1>1. TaskInv /\ RestartInv /\ LogInv /\ [WalNext]_walVars => (TaskInv /\ RestartInv /\ LogInv)'
  <2> SUFFICES ASSUME TaskInv, RestartInv, LogInv, [WalNext]_walVars
               PROVE  TaskInv' /\ RestartInv' /\ LogInv'
    OBVIOUS
  <2>1. PICK R : LogTyped(R)
    BY DEF LogInv
  <2>2. PICK S : LogTyped(S) /\ LogTyped(S)'
    BY <2>1, LogTypedPreserved DEF LogInv
  <2>3. TaskInv'
    BY <2>2, TaskPreserved, ReplayNumbers DEF LogInv
  <2>4. RestartInv'
    BY RestartPreserved
  <2>5. ChainInv' /\ WatermarkInv'
    BY <2>2, ChainPreserved, WatermarkPreserved DEF LogInv
  <2> QED
    BY <2>2, <2>3, <2>4, <2>5 DEF LogInv
<1> QED
  BY <1>1, WalInitially, PTL DEF WalSpec

\* Nobody waits for somebody who is gone: the leader named by the flushing flag
\* is inside wal.rs's device flush, and the one that took the closed segments is
\* retiring them, after failed flushes and power losses too.
THEOREM NobodyParked == WalSpec => []NobodyParkedForGood
<1>1. TaskInv => NobodyParkedForGood
  BY DEF TaskInv, NobodyParkedForGood
<1> QED
  BY <1>1, WalInvariant, PTL

\* An unflushed frame is in the active segment: what the leader's expect() in
\* wal.rs relies on, and why flushing that file covers every append.
THEOREM UnflushedFramesCovered == WalSpec => []UnflushedInActive
<1>1. TaskInv /\ LogInv => UnflushedInActive
  <2> SUFFICES ASSUME TaskInv, LogInv, status = "up", NEW s \in durable_end .. next_seq - 1
               PROVE  \E i \in DOMAIN active : active[i].seq = s
    BY DEF UnflushedInActive
  <2>1. PICK S : LogTyped(S)
    BY DEF LogInv
  <2>2. active \in Seq(S) /\ next_seq \in Nat /\ durable_end \in Nat /\ \A r \in S : r.seq \in Nat
    BY <2>1 DEF LogTyped, TaskInv
  <2>3. active # <<>>
    BY <2>2 DEF LogInv, WatermarkInv
  <2>4. /\ active[1].seq \in Nat /\ active[1].seq <= durable_end /\ Len(active) \in Nat \ {0}
        /\ \A j \in 1 .. Len(active) : active[j].seq = active[1].seq + (j - 1)
        /\ active[Len(active)].seq + 1 = next_seq
    BY <2>2, <2>3 DEF LogInv, WatermarkInv, ChainInv, Consecutive, Last
  <2>5. active[1].seq + Len(active) = next_seq
    <3>1. active[Len(active)].seq = active[1].seq + (Len(active) - 1)
      BY <2>4
    <3> QED
      BY <2>2, <2>4, <3>1
  <2>6. PICK i \in 1 .. Len(active) : active[1].seq + (i - 1) = s
    <3>1. PICK f \in Nat, m \in Nat \ {0} : f = active[1].seq /\ m = Len(active)
      BY <2>4
    <3>2. s \in Nat /\ f <= s /\ s < f + m
      BY <2>2, <2>4, <2>5, <3>1
    <3>3. s - f + 1 \in 1 .. m /\ f + ((s - f + 1) - 1) = s
      BY <3>2
    <3> QED
      BY <3>1, <3>3
  <2> QED
    BY <2>2, <2>4, <2>6
<1> QED
  BY <1>1, WalInvariant, PTL

-----------------------------------------------------------------------------
(* Induction and recursion over an interval.                               *)

\* A set of naturals that is not empty has a least element.
LEMMA LeastNatural ==
    ASSUME NEW T, T \subseteq Nat, T # {}
    PROVE  \E n \in T : \A m \in T : n <= m
<1>1. IsWellFoundedOn(OpToRel(<, Nat), Nat)
  BY NatLessThanWellFounded
<1>2. PICK R : R = OpToRel(<, Nat)
  OBVIOUS
<1>3. \A m, n \in Nat : m < n => <<m, n>> \in R
  BY <1>2 DEF OpToRel
<1>4. PICK n \in T : \A m \in T : ~(<<m, n>> \in R)
  BY <1>1, <1>2, WFMin
<1>5. \A m \in T : m \in Nat /\ n \in Nat /\ ~ (m < n)
  BY <1>3, <1>4
<1>6. \A m \in T : n <= m
  BY <1>5
<1> QED
  BY <1>6

\* Induction over an interval, for a property given as a set.
LEMMA IntervalInduction ==
    ASSUME NEW N \in Nat, NEW G, 0 \in G,
           \A n \in 1 .. N : n - 1 \in G => n \in G
    PROVE  \A n \in 0 .. N : n \in G
<1> DEFINE T == {n \in 0 .. N : n \notin G}
<1>1. SUFFICES ASSUME T # {} PROVE FALSE
  OBVIOUS
<1>2. PICK n \in T : \A m \in T : n <= m
  <2>1. T \subseteq Nat
    OBVIOUS
  <2> HIDE DEF T
  <2> QED BY <1>1, <2>1, LeastNatural
<1>3. n \in 1 .. N /\ n - 1 \in 0 .. N /\ n - 1 \notin T
  BY <1>2
<1> QED
  BY <1>3

\* f runs through S from base, its n-th step being g's.
Recursion(f, N, S, base, g) ==
    /\ f \in [0 .. N -> S]
    /\ f[0] = base
    /\ \A n \in 1 .. N : f[n] = g[<<n, f[n - 1]>>]

\* A recursion over an interval has a solution.
LEMMA RecursionExists ==
    ASSUME NEW S, NEW base \in S, NEW N \in Nat, NEW g,
           \A n \in 1 .. N, s \in S : g[<<n, s>>] \in S
    PROVE  \E f : Recursion(f, N, S, base, g)
<1> DEFINE Sol(m, f) == f[0] = base /\ \A n \in 1 .. m : f[n] = g[<<n, f[n - 1]>>]
           G == {m \in 0 .. N : \E f \in [0 .. m -> S] : Sol(m, f)}
<1>1. 0 \in G
  <2>1. PICK f : f = [n \in 0 .. 0 |-> base]
    OBVIOUS
  <2>2. f \in [0 .. 0 -> S] /\ f[0] = base
    BY <2>1
  <2>3. \A n \in 1 .. 0 : FALSE
    OBVIOUS
  <2> QED
    BY <2>2, <2>3
<1>2. ASSUME NEW n \in 1 .. N, n - 1 \in G PROVE n \in G
  <2>1. PICK f \in [0 .. n - 1 -> S] : Sol(n - 1, f)
    BY <1>2
  <2>2. f[n - 1] \in S
    BY <2>1
  <2>3. g[<<n, f[n - 1]>>] \in S
    BY <2>2
  <2> DEFINE e == [m \in 0 .. n |-> IF m = n THEN g[<<n, f[n - 1]>>] ELSE f[m]]
  <2>4. e \in [0 .. n -> S]
    BY <2>1, <2>3
  <2>5. e[0] = base
    BY <2>1
  <2>6. \A m \in 1 .. n : e[m] = g[<<m, e[m - 1]>>]
    <3> TAKE m \in 1 .. n
    <3>1. CASE m = n
      <4>1. m - 1 \in 0 .. n /\ m - 1 # n
        BY <3>1
      <4>2. e[m - 1] = f[n - 1]
        BY <3>1, <4>1
      <4>3. m \in 0 .. n /\ e[m] = g[<<n, f[n - 1]>>]
        BY <3>1
      <4> QED
        BY <3>1, <4>2, <4>3
    <3>2. CASE m # n
      <4>1. m \in 1 .. n - 1 /\ m - 1 \in 0 .. n - 1
        BY <3>2
      <4>2. e[m] = f[m] /\ e[m - 1] = f[m - 1]
        BY <3>2, <4>1
      <4> QED
        BY <2>1, <4>1, <4>2
    <3> QED
      BY <3>1, <3>2
  <2> HIDE DEF e
  <2> QED
    BY <2>4, <2>5, <2>6
<1>3. \A n \in 0 .. N : n \in G
  <2> HIDE DEF G
  <2> QED BY <1>1, <1>2, IntervalInduction
<1>4. N \in 0 .. N
  OBVIOUS
<1>5. N \in G
  <2> HIDE DEF G
  <2> QED BY <1>3, <1>4
<1> QED
  BY <1>5 DEF Recursion

-----------------------------------------------------------------------------
(* What a key may hold.                                                    *)

\* The outcomes of m that are still open once every record below c is durable,
\* their values, and None if a replacement among them may be torn.
OutcomeType == [seq : Nat \union {None}, val : Contents, op : Operation \union {None}]
Open(m, c) ==
    {i \in 1 .. Len(m) : \A j \in 1 .. Len(m) : j > i => m[j].seq = None \/ m[j].seq >= c}
Plain(m, c) == {m[i].val : i \in Open(m, c)}
TornAt(m, c) == \E i \in Open(m, c) : i - 1 \in Open(m, c) /\ m[i].op = "Write"
Vals(m, c) == Plain(m, c) \union (IF TornAt(m, c) THEN {None} ELSE {})
Below(m, n) == \A i \in 1 .. Len(m) : m[i].seq = None \/ m[i].seq < n

LEMMA OpenBelow ==
    ASSUME NEW m \in Seq(OutcomeType), NEW n \in Nat, Below(m, n), NEW c \in Nat, c >= n
    PROVE  Plain(m, c) = Plain(m, n) /\ Vals(m, c) = Vals(m, n)
<1>0. \A i \in 1 .. Len(m) : m[i] \in OutcomeType
  OBVIOUS
<1>1. \A i \in 1 .. Len(m) : m[i].seq = None \/ (m[i].seq \in Nat /\ m[i].seq < n)
  BY <1>0 DEF OutcomeType, Below
<1>2. Open(m, c) = Open(m, n)
  BY <1>1 DEF Open
<1> QED
  BY <1>2 DEF Plain, Vals, TornAt

LEMMA OpenShrinks ==
    ASSUME NEW m \in Seq(OutcomeType), NEW c \in Nat, NEW d \in Nat, c <= d
    PROVE  Plain(m, d) \subseteq Plain(m, c) /\ Vals(m, d) \subseteq Vals(m, c)
<1>0. \A i \in 1 .. Len(m) : m[i] \in OutcomeType
  OBVIOUS
<1>1. \A i \in 1 .. Len(m) : m[i].seq = None \/ m[i].seq \in Nat
  BY <1>0 DEF OutcomeType
<1>2. Open(m, d) \subseteq Open(m, c)
  BY <1>1 DEF Open
<1> QED
  BY <1>2 DEF Plain, Vals, TornAt

LEMMA PlainInVals ==
    ASSUME NEW m, NEW c
    PROVE  Plain(m, c) \subseteq Vals(m, c)
BY DEF Vals

\* One outcome more, whose record may be durable ...
LEMMA OpenAppend ==
    ASSUME NEW m \in Seq(OutcomeType), NEW e \in OutcomeType, NEW c \in Nat
    PROVE  /\ Append(m, e) \in Seq(OutcomeType)
           /\ e.val \in Plain(Append(m, e), c)
           /\ e.seq = None \/ c <= e.seq =>
                 /\ Plain(Append(m, e), c) = Plain(m, c) \union {e.val}
                 /\ Vals(m, c) \subseteq Vals(Append(m, e), c)
                 /\ m # <<>> /\ e.op = "Write" => None \in Vals(Append(m, e), c)
                 /\ e.op # "Write" => Vals(Append(m, e), c) = Vals(m, c) \union {e.val}
           /\ e.seq \in Nat /\ e.seq < c => Vals(Append(m, e), c) = {e.val}
<1> DEFINE n == Len(m)
           a == Append(m, e)
<1>1. /\ a \in Seq(OutcomeType) /\ Len(a) = n + 1 /\ n \in Nat /\ a[n + 1] = e
      /\ \A i \in 1 .. n : a[i] = m[i]
  OBVIOUS
<1>2. e.seq = None \/ e.seq \in Nat
  BY DEF OutcomeType
<1>3. None \notin Nat
  BY WalAssumption
<1> HIDE DEF a, n
<1>4. n + 1 \in Open(a, c)
  BY <1>1 DEF Open
<1>5. e.val \in Plain(a, c)
  BY <1>1, <1>4 DEF Plain
<1>6. ASSUME e.seq = None \/ c <= e.seq
      PROVE  /\ Plain(a, c) = Plain(m, c) \union {e.val}
             /\ Vals(m, c) \subseteq Vals(a, c)
             /\ m # <<>> /\ e.op = "Write" => None \in Vals(a, c)
             /\ e.op # "Write" => Vals(a, c) = Vals(m, c) \union {e.val}
  <2>1. Open(a, c) = Open(m, c) \union {n + 1}
    <3>1. \A i \in 1 .. n : i \in Open(a, c) <=> i \in Open(m, c)
      <4> TAKE i \in 1 .. n
      <4>1. n + 1 \in 1 .. Len(a) /\ 1 .. Len(m) = 1 .. n /\ Len(a) = n + 1
        BY <1>1 DEF n
      <4>2. a[n + 1].seq = None \/ a[n + 1].seq >= c
        BY <1>1, <1>2, <1>6
      <4>3. ASSUME i \in Open(m, c) PROVE i \in Open(a, c)
        <5> SUFFICES ASSUME NEW j \in 1 .. Len(a), j > i PROVE a[j].seq = None \/ a[j].seq >= c
          <6>1. i \in 1 .. Len(a)
            BY <4>1, <1>1
          <6> QED
            BY <6>1 DEF Open
        <5>1. CASE j = n + 1
          BY <4>2, <5>1
        <5>2. CASE j # n + 1
          <6>1. j \in 1 .. n
            BY <4>1, <5>2, <1>1
          <6>2. a[j] = m[j] /\ j \in 1 .. Len(m)
            BY <1>1, <4>1, <6>1
          <6> QED
            BY <4>3, <6>2 DEF Open
        <5> QED
          BY <5>1, <5>2
      <4>4. ASSUME i \in Open(a, c) PROVE i \in Open(m, c)
        BY <1>1, <4>1, <4>4 DEF Open
      <4> QED
        BY <4>3, <4>4
    <3>2. Open(m, c) \subseteq 1 .. n /\ Open(a, c) \subseteq 1 .. n + 1
      BY <1>1 DEF Open, n
    <3>3. \A i \in 1 .. n + 1 : i = n + 1 \/ i \in 1 .. n
      BY <1>1
    <3> QED
      BY <1>4, <3>1, <3>2, <3>3
  <2>2. Open(m, c) \subseteq 1 .. n
    BY DEF Open, n
  <2>3. Plain(a, c) = Plain(m, c) \union {e.val}
    BY <1>1, <2>1, <2>2 DEF Plain
  <2>4. TornAt(m, c) => TornAt(a, c)
    <3> SUFFICES ASSUME TornAt(m, c) PROVE TornAt(a, c)
      OBVIOUS
    <3>1. PICK i \in Open(m, c) : i - 1 \in Open(m, c) /\ m[i].op = "Write"
      BY DEF TornAt
    <3> QED
      BY <3>1, <2>1, <2>2, <1>1 DEF TornAt
  <2>5. ASSUME m # <<>>, e.op = "Write" PROVE TornAt(a, c)
    <3>1. n >= 1
      BY <2>5, <1>1 DEF n
    <3>2. n \in Open(m, c)
      BY <3>1, <1>1 DEF Open, n
    <3>3. (n + 1) - 1 = n
      BY <1>1
    <3> QED
      BY <1>1, <2>1, <2>5, <3>2, <3>3 DEF TornAt
  <2>6. ASSUME e.op # "Write", TornAt(a, c) PROVE TornAt(m, c)
    <3>1. PICK i \in Open(a, c) : i - 1 \in Open(a, c) /\ a[i].op = "Write"
      BY <2>6 DEF TornAt
    <3>2. i # n + 1
      BY <2>6, <3>1, <1>1
    <3>3. i \in Open(m, c) /\ i \in 1 .. n
      BY <3>1, <3>2, <2>1, <2>2
    <3>4. i - 1 # n + 1
      BY <3>3, <1>1
    <3> QED
      BY <3>1, <3>3, <3>4, <2>1, <1>1 DEF TornAt
  <2> QED
    BY <2>3, <2>4, <2>5, <2>6 DEF Vals
<1>7. ASSUME e.seq \in Nat, e.seq < c PROVE Vals(a, c) = {e.val}
  <2>1. Open(a, c) = {n + 1}
    <3>1. ASSUME NEW i \in Open(a, c) PROVE i = n + 1
      <4>1. i \in 1 .. n + 1 /\ n + 1 \in 1 .. Len(a)
        BY <1>1 DEF Open
      <4>2. n + 1 > i => a[n + 1].seq = None \/ a[n + 1].seq >= c
        BY <4>1 DEF Open
      <4> QED
        BY <4>1, <4>2, <1>1, <1>3, <1>7
    <3> QED
      BY <3>1, <1>4
  <2>2. (n + 1) - 1 # n + 1
    BY <1>1
  <2> QED
    BY <2>1, <2>2, <1>1 DEF Vals, Plain, TornAt
<1> QED
  BY <1>1, <1>5, <1>6, <1>7 DEF a

\* Settling what is durable changes nothing for the cuts beyond it.
LEMMA SettleKeeps ==
    ASSUME NEW m \in Seq(OutcomeType), NEW s \in Nat
    PROVE  /\ Settle(m, s) \in Seq(OutcomeType)
           /\ m # <<>> => Settle(m, s) # <<>>
           /\ \A c \in Nat : c >= s =>
                 Plain(Settle(m, s), c) = Plain(m, c) /\ Vals(Settle(m, s), c) = Vals(m, c)
           /\ \A n \in Nat : Below(m, n) => Below(Settle(m, s), n)
<1> DEFINE covered == {i \in 1 .. Len(m) : m[i].seq # None /\ m[i].seq < s}
<1>0. DOMAIN m = 1 .. Len(m) /\ Len(m) \in Nat /\ \A i \in 1 .. Len(m) : m[i] \in OutcomeType
  OBVIOUS
<1>1. CASE covered = {}
  <2>1. Settle(m, s) = m
    BY <1>0, <1>1 DEF Settle
  <2> QED
    BY <2>1
<1>2. CASE covered # {}
  <2>1. \E i \in covered : \A j \in covered : j <= i
    <3> DEFINE T == {Len(m) - i : i \in covered}
    <3>1. T \subseteq Nat /\ T # {}
      BY <1>0, <1>2
    <3> HIDE DEF T
    <3>2. PICK n \in T : \A k \in T : n <= k
      BY <3>1, LeastNatural
    <3>3. PICK i \in covered : n = Len(m) - i
      BY <3>2 DEF T
    <3>4. \A j \in covered : Len(m) - j \in T
      BY DEF T
    <3>5. \A j \in covered : Len(m) - i <= Len(m) - j
      BY <3>2, <3>3, <3>4
    <3> QED
      BY <1>0, <3>5
  <2>2. PICK a : a = CHOOSE i \in covered : \A j \in covered : j <= i
    OBVIOUS
  <2>3. a \in covered
    BY <2>1, <2>2
  <2>4. a \in 1 .. Len(m) /\ m[a].seq # None /\ m[a].seq < s
    BY <2>3
  <2>5. PICK e : e = SubSeq(m, a, Len(m))
    OBVIOUS
  <2>6. Settle(m, s) = e
    BY <1>0, <1>2, <2>2, <2>5 DEF Settle
  <2>7. /\ e \in Seq(OutcomeType) /\ Len(e) = Len(m) - a + 1
        /\ \A i \in 1 .. Len(m) - a + 1 : e[i] = m[a + i - 1]
    BY <1>0, <2>4, <2>5, SubSeqProperties
  <2>8. e # <<>>
    BY <1>0, <2>4, <2>7
  <2>9. PICK n \in Nat : n = Len(m) - a + 1 /\ Len(m) = a + n - 1
    BY <1>0, <2>4
  <2>10. a \in Nat \ {0} /\ \A i \in 1 .. n : a + i - 1 \in 1 .. Len(m) /\ e[i] = m[a + i - 1]
    BY <1>0, <2>4, <2>7, <2>9
  <2>11. ASSUME NEW c \in Nat, c >= s
        PROVE  Plain(e, c) = Plain(m, c) /\ Vals(e, c) = Vals(m, c)
    <3>1. ASSUME NEW i \in Open(m, c) PROVE i >= a /\ i \in 1 .. Len(m)
      <4>1. i \in 1 .. Len(m) /\ (a > i => m[a].seq = None \/ m[a].seq >= c)
        BY <2>4 DEF Open
      <4>2. m[a].seq \in Nat
        BY <2>4, <1>0 DEF OutcomeType
      <4> QED
        BY <4>1, <4>2, <2>4, <2>11
    <3>2. ASSUME NEW i \in 1 .. n PROVE i \in Open(e, c) <=> a + i - 1 \in Open(m, c)
      <4>1. ASSUME i \in Open(e, c) PROVE a + i - 1 \in Open(m, c)
        <5> SUFFICES ASSUME NEW j \in 1 .. Len(m), j > a + i - 1 PROVE m[j].seq = None \/ m[j].seq >= c
          BY <2>10 DEF Open
        <5>1. j - a + 1 \in 1 .. n /\ j - a + 1 > i /\ a + (j - a + 1) - 1 = j
          BY <2>9, <2>10
        <5>2. e[j - a + 1] = m[j]
          BY <2>10, <5>1
        <5> QED
          BY <4>1, <5>1, <5>2, <2>7, <2>9 DEF Open
      <4>2. ASSUME a + i - 1 \in Open(m, c) PROVE i \in Open(e, c)
        <5> SUFFICES ASSUME NEW j \in 1 .. n, j > i PROVE e[j].seq = None \/ e[j].seq >= c
          BY <2>7, <2>9 DEF Open
        <5>1. a + j - 1 \in 1 .. Len(m) /\ a + j - 1 > a + i - 1 /\ e[j] = m[a + j - 1]
          BY <2>10
        <5> QED
          BY <4>2, <5>1 DEF Open
      <4> QED
        BY <4>1, <4>2
    <3>3. Open(e, c) \subseteq 1 .. n
      BY <2>7, <2>9 DEF Open
    <3>4. ASSUME NEW i \in Open(m, c)
          PROVE  i - a + 1 \in Open(e, c) /\ a + (i - a + 1) - 1 = i /\ e[i - a + 1] = m[i]
      <4>1. i - a + 1 \in 1 .. n /\ a + (i - a + 1) - 1 = i
        BY <3>1, <2>9, <2>10
      <4> QED
        BY <4>1, <3>2, <2>10
    <3>5. ASSUME NEW i \in Open(e, c)
          PROVE  i \in 1 .. n /\ a + i - 1 \in Open(m, c) /\ e[i] = m[a + i - 1]
      BY <3>2, <3>3, <2>10
    <3>6. Plain(e, c) = Plain(m, c)
      BY <3>4, <3>5 DEF Plain
    <3>7. ASSUME TornAt(e, c) PROVE TornAt(m, c)
      <4>1. PICK i \in Open(e, c) : i - 1 \in Open(e, c) /\ e[i].op = "Write"
        BY <3>7 DEF TornAt
      <4>2. a + i - 1 \in Open(m, c) /\ a + (i - 1) - 1 \in Open(m, c) /\ m[a + i - 1].op = "Write"
        BY <3>5, <4>1
      <4>3. a + (i - 1) - 1 = (a + i - 1) - 1
        BY <4>1, <3>3, <2>10
      <4> QED
        BY <4>2, <4>3 DEF TornAt
    <3>8. ASSUME TornAt(m, c) PROVE TornAt(e, c)
      <4>1. PICK i \in Open(m, c) : i - 1 \in Open(m, c) /\ m[i].op = "Write"
        BY <3>8 DEF TornAt
      <4>2. i - a + 1 \in Open(e, c) /\ (i - 1) - a + 1 \in Open(e, c) /\ e[i - a + 1].op = "Write"
        BY <3>4, <4>1
      <4>3. (i - 1) - a + 1 = (i - a + 1) - 1
        BY <3>1, <4>1, <2>10
      <4> QED
        BY <4>2, <4>3 DEF TornAt
    <3> QED
      BY <3>6, <3>7, <3>8 DEF Vals
  <2>12. ASSUME NEW l \in Nat, Below(m, l) PROVE Below(e, l)
    BY <2>7, <2>9, <2>10, <2>12 DEF Below
  <2> QED
    BY <2>6, <2>7, <2>8, <2>11, <2>12
<1> QED
  BY <1>1, <1>2

-----------------------------------------------------------------------------
(* The records of one key.                                                 *)

\* A record that is cancelled below c; the records that apply if those below c
\* survive; the last of them.
Gone(R, r, c) == \E q \in R : q.op = "Cancel" /\ q.val = r.seq /\ q.seq < c
Live(R, c) == {r \in R : r.op # "Cancel" /\ r.seq < c /\ ~ Gone(R, r, c)}
IsLast(r, S) == r \in S /\ \A q \in S : q.seq <= r.seq

\* Record r replaces contents v.
Accepts(r, v) == r.op \in {"Write", "Delete"} \/ v = None \/ (r.op = "Cas" /\ v = r.exp)

IsRecord(r) ==
    /\ r.seq \in Nat \ {0} /\ r.op \in {"Cas", "Write", "Delete", "Insert", "Cancel"}
    /\ r.op # "Cancel" => r.val \in Contents
    /\ r.op = "Delete" => r.val = None
    /\ r.op = "Cancel" => r.val \in Nat /\ r.val < r.seq

\* A cancel comes before the key's next record, and a record replaces what the
\* last one before it that applies leaves.
RecordsOK(R) ==
    /\ \A r \in R : IsRecord(r)
    /\ \A r, q \in R : r.seq = q.seq => r = q
    /\ \A q, r \in R : q.op = "Cancel" /\ r.op # "Cancel" /\ q.val < r.seq => q.seq < r.seq
    /\ \A r, p \in R : r.op # "Cancel" /\ IsLast(p, Live(R, r.seq)) => Accepts(r, p.val)

\* The record of the operation that h is at.
Own(h, r) == r.op # "Cancel" /\ r.seq \in h.held

\* An operation's record is the key's last, but for the cancel of it.
LogOK(R, K, h, n) ==
    /\ RecordsOK(R) /\ K \subseteq R
    /\ \A r \in K, q \in R \ K : q.seq < r.seq
    /\ \A r \in R : r.seq < n
    /\ h.held # {} => \E r \in K : Own(h, r)
    /\ \A r \in R : Own(h, r) =>
          /\ r \in K /\ r.val = h.val
          /\ \A q \in R : q.seq > r.seq => q.op = "Cancel" /\ q.val = r.seq /\ q.seq = h.seq
          /\ IF h.op = "Cancel" THEN r.op # "Insert" ELSE r.op = h.op /\ r.seq = h.seq
          /\ h.op = "Cancel" =>
                IF h.pc = "append" THEN r.seq = h.seq
                ELSE \E q \in R : q.op = "Cancel" /\ q.val = r.seq /\ q.seq = h.seq

Inserting(h) == h.pc # "idle" /\ h.op = "Insert"
Pending(h, v) == Inserting(h) /\ h.pc # "file" /\ v = h.val
Backed(R, K, m, c, v) == (\E r \in Live(R, c) \intersect K : Accepts(r, v)) \/ v \in Vals(m, c)

\* Whatever the device may hold, and whichever records survive, replay ends in
\* an outcome that is open.
CutOK(R, K, m, D, h, c) ==
    /\ \A v \in D : Backed(R, K, m, c, v) \/ Pending(h, v)
    /\ \A r \in R : IsLast(r, Live(R, c)) => Own(h, r) \/ r.val \in Plain(m, c)

OwnOK(R, K, m, D, f, h, r) ==
    /\ Below(m, r.seq)
    /\ \A v \in D : Backed(R, K, m, r.seq, v) \/ Pending(h, v)
    /\ \A q \in R : IsLast(q, Live(R, r.seq)) => q.val \in Plain(m, r.seq)
    /\ Vals(m, r.seq) \subseteq {None, IF r.op = "Insert" THEN None ELSE f}
    /\ r.op = "Cas" => r.exp = f

DataOK(R, K, m, D, f, h, d, n, p) ==
    /\ m \in Seq(OutcomeType) /\ m # <<>> /\ Below(m, n)
    /\ f \in D /\ D \subseteq Contents
    /\ \A c \in d .. n : CutOK(R, K, m, D, h, c)
    /\ \A c \in Nat : f \in Plain(m, c) \/ Pending(h, f)
    /\ ~p /\ h.held = {} => Vals(m, n) \subseteq {None, IF Inserting(h) THEN None ELSE f}
    /\ Inserting(h) => f = IF h.pc = "file" THEN None ELSE h.val
    /\ \A r \in R : Own(h, r) => OwnOK(R, K, m, D, f, h, r)

KeyOK(R, K, m, D, f, h, d, n, p) == LogOK(R, K, h, n) /\ DataOK(R, K, m, D, f, h, d, n, p)

-----------------------------------------------------------------------------
(* Which records apply.                                                    *)

LEMMA RecordNumbers ==
    ASSUME NEW R, RecordsOK(R)
    PROVE  \A r \in R : r.seq \in Nat /\ (r.op = "Cancel" => r.val \in Nat /\ r.val < r.seq)
BY DEF RecordsOK, IsRecord

\* Beyond the last record nothing changes.
LEMMA LiveBeyond ==
    ASSUME NEW R, RecordsOK(R), NEW n \in Nat, \A r \in R : r.seq < n, NEW c \in Nat, c >= n
    PROVE  Live(R, c) = Live(R, n)
<1>1. \A r \in R : r.seq < c /\ (Gone(R, r, c) <=> Gone(R, r, n))
  BY RecordNumbers DEF Gone
<1> QED
  BY <1>1 DEF Live

\* A record more, where it does not survive.
LEMMA LiveBefore ==
    ASSUME NEW R, NEW x, NEW c \in Nat, x.seq \in Nat, c <= x.seq
    PROVE  Live(R \union {x}, c) = Live(R, c)
<1>1. \A r \in R : Gone(R \union {x}, r, c) <=> Gone(R, r, c)
  BY DEF Gone
<1> QED
  BY <1>1 DEF Live

\* ... and where it does.
LEMMA LiveAfter ==
    ASSUME NEW R, RecordsOK(R), NEW x, x.seq \in Nat, x.op # "Cancel", \A r \in R : r.seq < x.seq,
           NEW c \in Nat, c > x.seq
    PROVE  Live(R \union {x}, c) = Live(R, x.seq) \union {x}
<1>1. \A r \in R : r.seq \in Nat /\ r.seq < c /\ (r.op = "Cancel" => r.val \in Nat /\ r.val < r.seq)
  BY RecordNumbers
<1>2. \A r \in R : Gone(R \union {x}, r, c) <=> Gone(R, r, x.seq)
  BY <1>1 DEF Gone
<1>3. ~ Gone(R \union {x}, x, c)
  BY <1>1 DEF Gone
<1> QED
  BY <1>1, <1>2, <1>3 DEF Live

\* A cancel brings back what applied before the record it is of.
LEMMA LiveCancelled ==
    ASSUME NEW R, RecordsOK(R), NEW r \in R, r.op # "Cancel",
           \A q \in R : q.seq > r.seq => q.op = "Cancel",
           NEW x \in R, x.op = "Cancel", x.val = r.seq, NEW c \in Nat, c > x.seq
    PROVE  Live(R, c) = Live(R, r.seq)
<1>1. \A q \in R : q.seq \in Nat /\ (q.op = "Cancel" => q.val \in Nat /\ q.val < q.seq)
  BY RecordNumbers
<1>2. Gone(R, r, c)
  BY DEF Gone
<1>3. ASSUME NEW y \in R, y.op # "Cancel", y # r PROVE y.seq < r.seq
  BY <1>1, <1>3 DEF RecordsOK
<1>4. ASSUME NEW y \in R, y.seq < r.seq, y.op # "Cancel" PROVE Gone(R, y, c) <=> Gone(R, y, r.seq)
  <2>1. \A q \in R : q.op = "Cancel" /\ q.val = y.seq => q.seq < r.seq
    BY <1>4 DEF RecordsOK
  <2>2. x.seq > r.seq
    BY <1>1
  <2> QED
    BY <1>1, <2>1, <2>2 DEF Gone
<1>5. r.seq < c
  BY <1>1
<1>6. ASSUME NEW y \in Live(R, c) PROVE y \in Live(R, r.seq)
  BY <1>1, <1>2, <1>3, <1>4, <1>6 DEF Live
<1>7. ASSUME NEW y \in Live(R, r.seq) PROVE y \in Live(R, c)
  <2>1. y \in R /\ y.op # "Cancel" /\ y.seq < r.seq /\ ~ Gone(R, y, r.seq)
    BY DEF Live
  <2>2. y.seq < c
    BY <1>1, <1>5, <2>1
  <2> QED
    BY <1>4, <2>1, <2>2 DEF Live
<1> QED
  BY <1>6, <1>7

-----------------------------------------------------------------------------
(* The steps of one key.                                                   *)

\* The operation's record is appended.
LEMMA KeyAppends ==
    ASSUME NEW R, NEW K, NEW m, NEW D, NEW f, NEW h, NEW g, NEW d \in Nat, NEW n \in Nat \ {0},
           d <= n, KeyOK(R, K, m, D, f, h, d, n, FALSE), h.held = {},
           NEW x, x.seq = n, x.op \in {"Cas", "Write", "Delete", "Insert"}, x.exp = f,
           x.op = h.op, x.val = h.val, IsRecord(x), x.op = "Insert" <=> Inserting(h),
           Inserting(h) => h.pc # "file",
           g.op = h.op, g.val = h.val, g.held = {n}, g.seq = n, g.pc # "idle",
           Inserting(h) => g.pc # "file"
    PROVE  KeyOK(R \union {x}, K \union {x}, m, D, f, g, d, n + 1, FALSE)
<1> DEFINE X == R \union {x}
           Y == K \union {x}
<1>0. LogOK(R, K, h, n) /\ DataOK(R, K, m, D, f, h, d, n, FALSE) /\ RecordsOK(R)
  BY DEF KeyOK, LogOK
<1>1. /\ \A r \in R : r.seq \in Nat /\ r.seq < n /\ r # x
      /\ \A r \in R : r.op = "Cancel" => r.val \in Nat /\ r.val < r.seq
  BY <1>0, RecordNumbers DEF LogOK
<1>2. \A c \in 0 .. n : Live(X, c) = Live(R, c)
  BY LiveBefore
<1>3. Live(X, n + 1) = Live(R, n) \union {x}
  <2>1. n + 1 \in Nat /\ n + 1 > x.seq /\ x.seq \in Nat /\ x.op # "Cancel" /\ \A r \in R : r.seq < x.seq
    BY <1>1
  <2>2. PICK c \in Nat : c = n + 1 /\ c > x.seq
    BY <2>1
  <2> HIDE DEF X, Y
  <2>3. Live(R \union {x}, c) = Live(R, x.seq) \union {x}
    BY <1>0, <2>1, <2>2, LiveAfter, ZenonT(30)
  <2> QED
    BY <2>2, <2>3 DEF X
<1>4. \A c \in d .. n : CutOK(R, K, m, D, h, c)
  BY <1>0 DEF DataOK
<1>5. Vals(m, n) \subseteq {None, IF x.op = "Insert" THEN None ELSE f} /\ Plain(m, n) \subseteq Vals(m, n)
  BY <1>0, PlainInVals DEF DataOK
<1>6. \A p \in R : IsLast(p, Live(R, n)) => p.val \in Plain(m, n)
  BY <1>4 DEF CutOK, Own
<1>7. RecordsOK(X)
  <2>1. \A r \in X : IsRecord(r)
    BY <1>0 DEF RecordsOK
  <2>2. \A r, q \in X : r.seq = q.seq => r = q
    BY <1>0, <1>1 DEF RecordsOK
  <2>3. \A q, r \in X : q.op = "Cancel" /\ r.op # "Cancel" /\ q.val < r.seq => q.seq < r.seq
    BY <1>0, <1>1 DEF RecordsOK
  <2>4. ASSUME NEW r \in X, NEW p \in X, r.op # "Cancel", IsLast(p, Live(X, r.seq))
        PROVE  Accepts(r, p.val)
    <3>1. r.seq \in 0 .. n
      BY <1>1
    <3>2. IsLast(p, Live(R, r.seq)) /\ p \in R
      BY <1>2, <2>4, <3>1 DEF IsLast, Live
    <3>3. CASE r = x
      <4>1. p.val = None \/ (x.op # "Insert" /\ p.val = f)
        BY <1>5, <1>6, <3>2, <3>3
      <4> QED
        BY <3>3, <4>1 DEF Accepts
    <3>4. CASE r \in R
      BY <1>0, <2>4, <3>2, <3>4 DEF RecordsOK
    <3> QED
      BY <3>3, <3>4
  <2> QED
    BY <2>1, <2>2, <2>3, <2>4 DEF RecordsOK
<1>8. \A r \in X : Own(g, r) <=> r = x
  BY <1>1 DEF Own
<1>9. LogOK(X, Y, g, n + 1)
  <2>1. X \ Y \subseteq R \ K /\ Y \subseteq X
    BY <1>0 DEF LogOK
  <2>2. \A r \in Y, q \in X \ Y : q.seq < r.seq
    BY <1>0, <1>1, <2>1 DEF LogOK
  <2>3. \A r \in X : r.seq < n + 1
    BY <1>1
  <2>4. \A q \in X : ~ (q.seq > x.seq)
    BY <1>1
  <2>5. g.op # "Cancel" /\ x \in Y /\ x \in X
    OBVIOUS
  <2> HIDE DEF X, Y
  <2> QED
    BY <1>7, <1>8, <2>1, <2>2, <2>3, <2>4, <2>5 DEF LogOK
<1>10. \A v : Pending(h, v) <=> Pending(g, v)
  BY DEF Pending, Inserting
<1>11. \A c \in 0 .. n : \A v : Backed(R, K, m, c, v) => Backed(X, Y, m, c, v)
  BY <1>2 DEF Backed
<1>12. \A v : Backed(R, K, m, n, v) => Backed(X, Y, m, n + 1, v)
  <2>1. Vals(m, n + 1) = Vals(m, n)
    BY <1>0, OpenBelow DEF DataOK
  <2> QED
    BY <1>3, <2>1 DEF Backed
<1>13. \A c \in d .. n + 1 : CutOK(X, Y, m, D, g, c)
  <2> TAKE c \in d .. n + 1
  <2>1. CASE c = n + 1
    <3>1. \A r \in X : IsLast(r, Live(X, c)) => r = x
      <4> SUFFICES ASSUME NEW r \in X, IsLast(r, Live(X, n + 1)), r # x PROVE FALSE
        BY <2>1
      <4>1. r \in R /\ x.seq <= r.seq
        BY <1>3 DEF IsLast
      <4> QED
        BY <1>1, <4>1
    <3>2. CutOK(R, K, m, D, h, n)
      BY <1>4
    <3> QED
      BY <1>8, <1>10, <1>12, <2>1, <3>1, <3>2 DEF CutOK
  <2>2. CASE c # n + 1
    <3>1. c \in d .. n /\ c \in 0 .. n
      BY <2>2
    <3>2. CutOK(R, K, m, D, h, c) /\ Live(X, c) = Live(R, c)
      BY <1>2, <1>4, <3>1
    <3>3. \A r \in X : IsLast(r, Live(X, c)) => r \in R /\ ~ Own(h, r)
      BY <3>2 DEF IsLast, Live, Own
    <3> QED
      BY <1>10, <1>11, <3>1, <3>2, <3>3 DEF CutOK
  <2> QED
    BY <2>1, <2>2
<1>14. OwnOK(X, Y, m, D, f, g, x)
  <2>1. Live(X, n) = Live(R, n)
    BY <1>2
  <2>2. CutOK(R, K, m, D, h, n) /\ n \in 0 .. n
    BY <1>4
  <2>3. \A q \in X : IsLast(q, Live(X, n)) => q.val \in Plain(m, n)
    BY <1>6, <2>1 DEF IsLast, Live
  <2>4. \A v \in D : Backed(X, Y, m, n, v) \/ Pending(g, v)
    BY <1>10, <1>11, <2>2 DEF CutOK
  <2>5. Below(m, n)
    BY <1>0 DEF DataOK
  <2> QED
    BY <1>5, <2>3, <2>4, <2>5 DEF OwnOK
<1>15. DataOK(X, Y, m, D, f, g, d, n + 1, FALSE)
  <2>1. m \in Seq(OutcomeType) /\ m # <<>> /\ Below(m, n) /\ f \in D /\ D \subseteq Contents
    BY <1>0 DEF DataOK
  <2>2. \A i \in 1 .. Len(m) : m[i] \in OutcomeType
    BY <2>1
  <2>3. Below(m, n + 1)
    BY <2>1, <2>2 DEF Below, OutcomeType
  <2>4. \A c \in Nat : f \in Plain(m, c) \/ Pending(g, f)
    BY <1>0, <1>10 DEF DataOK
  <2>5. Inserting(g) => f = IF g.pc = "file" THEN None ELSE g.val
    BY <1>0 DEF DataOK, Inserting
  <2> HIDE DEF X, Y
  <2> QED
    BY <1>8, <1>13, <1>14, <2>1, <2>3, <2>4, <2>5 DEF DataOK
<1> QED
  BY <1>9, <1>15 DEF KeyOK

\* h and g are at the same point of the same operation, as far as its key goes.
Similar(h, g) ==
    /\ g.held = h.held
    /\ Inserting(g) <=> Inserting(h)
    /\ Inserting(h) => g.val = h.val /\ (g.pc = "file" <=> h.pc = "file")
    /\ h.held # {} => /\ g.op = h.op /\ g.val = h.val /\ g.seq = h.seq
                      /\ g.op = "Cancel" => (g.pc = "append" <=> h.pc = "append")

LEMMA SimilarPending ==
    ASSUME NEW h, NEW g, Similar(h, g), NEW v
    PROVE  Pending(h, v) <=> Pending(g, v)
BY DEF Similar, Pending, Inserting

LEMMA SimilarLog ==
    ASSUME NEW R, NEW K, NEW h, NEW g, Similar(h, g), NEW n \in Nat, NEW l \in Nat, n <= l,
           LogOK(R, K, h, n)
    PROVE  LogOK(R, K, g, l)
<1>1. RecordsOK(R) /\ K \subseteq R /\ (\A r \in K, q \in R \ K : q.seq < r.seq)
  BY DEF LogOK
<1>2. \A r \in R : r.seq < l
  <2>1. \A r \in R : r.seq \in Nat /\ r.seq < n
    BY <1>1, RecordNumbers DEF LogOK
  <2> QED
    BY <2>1
<1>3. \A r \in R : Own(g, r) <=> Own(h, r)
  BY DEF Own, Similar
<1>4. g.held # {} => \E r \in K : Own(g, r)
  BY <1>1, <1>3 DEF LogOK, Similar
<1>5. ASSUME NEW r \in R, Own(g, r)
      PROVE  /\ r \in K /\ r.val = g.val
             /\ \A q \in R : q.seq > r.seq => q.op = "Cancel" /\ q.val = r.seq /\ q.seq = g.seq
             /\ IF g.op = "Cancel" THEN r.op # "Insert" ELSE r.op = g.op /\ r.seq = g.seq
             /\ g.op = "Cancel" =>
                   IF g.pc = "append" THEN r.seq = g.seq
                   ELSE \E q \in R : q.op = "Cancel" /\ q.val = r.seq /\ q.seq = g.seq
  <2>1. /\ g.op = h.op /\ g.val = h.val /\ g.seq = h.seq
        /\ g.op = "Cancel" => (g.pc = "append" <=> h.pc = "append")
    BY <1>5 DEF Own, Similar
  <2> QED
    BY <1>3, <1>5, <2>1 DEF LogOK
<1> QED
  BY <1>1, <1>2, <1>4, <1>5 DEF LogOK

\* What concerns other keys, or the log as a whole.
LEMMA KeyFrame ==
    ASSUME NEW R, NEW K, NEW m, NEW D, NEW f, NEW h, NEW g, Similar(h, g),
           NEW d \in Nat, NEW n \in Nat, d <= n, NEW e \in Nat, NEW l \in Nat, e <= l, d <= e, n <= l,
           NEW p \in BOOLEAN, NEW s \in BOOLEAN, p => s, KeyOK(R, K, m, D, f, h, d, n, p)
    PROVE  KeyOK(R, K, m, D, f, g, e, l, s)
<1>1. LogOK(R, K, h, n) /\ DataOK(R, K, m, D, f, h, d, n, p) /\ RecordsOK(R)
  BY DEF KeyOK, LogOK
<1>2. LogOK(R, K, g, l)
  BY <1>1, SimilarLog
<1>3. m \in Seq(OutcomeType) /\ m # <<>> /\ Below(m, n) /\ f \in D /\ D \subseteq Contents
  BY <1>1 DEF DataOK
<1>4. Below(m, l)
  <2>1. \A i \in 1 .. Len(m) : m[i] \in OutcomeType
    BY <1>3
  <2> QED
    BY <1>3, <2>1 DEF Below, OutcomeType
<1>5. /\ \A r \in R : Own(g, r) <=> Own(h, r)
      /\ \A v : Pending(h, v) <=> Pending(g, v)
  BY SimilarPending DEF Own, Similar
<1>6. ASSUME NEW c \in e .. l PROVE CutOK(R, K, m, D, g, c)
  <2>1. PICK b \in d .. n : Live(R, c) = Live(R, b) /\ Vals(m, c) = Vals(m, b) /\ Plain(m, c) = Plain(m, b)
    <3>1. CASE c <= n
      BY <3>1
    <3>2. CASE c > n
      <4>1. \A r \in R : r.seq < n
        BY <1>1 DEF LogOK
      <4>2. c \in Nat /\ c >= n /\ n \in d .. n
        BY <3>2
      <4>3. Live(R, c) = Live(R, n)
        BY <1>1, <4>1, <4>2, LiveBeyond
      <4>4. Vals(m, c) = Vals(m, n) /\ Plain(m, c) = Plain(m, n)
        BY <1>3, <4>2, OpenBelow
      <4> QED
        BY <4>2, <4>3, <4>4
    <3> QED
      BY <3>1, <3>2
  <2>2. CutOK(R, K, m, D, h, b)
    BY <1>1 DEF DataOK
  <2> QED
    BY <1>5, <2>1, <2>2 DEF CutOK, Backed
<1>7. \A c \in Nat : f \in Plain(m, c) \/ Pending(g, f)
  BY <1>1, <1>5 DEF DataOK
<1>8. ~s /\ g.held = {} => Vals(m, l) \subseteq {None, IF Inserting(g) THEN None ELSE f}
  <2>1. Vals(m, l) = Vals(m, n)
    BY <1>3, OpenBelow
  <2> QED
    BY <1>1, <2>1 DEF DataOK, Similar
<1>9. Inserting(g) => f = IF g.pc = "file" THEN None ELSE g.val
  BY <1>1 DEF DataOK, Similar
<1>10. \A r \in R : Own(g, r) => OwnOK(R, K, m, D, f, g, r)
  BY <1>1, <1>5 DEF DataOK, OwnOK
<1>11. DataOK(R, K, m, D, f, g, e, l, s)
  BY <1>3, <1>4, <1>6, <1>7, <1>8, <1>9, <1>10 DEF DataOK
<1> QED
  BY <1>2, <1>11 DEF KeyOK

\* Records that are durable are settled.
LEMMA KeySettles ==
    ASSUME NEW R, NEW K, NEW m, NEW D, NEW f, NEW h, NEW d \in Nat, NEW n \in Nat, d <= n,
           NEW p, NEW s \in Nat, s <= d, KeyOK(R, K, m, D, f, h, d, n, p)
    PROVE  KeyOK(R, K, Settle(m, s), D, f, h, d, n, p)
<1> DEFINE z == Settle(m, s)
<1>1. LogOK(R, K, h, n) /\ DataOK(R, K, m, D, f, h, d, n, p) /\ RecordsOK(R)
  BY DEF KeyOK, LogOK
<1>2. m \in Seq(OutcomeType) /\ m # <<>> /\ Below(m, n) /\ f \in D /\ D \subseteq Contents
  BY <1>1 DEF DataOK
<1>3. /\ z \in Seq(OutcomeType) /\ z # <<>> /\ Below(z, n)
      /\ \A c \in Nat : c >= s => Plain(z, c) = Plain(m, c) /\ Vals(z, c) = Vals(m, c)
      /\ \A c \in Nat : Below(m, c) => Below(z, c)
  BY <1>2, SettleKeeps
<1> HIDE DEF z
<1>4. ASSUME NEW c \in d .. n PROVE CutOK(R, K, z, D, h, c)
  <2>1. CutOK(R, K, m, D, h, c)
    BY <1>1 DEF DataOK
  <2>2. Plain(z, c) = Plain(m, c) /\ Vals(z, c) = Vals(m, c)
    BY <1>3
  <2> QED
    BY <2>1, <2>2 DEF CutOK, Backed
<1>5. ASSUME NEW c \in Nat PROVE f \in Plain(z, c) \/ Pending(h, f)
  <2>1. PICK b \in Nat : b >= c /\ b >= s
    <3>1. c >= s \/ s >= c
      OBVIOUS
    <3> QED
      BY <3>1
  <2>2. f \in Plain(m, b) \/ Pending(h, f)
    BY <1>1 DEF DataOK
  <2>3. Plain(z, b) = Plain(m, b)
    BY <1>3, <2>1
  <2>4. Plain(z, b) \subseteq Plain(z, c)
    BY <1>3, <2>1, OpenShrinks
  <2> QED
    BY <2>2, <2>3, <2>4
<1>6. Vals(z, n) = Vals(m, n)
  BY <1>3
<1>7. ASSUME NEW r \in R, Own(h, r) PROVE OwnOK(R, K, z, D, f, h, r)
  <2>1. OwnOK(R, K, m, D, f, h, r)
    BY <1>1, <1>7 DEF DataOK
  <2>2. r.seq \in Nat /\ Below(m, r.seq) /\ Below(z, r.seq)
    BY <1>1, <1>3, <2>1, RecordNumbers DEF OwnOK
  <2>3. PICK b \in Nat : b >= r.seq /\ b >= s
    <3>1. r.seq >= s \/ s >= r.seq
      BY <2>2
    <3> QED
      BY <2>2, <3>1
  <2>4. Plain(z, r.seq) = Plain(z, b) /\ Vals(z, r.seq) = Vals(z, b)
    BY <1>3, <2>2, <2>3, OpenBelow
  <2>5. Plain(m, r.seq) = Plain(m, b) /\ Vals(m, r.seq) = Vals(m, b)
    BY <1>2, <2>2, <2>3, OpenBelow
  <2>6. Plain(z, r.seq) = Plain(m, r.seq) /\ Vals(z, r.seq) = Vals(m, r.seq)
    BY <1>3, <2>3, <2>4, <2>5
  <2> QED
    BY <2>1, <2>2, <2>6 DEF OwnOK, Backed
<1>8. DataOK(R, K, z, D, f, h, d, n, p)
  BY <1>1, <1>2, <1>3, <1>4, <1>5, <1>6, <1>7 DEF DataOK
<1> QED
  BY <1>1, <1>8 DEF KeyOK, z

\* An operation without a record begins or ends.
LEMMA KeyIdles ==
    ASSUME NEW R, NEW K, NEW m, NEW D, NEW f, NEW h, NEW g, NEW d, NEW n, NEW p,
           KeyOK(R, K, m, D, f, h, d, n, p), h.held = {}, g.held = {},
           Inserting(h) => h.pc = "file", Inserting(g) => g.pc = "file" /\ f = None
    PROVE  KeyOK(R, K, m, D, f, g, d, n, p)
<1>1. LogOK(R, K, h, n) /\ DataOK(R, K, m, D, f, h, d, n, p)
  BY DEF KeyOK
<1>2. \A r : ~ Own(h, r) /\ ~ Own(g, r)
  BY DEF Own
<1>3. \A v : ~ Pending(h, v) /\ ~ Pending(g, v)
  BY DEF Pending
<1>4. LogOK(R, K, g, n)
  BY <1>1, <1>2 DEF LogOK
<1>5. \A c \in d .. n : CutOK(R, K, m, D, g, c)
  BY <1>1, <1>2, <1>3 DEF DataOK, CutOK
<1>6. Inserting(h) => f = None
  BY <1>1 DEF DataOK
<1>7. \A c \in Nat : f \in Plain(m, c) \/ Pending(g, f)
  BY <1>1, <1>3 DEF DataOK
<1>8. ~p => Vals(m, n) \subseteq {None, IF Inserting(g) THEN None ELSE f}
  BY <1>1, <1>6 DEF DataOK
<1>9. DataOK(R, K, m, D, f, g, d, n, p)
  BY <1>1, <1>2, <1>5, <1>7, <1>8 DEF DataOK
<1> QED
  BY <1>4, <1>9 DEF KeyOK

\* An insert's file is there.
LEMMA KeyInserts ==
    ASSUME NEW R, NEW K, NEW m, NEW D, NEW f, NEW h, NEW g, NEW d, NEW n, NEW p,
           KeyOK(R, K, m, D, f, h, d, n, p), h.held = {}, g.held = {},
           Inserting(h), h.pc = "file", Inserting(g), g.pc = "append", g.val = h.val, h.val \in Contents
    PROVE  KeyOK(R, K, m, D \union {h.val, None}, h.val, g, d, n, p)
<1>1. LogOK(R, K, h, n) /\ DataOK(R, K, m, D, f, h, d, n, p)
  BY DEF KeyOK
<1>2. \A r : ~ Own(h, r) /\ ~ Own(g, r)
  BY DEF Own
<1>3. \A v : ~ Pending(h, v) /\ (Pending(g, v) <=> v = h.val)
  BY DEF Pending
<1>4. LogOK(R, K, g, n)
  BY <1>1, <1>2 DEF LogOK
<1>5. f = None /\ None \in D
  BY <1>1 DEF DataOK
<1>6. \A c \in d .. n : CutOK(R, K, m, D \union {h.val, None}, g, c)
  BY <1>1, <1>2, <1>3, <1>5 DEF DataOK, CutOK
<1>7. D \union {h.val, None} \subseteq Contents
  BY <1>1 DEF DataOK, Contents
<1>8. \A c \in Nat : h.val \in Plain(m, c) \/ Pending(g, h.val)
  BY <1>3
<1>9. ~p => Vals(m, n) \subseteq {None, IF Inserting(g) THEN None ELSE h.val}
  BY <1>1 DEF DataOK
<1>10. DataOK(R, K, m, D \union {h.val, None}, h.val, g, d, n, p)
  BY <1>1, <1>2, <1>6, <1>7, <1>8, <1>9 DEF DataOK
<1> QED
  BY <1>4, <1>10 DEF KeyOK

\* The file cannot be written: the record is to be cancelled.
LEMMA KeyTurns ==
    ASSUME NEW R, NEW K, NEW m, NEW D, NEW f, NEW h, NEW g, NEW d, NEW n, NEW p,
           KeyOK(R, K, m, D, f, h, d, n, p), h.op \in {"Cas", "Write", "Delete"}, h.held # {},
           g.held = h.held, g.val = h.val, g.seq = h.seq, g.op = "Cancel", g.pc = "append"
    PROVE  KeyOK(R, K, m, D, f, g, d, n, p)
<1>1. LogOK(R, K, h, n) /\ DataOK(R, K, m, D, f, h, d, n, p)
  BY DEF KeyOK
<1>2. \A r : Own(h, r) <=> Own(g, r)
  BY DEF Own
<1>3. ~ Inserting(h) /\ ~ Inserting(g) /\ \A v : ~ Pending(h, v) /\ ~ Pending(g, v)
  BY DEF Pending, Inserting
<1>4. LogOK(R, K, g, n)
  BY <1>1, <1>2 DEF LogOK
<1>5. \A c \in d .. n : CutOK(R, K, m, D, g, c)
  BY <1>1, <1>2, <1>3 DEF DataOK, CutOK
<1>6. \A r \in R : Own(g, r) => OwnOK(R, K, m, D, f, g, r)
  BY <1>1, <1>2, <1>3 DEF DataOK, OwnOK
<1>7. DataOK(R, K, m, D, f, g, d, n, p)
  BY <1>1, <1>3, <1>5, <1>6 DEF DataOK
<1> QED
  BY <1>4, <1>7 DEF KeyOK

\* The cancel is appended.
LEMMA KeyAppendsCancel ==
    ASSUME NEW R, NEW K, NEW m, NEW D, NEW f, NEW h, NEW g, NEW d \in Nat, NEW n \in Nat \ {0},
           d <= n, NEW p, KeyOK(R, K, m, D, f, h, d, n, p), h.op = "Cancel", h.pc = "append",
           h.held = {h.seq},
           NEW x, x.seq = n, x.op = "Cancel", x.val = h.seq,
           g.op = "Cancel", g.val = h.val, g.held = {h.seq, n}, g.seq = n, g.pc # "append"
    PROVE  KeyOK(R \union {x}, K \union {x}, m, D, f, g, d, n + 1, p)
<1>0. LogOK(R, K, h, n) /\ DataOK(R, K, m, D, f, h, d, n, p) /\ RecordsOK(R) /\ K \subseteq R
  BY DEF KeyOK, LogOK
<1>1. /\ \A r \in R : r.seq \in Nat /\ r.seq < n /\ r # x
      /\ \A r \in R : r.op = "Cancel" => r.val \in Nat /\ r.val < r.seq
  BY <1>0, RecordNumbers DEF LogOK
<1>2. PICK r \in K : Own(h, r)
  BY <1>0 DEF LogOK
<1>3. r \in R /\ r.op # "Cancel" /\ r.seq = h.seq /\ r.op # "Insert" /\ r.val = h.val
  BY <1>0, <1>2 DEF LogOK, Own
<1>4. \A q \in R : ~ (q.seq > r.seq)
  <2> SUFFICES ASSUME NEW q \in R, q.seq > r.seq PROVE FALSE
    OBVIOUS
  <2>1. q.seq = h.seq
    BY <1>0, <1>2, <1>3 DEF LogOK
  <2> QED
    BY <1>1, <1>3, <2>1
<1> DEFINE X == R \union {x}
           Y == K \union {x}
<1>5. \A c \in 0 .. n : Live(X, c) = Live(R, c)
  BY LiveBefore
<1>6. \A q \in X : q.seq \in Nat /\ (q.op = "Cancel" => q.val \in Nat /\ q.val < q.seq)
  BY <1>1, <1>3
<1>7. RecordsOK(X)
  <2>1. \A q \in X : IsRecord(q)
    BY <1>0, <1>6 DEF RecordsOK, IsRecord
  <2>2. \A q, s \in X : s.seq = q.seq => s = q
    BY <1>0, <1>1 DEF RecordsOK
  <2>3. \A q, s \in X : q.op = "Cancel" /\ s.op # "Cancel" /\ q.val < s.seq => q.seq < s.seq
    <3> SUFFICES ASSUME NEW q \in X, NEW s \in X, q.op = "Cancel", s.op # "Cancel", q.val < s.seq
                 PROVE  q.seq < s.seq
      OBVIOUS
    <3>1. s \in R
      OBVIOUS
    <3>2. CASE q = x
      BY <1>1, <1>3, <1>4, <3>1, <3>2
    <3> QED
      BY <1>0, <3>1, <3>2 DEF RecordsOK
  <2>4. ASSUME NEW s \in X, NEW q \in X, s.op # "Cancel", IsLast(q, Live(X, s.seq))
        PROVE  Accepts(s, q.val)
    <3>1. s \in R /\ s.seq \in 0 .. n
      BY <1>1, <2>4
    <3>2. IsLast(q, Live(R, s.seq)) /\ q \in R
      BY <1>5, <2>4, <3>1 DEF IsLast, Live
    <3> QED
      BY <1>0, <2>4, <3>1, <3>2 DEF RecordsOK
  <2> QED
    BY <2>1, <2>2, <2>3, <2>4 DEF RecordsOK
<1>8. \A q \in X : Own(g, q) <=> q = r
  BY <1>0, <1>1, <1>3 DEF Own, RecordsOK
<1>9. \A q \in R : Own(h, q) <=> q = r
  BY <1>0, <1>1, <1>3 DEF Own, RecordsOK
<1>10. LogOK(X, Y, g, n + 1)
  <2>1. X \ Y \subseteq R \ K /\ Y \subseteq X
    BY <1>0 DEF LogOK
  <2>2. \A s \in Y, q \in X \ Y : q.seq < s.seq
    BY <1>0, <1>1, <2>1 DEF LogOK
  <2>3. \A s \in X : s.seq < n + 1
    BY <1>1
  <2>4. \A q \in X : q.seq > r.seq => q.op = "Cancel" /\ q.val = r.seq /\ q.seq = g.seq
    BY <1>3, <1>4
  <2>5. x \in X /\ r \in X /\ r \in Y
    BY <1>3
  <2> HIDE DEF X, Y
  <2> QED
    BY <1>3, <1>7, <1>8, <2>1, <2>2, <2>3, <2>4, <2>5 DEF LogOK
<1>11. ~ Inserting(h) /\ ~ Inserting(g) /\ \A v : ~ Pending(h, v) /\ ~ Pending(g, v)
  BY DEF Pending, Inserting
<1>12. \A c \in 0 .. n : \A v : Backed(R, K, m, c, v) => Backed(X, Y, m, c, v)
  BY <1>5 DEF Backed
<1>13. OwnOK(R, K, m, D, f, h, r) /\ r.seq \in 0 .. n
  BY <1>0, <1>1, <1>3, <1>9 DEF DataOK
<1>14. OwnOK(X, Y, m, D, f, g, r)
  <2>1. \A q \in X : IsLast(q, Live(X, r.seq)) => q \in R /\ IsLast(q, Live(R, r.seq))
    BY <1>5, <1>13 DEF IsLast, Live
  <2> QED
    BY <1>11, <1>12, <1>13, <2>1 DEF OwnOK
<1>15. \A c \in d .. n + 1 : CutOK(X, Y, m, D, g, c)
  <2> TAKE c \in d .. n + 1
  <2>1. CASE c = n + 1
    <3>1. c \in Nat /\ c > x.seq /\ x \in X /\ r \in X /\ (\A q \in X : q.seq > r.seq => q.op = "Cancel")
      BY <1>3, <1>4, <2>1
    <3> HIDE DEF X, Y
    <3>2. Live(X, c) = Live(X, r.seq)
      BY <1>3, <1>7, <3>1, LiveCancelled
    <3>3. m \in Seq(OutcomeType) /\ Below(m, r.seq) /\ r.seq \in Nat /\ r.seq <= c
      BY <1>0, <1>13, <2>1 DEF DataOK, OwnOK
    <3>4. Plain(m, c) = Plain(m, r.seq) /\ Vals(m, c) = Vals(m, r.seq)
      BY <3>1, <3>3, OpenBelow
    <3> QED
      BY <1>14, <3>2, <3>4 DEF CutOK, OwnOK, Backed
  <2>2. CASE c # n + 1
    <3>1. c \in d .. n /\ c \in 0 .. n
      BY <2>2
    <3>2. CutOK(R, K, m, D, h, c) /\ Live(X, c) = Live(R, c)
      BY <1>0, <1>5, <3>1 DEF DataOK
    <3>3. \A q \in X : IsLast(q, Live(X, c)) => q \in R
      BY <3>2 DEF IsLast, Live
    <3> QED
      BY <1>8, <1>9, <1>11, <1>12, <3>1, <3>2, <3>3 DEF CutOK
  <2> QED
    BY <2>1, <2>2
<1>16. DataOK(X, Y, m, D, f, g, d, n + 1, p)
  <2>1. m \in Seq(OutcomeType) /\ m # <<>> /\ Below(m, n) /\ f \in D /\ D \subseteq Contents
    BY <1>0 DEF DataOK
  <2>2. \A i \in 1 .. Len(m) : m[i] \in OutcomeType
    BY <2>1
  <2>3. Below(m, n + 1)
    BY <2>1, <2>2 DEF Below, OutcomeType
  <2>4. \A c \in Nat : f \in Plain(m, c) \/ Pending(g, f)
    BY <1>0, <1>11 DEF DataOK
  <2> HIDE DEF X, Y
  <2> QED
    BY <1>8, <1>11, <1>14, <1>15, <2>1, <2>3, <2>4 DEF DataOK
<1> QED
  BY <1>10, <1>16 DEF KeyOK

\* The record of an operation that is not cancelled is the last.
LEMMA OwnIsLast ==
    ASSUME NEW R, NEW K, NEW h, NEW n \in Nat, LogOK(R, K, h, n), NEW r \in R, Own(h, r), h.op # "Cancel"
    PROVE  /\ r.op = h.op /\ r.seq = h.seq /\ r.val = h.val /\ r \in K /\ r.seq \in Nat /\ r.seq < n
           /\ \A q \in R : q.seq <= r.seq
           /\ \A c \in Nat : c > r.seq => r \in Live(R, c) /\ \A q \in R : IsLast(q, Live(R, c)) => q = r
           /\ \A c \in Nat : c <= r.seq => r \notin Live(R, c)
<1>1. r.op = h.op /\ r.seq = h.seq /\ r.val = h.val /\ r \in K /\ RecordsOK(R) /\ r.op # "Cancel"
  BY DEF LogOK, Own
<1>2. \A q \in R : q.seq \in Nat /\ q.seq < n /\ (q.op = "Cancel" => q.val \in Nat /\ q.val < q.seq)
  BY <1>1, RecordNumbers DEF LogOK
<1>3. \A q \in R : q.seq <= r.seq
  <2> SUFFICES ASSUME NEW q \in R, q.seq > r.seq PROVE FALSE
    BY <1>2
  <2>1. q.seq = h.seq
    BY DEF LogOK
  <2> QED
    BY <1>1, <1>2, <2>1
<1>4. ASSUME NEW c \in Nat, c > r.seq
      PROVE  r \in Live(R, c) /\ \A q \in R : IsLast(q, Live(R, c)) => q = r
  <2>1. ~ Gone(R, r, c)
    BY <1>2, <1>3 DEF Gone
  <2>2. r \in Live(R, c)
    BY <1>1, <1>4, <2>1 DEF Live
  <2>3. \A q \in R : IsLast(q, Live(R, c)) => q.seq = r.seq
    BY <1>2, <1>3, <2>2 DEF IsLast
  <2> QED
    BY <1>1, <2>2, <2>3 DEF RecordsOK
<1>5. \A c \in Nat : c <= r.seq => r \notin Live(R, c)
  BY <1>2 DEF Live
<1> QED
  BY <1>1, <1>2, <1>3, <1>4, <1>5

\* The operation takes place: the file is as its record says.
LEMMA KeySucceeds ==
    ASSUME NEW R, NEW K, NEW m, NEW D, NEW f, NEW h, NEW g, NEW d \in Nat, NEW n \in Nat, d <= n,
           NEW p, KeyOK(R, K, m, D, f, h, d, n, p),
           h.held # {}, h.op \in {"Cas", "Write", "Delete", "Insert"}, h.pc # "idle",
           h.op \in {"Cas", "Insert"} => h.seq < d,
           NEW B, h.val \in B, h.val \in Contents, B \subseteq D \union {h.val, None},
           h.op = "Insert" => h.pc # "file" /\ B = D,
           NEW e \in OutcomeType, e.seq = h.seq, e.val = h.val, e.op = h.op,
           g.held = {}, ~ Inserting(g)
    PROVE  KeyOK(R, K, Append(m, e), B, h.val, g, d, n, p)
<1>1. LogOK(R, K, h, n) /\ DataOK(R, K, m, D, f, h, d, n, p) /\ RecordsOK(R) /\ K \subseteq R
  BY DEF KeyOK, LogOK
<1>2. PICK r \in R : Own(h, r)
  BY <1>1 DEF LogOK
<1>3. /\ r.op = h.op /\ r.seq = h.seq /\ r.val = h.val /\ r \in K /\ r.seq \in Nat /\ r.seq < n
      /\ \A c \in Nat : c > r.seq => r \in Live(R, c) /\ \A q \in R : IsLast(q, Live(R, c)) => q = r
      /\ \A c \in Nat : c <= r.seq => r \notin Live(R, c)
  BY <1>1, <1>2, OwnIsLast
<1>4. \A q \in R : Own(h, q) => q = r
  <2>1. \A q \in R : Own(h, q) => q.seq = r.seq
    BY <1>1, <1>3 DEF LogOK
  <2> QED
    BY <1>1, <2>1 DEF RecordsOK
<1>5. OwnOK(R, K, m, D, f, h, r)
  BY <1>1, <1>2 DEF DataOK
<1>6. m \in Seq(OutcomeType) /\ m # <<>> /\ Below(m, n) /\ f \in D /\ D \subseteq Contents
  BY <1>1 DEF DataOK
<1>7. PICK a : a = Append(m, e)
  OBVIOUS
<1>8. /\ a \in Seq(OutcomeType)
      /\ \A c \in Nat :
            /\ h.val \in Plain(a, c)
            /\ c <= e.seq => /\ Plain(a, c) = Plain(m, c) \union {h.val}
                             /\ Vals(m, c) \subseteq Vals(a, c)
                             /\ h.op = "Write" => None \in Vals(a, c)
            /\ e.seq < c => Vals(a, c) = {h.val}
  <2>1. a \in Seq(OutcomeType)
    BY <1>6, <1>7
  <2>2. ASSUME NEW c \in Nat
        PROVE  /\ h.val \in Plain(a, c)
               /\ c <= e.seq => /\ Plain(a, c) = Plain(m, c) \union {h.val}
                                /\ Vals(m, c) \subseteq Vals(a, c)
                                /\ h.op = "Write" => None \in Vals(a, c)
               /\ e.seq < c => Vals(a, c) = {h.val}
    BY <1>3, <1>6, <1>7, OpenAppend
  <2> QED
    BY <2>1, <2>2
<1>9. a # <<>> /\ Below(a, n)
  <2>1. Len(a) = Len(m) + 1 /\ Len(m) \in Nat /\ a[Len(m) + 1] = e /\ \A i \in 1 .. Len(m) : a[i] = m[i]
    BY <1>6, <1>7
  <2>2. a # <<>>
    BY <2>1
  <2> QED
    BY <1>3, <1>6, <2>1, <2>2 DEF Below
<1>10. B \subseteq Contents
  BY <1>6 DEF Contents
<1>11. \A q : ~ Own(g, q)
  BY DEF Own
<1>12. LogOK(R, K, g, n)
  BY <1>1, <1>11 DEF LogOK
<1>13. ASSUME NEW c \in d .. n PROVE CutOK(R, K, a, B, g, c)
  <2>1. CutOK(R, K, m, D, h, c) /\ c \in Nat
    BY <1>1 DEF DataOK
  <2>2. CASE c <= r.seq
    <3>1. h.op \in {"Write", "Delete"}
      BY <1>3, <2>2
    <3>2. \A v : ~ Pending(h, v)
      BY <3>1 DEF Pending, Inserting
    <3>3. Plain(a, c) = Plain(m, c) \union {h.val} /\ Vals(m, c) \subseteq Vals(a, c)
      BY <1>3, <1>8, <2>1, <2>2
    <3>4. {h.val, None} \subseteq Vals(a, c)
      <4>1. h.val \in Vals(a, c)
        BY <1>8, <2>1, PlainInVals
      <4>2. h.op = "Delete" => h.val = None
        BY <1>1, <1>3 DEF RecordsOK, IsRecord
      <4>3. h.op = "Write" => None \in Vals(a, c)
        BY <1>3, <1>8, <2>1, <2>2
      <4> QED
        BY <3>1, <4>1, <4>2, <4>3
    <3>5. \A v \in B : Backed(R, K, a, c, v)
      BY <2>1, <3>2, <3>3, <3>4 DEF CutOK, Backed
    <3>6. \A q \in R : IsLast(q, Live(R, c)) => q.val \in Plain(a, c)
      BY <1>3, <1>4, <2>1, <2>2, <3>3 DEF CutOK, IsLast
    <3> QED
      BY <3>5, <3>6 DEF CutOK
  <2>3. CASE c > r.seq
    <3>1. r \in Live(R, c) /\ (\A q \in R : IsLast(q, Live(R, c)) => q = r) /\ Vals(a, c) = {h.val}
          /\ h.val \in Plain(a, c)
      BY <1>3, <1>8, <2>1, <2>3
    <3>2. Below(m, r.seq) /\ c >= r.seq
      BY <1>3, <1>5, <2>3 DEF OwnOK
    <3>3. Vals(m, c) = Vals(m, r.seq)
      BY <1>3, <1>6, <2>1, <3>2, OpenBelow
    <3>4. \A v \in Vals(m, c) : Accepts(r, v)
      BY <1>3, <1>5, <3>3 DEF OwnOK, Accepts
    <3>5. Accepts(r, None)
      BY DEF Accepts
    <3>6. ASSUME NEW v \in B PROVE Backed(R, K, a, c, v)
      <4>1. CASE v \in {h.val, None}
        BY <1>3, <3>1, <3>5, <4>1 DEF Backed
      <4>2. CASE v \in D
        <5>1. Backed(R, K, m, c, v) \/ v = h.val
          BY <2>1, <4>2 DEF CutOK, Pending
        <5> QED
          BY <1>3, <3>1, <3>4, <5>1 DEF Backed
      <4> QED
        BY <4>1, <4>2
    <3> QED
      BY <1>3, <3>1, <3>6 DEF CutOK
  <2> QED
    BY <1>3, <2>1, <2>2, <2>3
<1>14. \A c \in Nat : h.val \in Plain(a, c)
  BY <1>8
<1>15. Vals(a, n) = {h.val}
  BY <1>3, <1>8
<1>16. DataOK(R, K, a, B, h.val, g, d, n, p)
  BY <1>8, <1>9, <1>10, <1>11, <1>13, <1>14, <1>15 DEF DataOK
<1> QED
  BY <1>7, <1>12, <1>16 DEF KeyOK

\* The operation fails, and nobody can tell whether it takes place.
LEMMA KeyFailsOpen ==
    ASSUME NEW R, NEW K, NEW m, NEW D, NEW f, NEW h, NEW g, NEW d \in Nat, NEW n \in Nat, d <= n,
           NEW p, NEW s, KeyOK(R, K, m, D, f, h, d, n, p),
           h.held # {} => s, h.held = {} => s = p /\ Inserting(h) /\ h.pc # "file",
           NEW e \in OutcomeType, e.seq = None, e.val = h.val, e.op = h.op,
           g.held = {}, ~ Inserting(g)
    PROVE  KeyOK(R, K, Append(m, e), D, f, g, d, n, s)
<1>1. LogOK(R, K, h, n) /\ DataOK(R, K, m, D, f, h, d, n, p) /\ RecordsOK(R) /\ K \subseteq R
  BY DEF KeyOK, LogOK
<1>2. m \in Seq(OutcomeType) /\ m # <<>> /\ Below(m, n) /\ f \in D /\ D \subseteq Contents
  BY <1>1 DEF DataOK
<1>3. PICK a : a = Append(m, e)
  OBVIOUS
<1>4. a \in Seq(OutcomeType)
  BY <1>2, <1>3
<1>5. ASSUME NEW c \in Nat
      PROVE  /\ Plain(a, c) = Plain(m, c) \union {h.val}
             /\ h.val \in Vals(a, c)
             /\ Vals(m, c) \subseteq Vals(a, c)
             /\ h.op # "Write" => Vals(a, c) = Vals(m, c) \union {h.val}
  BY <1>2, <1>3, OpenAppend, PlainInVals
<1>6. a # <<>> /\ Below(a, n)
  <2>1. Len(a) = Len(m) + 1 /\ Len(m) \in Nat /\ a[Len(m) + 1] = e /\ \A i \in 1 .. Len(m) : a[i] = m[i]
    BY <1>2, <1>3
  <2>2. a # <<>>
    BY <2>1
  <2> QED
    BY <1>2, <2>1, <2>2 DEF Below
<1>7. \A q : ~ Own(g, q)
  BY DEF Own
<1>8. LogOK(R, K, g, n)
  BY <1>1, <1>7 DEF LogOK
<1>9. \A v : Pending(h, v) => v = h.val
  BY DEF Pending
<1>10. \A r \in R : Own(h, r) => r.val = h.val
  BY <1>1 DEF LogOK
<1>11. ASSUME NEW c \in d .. n PROVE CutOK(R, K, a, D, g, c)
  <2>1. CutOK(R, K, m, D, h, c) /\ c \in Nat
    BY <1>1 DEF DataOK
  <2>2. \A v \in D : Backed(R, K, a, c, v)
    BY <1>5, <1>9, <2>1 DEF CutOK, Backed
  <2>3. \A q \in R : IsLast(q, Live(R, c)) => q.val \in Plain(a, c)
    BY <1>5, <1>10, <2>1 DEF CutOK
  <2> QED
    BY <2>2, <2>3 DEF CutOK
<1>12. \A c \in Nat : f \in Plain(a, c)
  <2>1. \A c \in Nat : f \in Plain(m, c) \/ f = h.val
    BY <1>1, <1>9 DEF DataOK
  <2> QED
    BY <1>5, <2>1
<1>13. ~s => Vals(a, n) \subseteq {None, f}
  <2> SUFFICES ASSUME ~s PROVE Vals(a, n) \subseteq {None, f}
    OBVIOUS
  <2>1. ~p /\ Inserting(h) /\ h.held = {} /\ h.pc # "file"
    OBVIOUS
  <2>2. Vals(m, n) \subseteq {None} /\ f = h.val /\ h.op # "Write"
    BY <1>1, <2>1 DEF DataOK, Inserting
  <2> QED
    BY <1>5, <2>2
<1>14. DataOK(R, K, a, D, f, g, d, n, s)
  BY <1>2, <1>4, <1>6, <1>7, <1>11, <1>12, <1>13 DEF DataOK
<1> QED
  BY <1>3, <1>8, <1>14 DEF KeyOK

\* The cancel is durable.
LEMMA KeyCancelled ==
    ASSUME NEW R, NEW K, NEW m, NEW D, NEW f, NEW h, NEW g, NEW d \in Nat, NEW n \in Nat, d <= n,
           NEW p, KeyOK(R, K, m, D, f, h, d, n, p),
           h.held # {}, h.op = "Cancel", h.pc # "append", h.seq < d,
           g.held = {}, ~ Inserting(g)
    PROVE  KeyOK(R, K, m, D, f, g, d, n, p)
<1>1. LogOK(R, K, h, n) /\ DataOK(R, K, m, D, f, h, d, n, p) /\ RecordsOK(R) /\ K \subseteq R
  BY DEF KeyOK, LogOK
<1>2. m \in Seq(OutcomeType) /\ m # <<>> /\ Below(m, n) /\ f \in D /\ D \subseteq Contents
  BY <1>1 DEF DataOK
<1>3. PICK r \in R : Own(h, r)
  BY <1>1 DEF LogOK
<1>4. r.op # "Cancel" /\ r.op # "Insert" /\ (\A q \in R : q.seq > r.seq => q.op = "Cancel")
  BY <1>1, <1>3 DEF LogOK, Own
<1>5. PICK x \in R : x.op = "Cancel" /\ x.val = r.seq /\ x.seq = h.seq
  BY <1>1, <1>3 DEF LogOK
<1>6. OwnOK(R, K, m, D, f, h, r) /\ r.seq \in Nat /\ x.seq \in Nat /\ r.seq < x.seq
  BY <1>1, <1>3, <1>5, RecordNumbers DEF DataOK
<1>7. ~ Inserting(h) /\ \A v : ~ Pending(h, v) /\ ~ Pending(g, v)
  BY DEF Pending, Inserting
<1>8. ASSUME NEW c \in d .. n
      PROVE  /\ Live(R, c) = Live(R, r.seq)
             /\ Plain(m, c) = Plain(m, r.seq) /\ Vals(m, c) = Vals(m, r.seq)
  <2>1. c \in Nat /\ c > x.seq /\ c >= r.seq /\ Below(m, r.seq)
    BY <1>5, <1>6 DEF OwnOK
  <2>2. Live(R, c) = Live(R, r.seq)
    BY <1>1, <1>3, <1>4, <1>5, <2>1, LiveCancelled
  <2> QED
    BY <1>2, <1>6, <2>1, <2>2, OpenBelow
<1>9. \A q : ~ Own(g, q)
  BY DEF Own
<1>10. LogOK(R, K, g, n)
  BY <1>1, <1>9 DEF LogOK
<1>11. ASSUME NEW c \in d .. n PROVE CutOK(R, K, m, D, g, c)
  BY <1>6, <1>7, <1>8 DEF CutOK, OwnOK, Backed
<1>12. Vals(m, n) \subseteq {None, f}
  <2>1. n \in d .. n
    OBVIOUS
  <2> QED
    BY <1>4, <1>6, <1>8, <2>1 DEF OwnOK
<1>13. \A c \in Nat : f \in Plain(m, c) \/ Pending(g, f)
  BY <1>1, <1>7 DEF DataOK
<1>14. DataOK(R, K, m, D, f, g, d, n, p)
  BY <1>2, <1>9, <1>11, <1>12, <1>13 DEF DataOK
<1> QED
  BY <1>10, <1>14 DEF KeyOK

\* Oversized contents are written and flushed; the key has no record.
LEMMA KeyBig ==
    ASSUME NEW m, NEW D, NEW f, NEW h, NEW g, NEW d \in Nat, NEW n \in Nat, d <= n,
           NEW p, KeyOK({}, {}, m, D, f, h, d, n, p),
           NEW e \in OutcomeType, e.seq \in Nat, e.seq < d,
           g.held = {}, ~ Inserting(g)
    PROVE  KeyOK({}, {}, Append(m, e), {e.val}, e.val, g, d, n, p)
<1>1. LogOK({}, {}, h, n) /\ DataOK({}, {}, m, D, f, h, d, n, p)
  BY DEF KeyOK
<1>2. m \in Seq(OutcomeType) /\ Below(m, n)
  BY <1>1 DEF DataOK
<1>3. PICK a : a = Append(m, e)
  OBVIOUS
<1>4. a \in Seq(OutcomeType) /\ e.val \in Contents
  BY <1>2, <1>3 DEF OutcomeType
<1>5. ASSUME NEW c \in Nat
      PROVE  e.val \in Plain(a, c) /\ (e.seq < c => Vals(a, c) = {e.val})
  BY <1>2, <1>3, OpenAppend
<1>6. a # <<>> /\ Below(a, n)
  <2>1. Len(a) = Len(m) + 1 /\ Len(m) \in Nat /\ a[Len(m) + 1] = e /\ \A i \in 1 .. Len(m) : a[i] = m[i]
    BY <1>2, <1>3
  <2>2. a # <<>>
    BY <2>1
  <2>3. e.seq < n
    OBVIOUS
  <2> QED
    BY <1>2, <2>1, <2>2, <2>3 DEF Below
<1>7. LogOK({}, {}, g, n)
  BY <1>1 DEF LogOK
<1>8. ASSUME NEW c \in d .. n PROVE CutOK({}, {}, a, {e.val}, g, c)
  BY <1>5, PlainInVals DEF CutOK, Backed
<1>9. Vals(a, n) = {e.val}
  BY <1>5
<1>10. DataOK({}, {}, a, {e.val}, e.val, g, d, n, p)
  BY <1>4, <1>5, <1>6, <1>8, <1>9 DEF DataOK
<1> QED
  BY <1>3, <1>7, <1>10 DEF KeyOK

\* The file is flushed; the records of its oldest segment need not be kept.
LEMMA KeyFlushes ==
    ASSUME NEW R, NEW K, NEW m, NEW D, NEW f, NEW h, NEW d \in Nat, NEW n \in Nat, NEW p,
           KeyOK(R, K, m, D, f, h, d, n, p),
           NEW L, L \subseteq K, \A r \in L, q \in K \ L : q.seq < r.seq, \A r \in K \ L : ~ Own(h, r)
    PROVE  KeyOK(R, L, m, {f}, f, h, d, n, p)
<1>1. LogOK(R, K, h, n) /\ DataOK(R, K, m, D, f, h, d, n, p) /\ RecordsOK(R) /\ K \subseteq R
  BY DEF KeyOK, LogOK
<1>2. m \in Seq(OutcomeType) /\ m # <<>> /\ Below(m, n) /\ f \in D /\ D \subseteq Contents
  BY <1>1 DEF DataOK
<1>3. LogOK(R, L, h, n)
  <2>1. \A r \in L, q \in R \ L : q.seq < r.seq
    BY <1>1 DEF LogOK
  <2>2. h.held # {} => \E r \in L : Own(h, r)
    BY <1>1 DEF LogOK
  <2>3. \A r \in R : Own(h, r) => r \in L
    BY <1>1 DEF LogOK
  <2> QED
    BY <1>1, <2>1, <2>2, <2>3 DEF LogOK
<1>4. ASSUME NEW c \in Nat PROVE Backed(R, L, m, c, f) \/ Pending(h, f)
  BY <1>1, PlainInVals DEF DataOK, Backed
<1>5. ASSUME NEW c \in d .. n PROVE CutOK(R, L, m, {f}, h, c)
  <2>1. c \in Nat /\ CutOK(R, K, m, D, h, c)
    BY <1>1 DEF DataOK
  <2> QED
    BY <1>4, <2>1 DEF CutOK
<1>6. ASSUME NEW r \in R, Own(h, r) PROVE OwnOK(R, L, m, {f}, f, h, r)
  <2>1. r.seq \in Nat /\ OwnOK(R, K, m, D, f, h, r)
    BY <1>1, <1>6, RecordNumbers DEF DataOK
  <2> QED
    BY <1>4, <2>1 DEF OwnOK
<1>7. DataOK(R, L, m, {f}, f, h, d, n, p)
  BY <1>1, <1>2, <1>5, <1>6 DEF DataOK
<1> QED
  BY <1>3, <1>7 DEF KeyOK

\* The oldest records are gone for good.
LEMMA LiveShrinks ==
    ASSUME NEW R, RecordsOK(R), NEW S, S \subseteq R, \A r \in S, q \in R \ S : q.seq < r.seq, NEW c
    PROVE  /\ Live(S, c) = Live(R, c) \intersect S
           /\ \A r : IsLast(r, Live(S, c)) => IsLast(r, Live(R, c))
<1>1. \A q \in R : q.seq \in Nat /\ (q.op = "Cancel" => q.val \in Nat /\ q.val < q.seq)
  BY RecordNumbers
<1>2. ASSUME NEW r \in S PROVE Gone(S, r, c) <=> Gone(R, r, c)
  <2>1. ASSUME NEW q \in R, q.op = "Cancel", q.val = r.seq PROVE q \in S
    BY <1>1, <2>1
  <2> QED
    BY <2>1 DEF Gone
<1>3. Live(S, c) = Live(R, c) \intersect S
  BY <1>2 DEF Live
<1>4. ASSUME NEW r, IsLast(r, Live(S, c)) PROVE IsLast(r, Live(R, c))
  <2>1. r \in S /\ r \in Live(R, c)
    BY <1>3, <1>4 DEF IsLast
  <2>2. \A q \in Live(R, c) : q \in R
    BY DEF Live
  <2>3. \A q \in Live(R, c) : q.seq <= r.seq
    BY <1>1, <1>3, <1>4, <2>1, <2>2 DEF IsLast
  <2> QED
    BY <2>1, <2>3 DEF IsLast
<1> QED
  BY <1>3, <1>4

LEMMA KeyForgets ==
    ASSUME NEW R, NEW K, NEW m, NEW D, NEW f, NEW h, NEW d \in Nat, NEW n \in Nat, NEW p,
           KeyOK(R, K, m, D, f, h, d, n, p),
           NEW S, S \subseteq R, K \subseteq S, \A r \in S, q \in R \ S : q.seq < r.seq
    PROVE  KeyOK(S, K, m, D, f, h, d, n, p)
<1>1. LogOK(R, K, h, n) /\ DataOK(R, K, m, D, f, h, d, n, p) /\ RecordsOK(R)
  BY DEF KeyOK, LogOK
<1>2. m \in Seq(OutcomeType) /\ m # <<>> /\ Below(m, n) /\ f \in D /\ D \subseteq Contents
  BY <1>1 DEF DataOK
<1>3. ASSUME NEW c
      PROVE  /\ Live(S, c) = Live(R, c) \intersect S
             /\ \A r : IsLast(r, Live(S, c)) => IsLast(r, Live(R, c))
  BY <1>1, LiveShrinks
<1>4. RecordsOK(S)
  <2>1. \A r, q \in S : r.op # "Cancel" /\ IsLast(q, Live(S, r.seq)) => Accepts(r, q.val)
    BY <1>1, <1>3 DEF RecordsOK
  <2> QED
    BY <1>1, <2>1 DEF RecordsOK
<1>5. LogOK(S, K, h, n)
  <2>1. \A r \in K, q \in S \ K : q.seq < r.seq
    BY <1>1 DEF LogOK
  <2>2. ASSUME NEW r \in S, Own(h, r), NEW q \in R, q.op = "Cancel", q.val = r.seq PROVE q \in S
    <3>1. r.seq \in Nat /\ q.seq \in Nat /\ r.seq < q.seq
      BY <1>1, <2>2, RecordNumbers
    <3> QED
      BY <2>2, <3>1
  <2>3. ASSUME NEW r \in S, Own(h, r), h.op = "Cancel", h.pc # "append"
        PROVE  \E q \in S : q.op = "Cancel" /\ q.val = r.seq /\ q.seq = h.seq
    BY <1>1, <2>2, <2>3 DEF LogOK
  <2>4. \A r \in S : Own(h, r) =>
          /\ r \in K /\ r.val = h.val
          /\ \A q \in S : q.seq > r.seq => q.op = "Cancel" /\ q.val = r.seq /\ q.seq = h.seq
          /\ IF h.op = "Cancel" THEN r.op # "Insert" ELSE r.op = h.op /\ r.seq = h.seq
          /\ h.op = "Cancel" /\ h.pc = "append" => r.seq = h.seq
    BY <1>1 DEF LogOK
  <2>5. (\A r \in S : r.seq < n) /\ (h.held # {} => \E r \in K : Own(h, r))
    BY <1>1 DEF LogOK
  <2> QED
    BY <1>4, <2>1, <2>3, <2>4, <2>5 DEF LogOK
<1>6. ASSUME NEW c, NEW v, Backed(R, K, m, c, v) PROVE Backed(S, K, m, c, v)
  BY <1>3, <1>6 DEF Backed
<1>7. ASSUME NEW c \in d .. n PROVE CutOK(S, K, m, D, h, c)
  <2>1. CutOK(R, K, m, D, h, c)
    BY <1>1 DEF DataOK
  <2> QED
    BY <1>3, <1>6, <2>1 DEF CutOK
<1>8. ASSUME NEW r \in S, Own(h, r) PROVE OwnOK(S, K, m, D, f, h, r)
  <2>1. OwnOK(R, K, m, D, f, h, r)
    BY <1>1, <1>8 DEF DataOK
  <2> QED
    BY <1>3, <1>6, <2>1 DEF OwnOK
<1>9. DataOK(S, K, m, D, f, h, d, n, p)
  BY <1>1, <1>2, <1>7, <1>8 DEF DataOK
<1> QED
  BY <1>5, <1>9 DEF KeyOK

-----------------------------------------------------------------------------
(* The records of a segment and of a chain of segments.                    *)

Of(s) == {s[j] : j \in 1 .. Len(s)}
Recs(c) == UNION {Of(c[i]) : i \in 1 .. Len(c)}

LEMMA OfAppend ==
    ASSUME NEW S, NEW s \in Seq(S), NEW r
    PROVE  Of(Append(s, r)) = Of(s) \union {r}
<1>1. /\ Len(Append(s, r)) = Len(s) + 1 /\ Len(s) \in Nat /\ Append(s, r)[Len(s) + 1] = r
      /\ \A i \in 1 .. Len(s) : Append(s, r)[i] = s[i]
  OBVIOUS
<1>2. PICK a : a = Append(s, r)
  OBVIOUS
<1>3. 1 .. Len(s) + 1 = (1 .. Len(s)) \union {Len(s) + 1}
  BY <1>1
<1> QED
  BY <1>1, <1>2, <1>3 DEF Of

LEMMA OfConcat ==
    ASSUME NEW S, NEW s \in Seq(S), NEW t \in Seq(S)
    PROVE  Of(s \o t) = Of(s) \union Of(t)
<1>1. PICK a : a = s \o t
  OBVIOUS
<1>2. /\ Len(a) = Len(s) + Len(t) /\ Len(s) \in Nat /\ Len(t) \in Nat
      /\ \A i \in 1 .. Len(s) : a[i] = s[i]
      /\ \A i \in 1 .. Len(t) : a[Len(s) + i] = t[i]
  BY <1>1
<1>3. ASSUME NEW i \in 1 .. Len(a) PROVE a[i] \in Of(s) \union Of(t)
  <2>1. CASE i <= Len(s)
    BY <1>2, <2>1 DEF Of
  <2>2. CASE i > Len(s)
    <3>1. i - Len(s) \in 1 .. Len(t) /\ Len(s) + (i - Len(s)) = i
      BY <1>2, <2>2
    <3> QED
      BY <1>2, <3>1 DEF Of
  <2> QED
    BY <1>2, <2>1, <2>2
<1>4. \A i \in 1 .. Len(s) : s[i] \in Of(a)
  BY <1>2 DEF Of
<1>5. ASSUME NEW i \in 1 .. Len(t) PROVE t[i] \in Of(a)
  <2>1. Len(s) + i \in 1 .. Len(a) /\ a[Len(s) + i] = t[i]
    BY <1>2
  <2> QED
    BY <2>1 DEF Of
<1>6. Of(a) \subseteq Of(s) \union Of(t)
  BY <1>3 DEF Of
<1>7. Of(s) \subseteq Of(a) /\ Of(t) \subseteq Of(a)
  BY <1>4, <1>5 DEF Of
<1> QED
  BY <1>1, <1>6, <1>7

\* The segments of a chain as a set.
LEMMA RecsOf ==
    ASSUME NEW c
    PROVE  Recs(c) = UNION {Of(s) : s \in Of(c)}
BY DEF Recs, Of

LEMMA RecsConcat ==
    ASSUME NEW T, NEW c \in Seq(T), NEW d \in Seq(T)
    PROVE  Recs(c \o d) = Recs(c) \union Recs(d)
<1>1. Of(c \o d) = Of(c) \union Of(d)
  BY OfConcat
<1> QED
  BY <1>1, RecsOf

LEMMA RecsAppend ==
    ASSUME NEW T, NEW c \in Seq(T), NEW s
    PROVE  Recs(Append(c, s)) = Recs(c) \union Of(s)
<1>1. Of(Append(c, s)) = Of(c) \union {s}
  BY OfAppend
<1> QED
  BY <1>1, RecsOf

LEMMA RecsTail ==
    ASSUME NEW T, NEW c \in Seq(T), c # <<>>
    PROVE  Recs(c) = Of(c[1]) \union Recs(Tail(c))
<1>1. c = <<c[1]>> \o Tail(c) /\ <<c[1]>> \in Seq(T) /\ Tail(c) \in Seq(T)
  OBVIOUS
<1>2. Recs(c) = Recs(<<c[1]>>) \union Recs(Tail(c))
  BY <1>1, RecsConcat
<1>3. Recs(<<c[1]>>) = Of(c[1])
  <2>1. PICK d : d = <<c[1]>>
    OBVIOUS
  <2>2. Len(d) = 1 /\ d[1] = c[1] /\ 1 .. 1 = {1}
    BY <2>1
  <2> QED
    BY <2>1, <2>2 DEF Recs
<1> QED
  BY <1>2, <1>3

LEMMA EmptyRecords == Recs(<<>>) = {} /\ Of(<<>>) = {}
BY DEF Recs, Of

\* The records of a consecutive segment lie between the first and the last.
LEMMA ConsecutiveOrder ==
    ASSUME NEW S, \A r \in S : r.seq \in Nat, NEW s \in Seq(S), Consecutive(s), NEW r \in Of(s)
    PROVE  /\ s[1].seq \in Nat /\ Last(s).seq \in Nat /\ s[1].seq <= Last(s).seq
           /\ r.seq \in s[1].seq .. Last(s).seq
<1>1. Len(s) \in Nat \ {0} /\ s[1] \in S /\ s[Len(s)] \in S /\ Last(s) = s[Len(s)]
  BY DEF Consecutive, Last
<1>2. PICK j \in 1 .. Len(s) : r = s[j]
  BY DEF Of
<1>3. s[j].seq = s[1].seq + (j - 1) /\ s[Len(s)].seq = s[1].seq + (Len(s) - 1)
  BY <1>1, <1>2 DEF Consecutive
<1> QED
  BY <1>1, <1>2, <1>3

LEMMA LinkedClimbs ==
    ASSUME NEW S, \A r \in S : r.seq \in Nat, NEW c \in Seq(Seq(S)), Linked(c),
           NEW i \in 1 .. Len(c), NEW j \in 1 .. Len(c), i < j
    PROVE  Last(c[i]).seq < c[j][1].seq
<1>0. Len(c) \in Nat
  OBVIOUS
<1>1. ASSUME NEW k \in 1 .. Len(c)
      PROVE  c[k][1].seq \in Nat /\ Last(c[k]).seq \in Nat /\ c[k][1].seq <= Last(c[k]).seq
  <2>1. c[k] \in Seq(S) /\ Consecutive(c[k])
    BY DEF Linked
  <2>2. c[k][1] \in Of(c[k])
    <3>1. PICK s \in Seq(S) : s = c[k]
      BY <2>1
    <3>2. 1 \in 1 .. Len(s)
      BY <2>1, <3>1 DEF Consecutive
    <3> QED
      BY <3>1, <3>2 DEF Of
  <2> QED
    BY <2>1, <2>2, ConsecutiveOrder
<1> DEFINE G == {n \in Nat : n >= 1 /\ i + n <= Len(c) => Last(c[i]).seq < c[i + n][1].seq}
<1>2. 0 \in G
  OBVIOUS
<1>3. ASSUME NEW n \in 1 .. Len(c), n - 1 \in G PROVE n \in G
  <2> SUFFICES ASSUME i + n <= Len(c) PROVE Last(c[i]).seq < c[i + n][1].seq
    OBVIOUS
  <2>1. i + (n - 1) \in 1 .. Len(c) - 1 /\ i + n \in 1 .. Len(c) /\ (i + (n - 1)) + 1 = i + n
    BY <1>0
  <2>2. c[i + n][1].seq = Last(c[i + (n - 1)]).seq + 1
    BY <2>1 DEF Linked
  <2>3. CASE n = 1
    BY <1>1, <2>1, <2>2, <2>3
  <2>4. CASE n # 1
    <3>1. Last(c[i]).seq < c[i + (n - 1)][1].seq
      BY <1>0, <1>3, <2>1, <2>4
    <3>2. i + (n - 1) \in 1 .. Len(c)
      BY <2>1, <1>0
    <3>3. PICK a : a = i + (n - 1)
      OBVIOUS
    <3>4. c[a][1].seq \in Nat /\ Last(c[a]).seq \in Nat /\ c[a][1].seq <= Last(c[a]).seq
      BY <1>1, <3>2, <3>3
    <3>5. Last(c[i]).seq \in Nat
      BY <1>1
    <3>6. Last(c[i]).seq < c[a][1].seq /\ c[i + n][1].seq = Last(c[a]).seq + 1
      BY <2>2, <3>1, <3>3
    <3>7. PICK x \in Nat, y \in Nat, z \in Nat :
              x = Last(c[i]).seq /\ y = c[a][1].seq /\ z = Last(c[a]).seq
      BY <3>4, <3>5
    <3>8. x < y /\ y <= z
      BY <3>4, <3>6, <3>7
    <3>9. x < z + 1
      BY <3>8
    <3> QED
      BY <3>6, <3>7, <3>9
  <2> QED
    BY <2>3, <2>4
<1>4. \A n \in 0 .. Len(c) : n \in G
  <2> HIDE DEF G
  <2> QED BY <1>0, <1>2, <1>3, IntervalInduction
<1>5. j - i \in 0 .. Len(c) /\ j - i >= 1 /\ i + (j - i) = j
  BY <1>0
<1>6. j - i \in G
  BY <1>4, <1>5
<1> QED
  BY <1>5, <1>6

\* Earlier segments have the smaller numbers.
LEMMA LinkedOrder ==
    ASSUME NEW S, \A r \in S : r.seq \in Nat, NEW c \in Seq(Seq(S)), NEW d \in Seq(Seq(S)),
           Linked(c \o d), NEW r \in Recs(c), NEW q \in Recs(d)
    PROVE  r.seq < q.seq
<1>1. PICK e : e = c \o d
  OBVIOUS
<1>2. /\ e \in Seq(Seq(S)) /\ Linked(e) /\ Len(e) = Len(c) + Len(d) /\ Len(c) \in Nat /\ Len(d) \in Nat
      /\ \A i \in 1 .. Len(c) : e[i] = c[i]
      /\ \A i \in 1 .. Len(d) : e[Len(c) + i] = d[i]
  BY <1>1
<1>3. PICK i \in 1 .. Len(c) : r \in Of(c[i])
  BY DEF Recs
<1>4. PICK j \in 1 .. Len(d) : q \in Of(d[j])
  BY DEF Recs
<1>5. PICK b : b = Len(c) + j
  OBVIOUS
<1>6. i \in 1 .. Len(e) /\ b \in 1 .. Len(e) /\ i < b /\ e[i] = c[i] /\ e[b] = d[j]
  BY <1>2, <1>3, <1>4, <1>5
<1>7. Last(e[i]).seq < e[b][1].seq
  BY <1>2, <1>6, LinkedClimbs
<1>8. e[i] \in Seq(S) /\ Consecutive(e[i]) /\ e[b] \in Seq(S) /\ Consecutive(e[b])
  <2>1. \A k \in 1 .. Len(e) : e[k] \in Seq(S) /\ Consecutive(e[k])
    BY <1>2 DEF Linked
  <2> QED
    BY <1>6, <2>1
<1>9. Last(e[i]).seq \in Nat /\ r.seq \in e[i][1].seq .. Last(e[i]).seq /\ e[i][1].seq \in Nat
  BY <1>3, <1>6, <1>8, ConsecutiveOrder
<1>10. e[b][1].seq \in Nat /\ q.seq \in e[b][1].seq .. Last(e[b]).seq /\ Last(e[b]).seq \in Nat
  BY <1>4, <1>6, <1>8, ConsecutiveOrder
<1> QED
  BY <1>7, <1>9, <1>10

-----------------------------------------------------------------------------
(* Where the operations stand.                                             *)

\* What an operation is, and the guards it holds at each place.
Shape(h) ==
    /\ h.pc = "idle" => h = Idle
    /\ h.pc # "idle" =>
          /\ h.key \in Key
          /\ h.op \in {"Cas", "Write", "Delete", "Insert", "Cancel", "Big"}
          /\ h.op \in {"Cas", "Insert"} => h.key \in HeadKey
          /\ h.op = "Cas" => h.val \in BlobKey
          /\ h.op \in {"Write", "Big"} => h.key \in BlobKey /\ h.val = h.key
          /\ h.op = "Delete" => h.key \in Deletable /\ h.val = None
          /\ h.op = "Insert" => h.val = Genesis
          /\ IF h.op = "Big" THEN h.pc \in {"rotate", "retire", "retiring", "big"}
             ELSE h.pc \in {"file", "append", "wait", "lead", "rotate"}
          /\ h.op = "Big" => h.held = {}
          /\ h.op \in {"Cas", "Write", "Delete"} => h.held = IF h.pc = "append" THEN {} ELSE {h.seq}
          /\ h.op = "Insert" => h.held = IF h.pc \in {"file", "append"} THEN {} ELSE {h.seq}
          /\ h.op = "Cancel" => /\ h.pc # "file" /\ h.held # {}
                                /\ h.pc = "append" => h.held = {h.seq}

\* What is durable of it.
Timed(h, d, n) ==
    /\ h.held \subseteq 1 .. n - 1 /\ (h.held # {} => h.seq < n)
    /\ h.pc = "file" /\ h.op = "Cas" => h.seq < d
    /\ h.pc = "lead" => h.covered > h.seq
    /\ h.pc = "big" => h.seq < d

ShapeInv ==
    /\ \A w \in Writer : /\ Shape(task[w]) /\ Timed(task[w], durable_end, next_seq)
                         /\ task[w].held \subseteq inflight
    /\ \A w, u \in Writer : w # u => /\ task[w].held \intersect task[u].held = {}
                                     /\ task[w].key = task[u].key => task[w].key = None
    /\ task[Ticker].pc = "idle" => task[Ticker] = Idle
    /\ task[Ticker].pc # "idle" => task[Ticker].op = "Tick"
    /\ task[Ticker].key = None /\ task[Ticker].held = {}
    /\ device_end \in Nat /\ durable_end <= device_end

LEMMA IdleShape == Shape(Idle) /\ (\A d, n : Timed(Idle, d, n)) /\ Idle.held = {} /\ Idle.key = None
BY DEF Shape, Timed, Idle

LEMMA IntervalGrows ==
    ASSUME NEW a \in Nat, NEW b \in Nat, a <= b
    PROVE  1 .. a - 1 \subseteq 1 .. b - 1
<1>1. ASSUME NEW i \in 1 .. a - 1 PROVE i \in 1 .. b - 1
  OBVIOUS
<1> QED
  BY <1>1

\* One task goes to e.
LEMMA ShapeStep ==
    ASSUME TaskInv, ShapeInv, NEW t \in Task, NEW e, task' = [task EXCEPT ![t] = e],
           t \in Writer =>
              /\ Shape(e) /\ Timed(e, durable_end', next_seq') /\ e.held \subseteq inflight'
              /\ \A u \in Writer : u # t => /\ task[u].held \intersect e.held = {}
                                            /\ task[u].key = e.key => e.key = None,
           t = Ticker => /\ e.pc = "idle" => e = Idle
                         /\ e.pc # "idle" => e.op = "Tick"
                         /\ e.key = None /\ e.held = {},
           inflight \ task[t].held \subseteq inflight',
           durable_end' \in Nat, durable_end' >= durable_end, next_seq' \in Nat, next_seq' >= next_seq,
           device_end' \in Nat /\ durable_end' <= device_end'
    PROVE  ShapeInv'
<1>0. /\ task \in [Task -> TaskState] /\ Writer \subseteq Task /\ Ticker \in Task /\ Ticker \notin Writer
      /\ next_seq \in Nat /\ durable_end \in Nat
  BY WalAssumption DEF TaskInv, Task
<1>1. task'[t] = e /\ \A u \in Task : u # t => task'[u] = task[u]
  BY <1>0
<1>2. ASSUME NEW u \in Writer, u # t
      PROVE  /\ Shape(task[u]) /\ Timed(task[u], durable_end', next_seq')
             /\ task[u].held \subseteq inflight'
  <2>1. Shape(task[u]) /\ Timed(task[u], durable_end, next_seq) /\ task[u].held \subseteq inflight
    BY DEF ShapeInv
  <2>2. task[u].seq \in Nat
    BY <1>0 DEF TaskState
  <2>3. Timed(task[u], durable_end', next_seq')
    <3>0. PICK a \in Nat, b \in Nat : a = next_seq /\ b = next_seq' /\ a <= b
      BY <1>0
    <3>1. 1 .. a - 1 \subseteq 1 .. b - 1
      BY <3>0, IntervalGrows
    <3> QED
      BY <1>0, <2>1, <2>2, <3>0, <3>1 DEF Timed
  <2>4. task[u].held \intersect task[t].held = {}
    <3>1. CASE t \in Writer
      BY <1>2, <3>1 DEF ShapeInv
    <3>2. CASE t = Ticker
      BY <3>2 DEF ShapeInv
    <3> QED
      BY <3>1, <3>2 DEF Task
  <2> QED
    BY <2>1, <2>3, <2>4
<1>3. ASSUME NEW w \in Writer
      PROVE  /\ Shape(task'[w]) /\ Timed(task'[w], durable_end', next_seq')
             /\ task'[w].held \subseteq inflight'
  <2>1. CASE w = t
    BY <1>1, <2>1
  <2>2. CASE w # t
    BY <1>0, <1>1, <1>2, <2>2
  <2> QED
    BY <2>1, <2>2
<1>4. ASSUME NEW w \in Writer, NEW u \in Writer, w # u
      PROVE  /\ task'[w].held \intersect task'[u].held = {}
             /\ task'[w].key = task'[u].key => task'[w].key = None
  <2>1. CASE w = t
    BY <1>0, <1>1, <1>4, <2>1
  <2>2. CASE u = t
    BY <1>0, <1>1, <1>4, <2>2
  <2>3. CASE w # t /\ u # t
    BY <1>0, <1>1, <1>4, <2>3 DEF ShapeInv
  <2> QED
    BY <2>1, <2>2, <2>3
<1>5. /\ task'[Ticker].pc = "idle" => task'[Ticker] = Idle
      /\ task'[Ticker].pc # "idle" => task'[Ticker].op = "Tick"
      /\ task'[Ticker].key = None /\ task'[Ticker].held = {}
  <2>1. CASE t = Ticker
    BY <1>1, <2>1
  <2>2. CASE t # Ticker
    BY <1>0, <1>1, <2>2 DEF ShapeInv
  <2> QED
    BY <2>1, <2>2
<1> QED
  BY <1>3, <1>4, <1>5 DEF ShapeInv

\* It stays with its operation and its guards.
LEMMA ShapeMoves ==
    ASSUME TaskInv, ShapeInv, NEW t \in Task, NEW e, task' = [task EXCEPT ![t] = e],
           e.key = task[t].key, e.held = task[t].held, e.op = task[t].op, e.pc # "idle", task[t].pc # "idle",
           t \in Writer => Shape(e) /\ Timed(e, durable_end', next_seq'),
           UNCHANGED inflight,
           durable_end' \in Nat, durable_end' >= durable_end, UNCHANGED next_seq,
           device_end' \in Nat /\ durable_end' <= device_end'
    PROVE  ShapeInv'
<1>1. t \in Writer =>
              /\ Shape(e) /\ Timed(e, durable_end', next_seq') /\ e.held \subseteq inflight'
              /\ \A u \in Writer : u # t => /\ task[u].held \intersect e.held = {}
                                            /\ task[u].key = e.key => e.key = None
  BY DEF ShapeInv
<1>2. t = Ticker => /\ e.pc = "idle" => e = Idle
                    /\ e.pc # "idle" => e.op = "Tick"
                    /\ e.key = None /\ e.held = {}
  BY DEF ShapeInv
<1>3. next_seq' \in Nat /\ next_seq' >= next_seq
  BY DEF TaskInv
<1> QED
  BY <1>1, <1>2, <1>3, ShapeStep

\* It is done.
LEMMA ShapeEnds ==
    ASSUME TaskInv, ShapeInv, NEW t \in Task, Finish(t),
           durable_end' \in Nat, durable_end' >= durable_end, UNCHANGED next_seq,
           device_end' \in Nat /\ durable_end' <= device_end'
    PROVE  ShapeInv'
<1>1. task' = [task EXCEPT ![t] = Idle] /\ inflight' = inflight \ task[t].held
  BY DEF Finish
<1>2. next_seq' \in Nat /\ next_seq' >= next_seq
  BY DEF TaskInv
<1>3. /\ Shape(Idle) /\ Timed(Idle, durable_end', next_seq') /\ Idle.held \subseteq inflight'
      /\ \A u \in Writer : task[u].held \intersect Idle.held = {}
      /\ Idle.key = None /\ Idle.held = {} /\ Idle.pc = "idle"
  BY IdleShape, IdleState
<1> QED
  BY <1>1, <1>2, <1>3, ShapeStep

\* The records it waited for are durable.
LEMMA ShapeDurable ==
    ASSUME TaskInv, ShapeInv, NEW t \in Task, Durable(t), task[t].pc \in {"wait", "lead", "rotate"},
           task[t].op = "Cas" => task[t].seq < durable_end',
           durable_end' \in Nat, durable_end' >= durable_end, UNCHANGED next_seq,
           device_end' \in Nat /\ durable_end' <= device_end'
    PROVE  ShapeInv'
<1>0. task \in [Task -> TaskState] /\ task[t] \in TaskState /\ task[t].op \in Operation
  BY DEF TaskInv
<1>1. ASSUME NEW p \in {"file", "retire"}, Goto(t, p), UNCHANGED inflight,
             p = "file" => task[t].op \in {"Cas", "Write", "Delete"},
             p = "retire" => task[t].op \in {"Tick", "Big"}
      PROVE  ShapeInv'
  <2> DEFINE e == [task[t] EXCEPT !.pc = p]
  <2>1. task' = [task EXCEPT ![t] = e]
    BY <1>1 DEF Goto
  <2>2. /\ e.pc = p /\ e.key = task[t].key /\ e.held = task[t].held /\ e.op = task[t].op
        /\ e.seq = task[t].seq /\ e.val = task[t].val
    BY <1>0 DEF TaskState
  <2> HIDE DEF e
  <2>3. t \in Writer => Shape(e) /\ Timed(e, durable_end', next_seq')
    <3> SUFFICES ASSUME t \in Writer PROVE Shape(e) /\ Timed(e, durable_end', next_seq')
      OBVIOUS
    <3>1. Shape(task[t]) /\ Timed(task[t], durable_end, next_seq)
      BY DEF ShapeInv
    <3>2. Shape(e)
      BY <1>1, <2>2, <3>1 DEF Shape
    <3>3. Timed(e, durable_end', next_seq')
      BY <1>1, <2>2, <3>1 DEF Timed
    <3> QED
      BY <3>2, <3>3
  <2> QED
    BY <1>1, <2>1, <2>2, <2>3, ShapeMoves
<1>2. CASE Finish(t)
  BY <1>2, ShapeEnds
<1> QED
  BY <1>0, <1>1, <1>2 DEF Durable, Operation, Succeed, FailClean

\* Retirement is over.
LEMMA ShapeRetired ==
    ASSUME TaskInv, ShapeInv, NEW t \in Task, NEW n, Retired(t, n), task[t].pc \in {"retire", "retiring"},
           UNCHANGED <<durable_end, next_seq, device_end>>
    PROVE  ShapeInv'
<1>0. /\ task \in [Task -> TaskState] /\ task[t] \in TaskState /\ durable_end \in Nat \ {0}
      /\ durable_end' \in Nat /\ durable_end' >= durable_end
      /\ device_end' \in Nat /\ durable_end' <= device_end'
  BY DEF TaskInv, ShapeInv
<1>1. CASE FailClean(t)
  BY <1>0, <1>1, ShapeEnds DEF FailClean
<1>2. ASSUME t # Ticker, NEW p \in {"big", "rotate"}, NEW s \in Nat, p = "big" => s < durable_end,
             task' = [task EXCEPT ![t] = [task[t] EXCEPT !.pc = p, !.seq = s]], UNCHANGED inflight
      PROVE  ShapeInv'
  <2> DEFINE e == [task[t] EXCEPT !.pc = p, !.seq = s]
  <2>1. task' = [task EXCEPT ![t] = e]
    BY <1>2
  <2>2. /\ e.pc = p /\ e.key = task[t].key /\ e.held = task[t].held /\ e.op = task[t].op
        /\ e.seq = s /\ e.val = task[t].val
    BY <1>0 DEF TaskState
  <2> HIDE DEF e
  <2>3. Shape(e) /\ Timed(e, durable_end', next_seq')
    <3>1. t \in Writer
      BY <1>2 DEF Task
    <3>2. Shape(task[t]) /\ Timed(task[t], durable_end, next_seq)
      BY <3>1 DEF ShapeInv
    <3>3. task[t].op = "Big" /\ task[t].held = {}
      BY <3>2 DEF Shape
    <3>4. Shape(e)
      BY <1>2, <2>2, <3>2, <3>3 DEF Shape
    <3>5. Timed(e, durable_end', next_seq')
      BY <1>2, <2>2, <3>3 DEF Timed
    <3> QED
      BY <3>4, <3>5
  <2> QED
    BY <1>0, <1>2, <2>1, <2>2, <2>3, ShapeMoves
<1>3. CASE Goto(t, "rotate") /\ UNCHANGED inflight /\ t # Ticker
  <2>1. task[t].seq \in Nat /\ [task[t] EXCEPT !.pc = "rotate"] = [task[t] EXCEPT !.pc = "rotate", !.seq = task[t].seq]
    BY <1>0 DEF TaskState
  <2>2. task' = [task EXCEPT ![t] = [task[t] EXCEPT !.pc = "rotate", !.seq = task[t].seq]]
    BY <1>3, <2>1 DEF Goto
  <2> QED
    BY <1>2, <1>3, <2>1, <2>2
<1>4. CASE /\ task' = [task EXCEPT ![t] = [@ EXCEPT !.pc = "big", !.seq = durable_end - 1]]
           /\ UNCHANGED inflight /\ t # Ticker
  <2>1. durable_end - 1 \in Nat /\ durable_end - 1 < durable_end
    BY <1>0
  <2> QED
    BY <1>2, <1>4, <2>1
<1> QED
  BY <1>1, <1>3, <1>4 DEF Retired

LEMMA ShapeInitially == WalInit => ShapeInv
<1> SUFFICES ASSUME WalInit PROVE ShapeInv
  OBVIOUS
<1>1. task = [t \in Task |-> Idle] /\ Writer \subseteq Task /\ Ticker \in Task
  BY DEF WalInit, Task
<1>2. \A t \in Task : task[t] = Idle
  BY <1>1
<1>3. durable_end = 1 /\ next_seq = 1 /\ device_end = 1 /\ inflight = {} /\ unlinked = <<>>
  BY DEF WalInit
<1> QED
  BY <1>1, <1>2, <1>3, IdleShape, IdleState DEF ShapeInv

\* A step of a client.
LEMMA ShapeWriter ==
    ASSUME TaskInv, ShapeInv, NEW w \in Writer, begin_operation(w) \/ WriterStep(w)
    PROVE  ShapeInv'
<1> USE DEF logVars, retireVars
<1>0. /\ task \in [Task -> TaskState] /\ w \in Task /\ w # Ticker /\ task[w] \in TaskState
      /\ next_seq \in Nat \ {0} /\ durable_end \in Nat /\ device_end \in Nat /\ durable_end <= device_end
      /\ Shape(task[w]) /\ Timed(task[w], durable_end, next_seq) /\ task[w].held \subseteq inflight
  BY WalAssumption DEF TaskInv, ShapeInv, Task
<1>1. CASE begin_operation(w)
  <2>0. /\ UNCHANGED <<next_seq, durable_end, device_end, inflight, retiring, unlinked>>
        /\ task[w] = Idle
    BY <1>1 DEF begin_operation
  <2>1. PICK k \in Key, op \in {"Cas", "Write", "Delete", "Insert", "Big"}, v \in Contents :
            /\ ~ Held(k) /\ Begin(w, op, k, v)
            /\ op \in {"Cas", "Insert"} => k \in HeadKey
            /\ op = "Cas" => v \in BlobKey
            /\ op \in {"Write", "Big"} => k \in BlobKey /\ v = k
            /\ op = "Delete" => k \in Deletable /\ v = None
            /\ op = "Insert" => v = Genesis
    BY <1>1 DEF begin_operation, Contents
  <2> DEFINE p == CASE op = "Insert" -> "file" [] op = "Big" -> "rotate" [] OTHER -> "append"
             e == [Idle EXCEPT !.op = op, !.key = k, !.val = v, !.pc = p]
  <2>2. task' = [task EXCEPT ![w] = e]
    BY <2>1 DEF Begin
  <2>3. e.pc = p /\ e.op = op /\ e.key = k /\ e.val = v /\ e.held = {} /\ e.seq = 0
    BY DEF Idle
  <2>4. p = IF op = "Insert" THEN "file" ELSE IF op = "Big" THEN "rotate" ELSE "append"
    OBVIOUS
  <2> HIDE DEF e, p
  <2>5. Shape(e) /\ Timed(e, durable_end', next_seq')
    BY <2>1, <2>3, <2>4 DEF Shape, Timed
  <2>6. \A u \in Writer : u # w => /\ task[u].held \intersect e.held = {}
                                   /\ task[u].key = e.key => e.key = None
    BY <2>1, <2>3 DEF Held
  <2>7. /\ inflight \ task[w].held \subseteq inflight' /\ e.held \subseteq inflight'
        /\ durable_end' \in Nat /\ durable_end' >= durable_end /\ next_seq' \in Nat /\ next_seq' >= next_seq
        /\ device_end' \in Nat /\ durable_end' <= device_end'
    BY <1>0, <2>0, <2>3
  <2> QED
    BY <1>0, <2>2, <2>5, <2>6, <2>7, ShapeStep
<1>2. ASSUME NEW e, task' = [task EXCEPT ![w] = e], task[w].pc # "idle", e.pc # "idle",
             Shape(e), Timed(e, durable_end, next_seq), e.key = task[w].key, e.held = task[w].held,
             e.op = task[w].op \/ e.op = "Cancel",
             UNCHANGED <<next_seq, durable_end, device_end, inflight, retiring, unlinked>>
      PROVE  ShapeInv'
  <2>1. \A u \in Writer : u # w => /\ task[u].held \intersect e.held = {}
                                   /\ task[u].key = e.key => e.key = None
    BY <1>2 DEF ShapeInv
  <2>2. /\ inflight \ task[w].held \subseteq inflight' /\ e.held \subseteq inflight'
        /\ durable_end' \in Nat /\ durable_end' >= durable_end /\ next_seq' \in Nat /\ next_seq' >= next_seq
        /\ device_end' \in Nat /\ durable_end' <= device_end'
        /\ Timed(e, durable_end', next_seq')
    BY <1>0, <1>2
  <2> QED
    BY <1>0, <1>2, <2>1, <2>2, ShapeStep
<1>3. CASE write_file(w)
  <2>1. UNCHANGED <<next_seq, durable_end, device_end, retiring, unlinked>> /\ task[w].pc = "file"
    BY <1>3 DEF write_file
  <2>2. CASE task[w].op = "Insert"
    <3> DEFINE e == [task[w] EXCEPT !.pc = "append"]
    <3>1. task' = [task EXCEPT ![w] = e] /\ UNCHANGED inflight
      BY <1>3, <2>2 DEF write_file, Goto
    <3>2. /\ e.pc = "append" /\ e.key = task[w].key /\ e.held = task[w].held /\ e.op = task[w].op
          /\ e.seq = task[w].seq /\ e.val = task[w].val
      BY <1>0 DEF TaskState
    <3> HIDE DEF e
    <3>3. Shape(e)
      BY <1>0, <2>1, <2>2, <3>2 DEF Shape
    <3>4. Timed(e, durable_end, next_seq)
      BY <1>0, <3>2 DEF Timed
    <3> QED
      BY <1>2, <2>1, <3>1, <3>2, <3>3, <3>4
  <2>3. CASE task[w].op # "Insert"
    <3>1. Finish(w)
      BY <1>3, <2>3 DEF write_file, Succeed
    <3> QED
      BY <1>0, <2>1, <3>1, ShapeEnds
  <2> QED
    BY <2>2, <2>3
<1>4. CASE write_fails(w)
  <2>1. UNCHANGED <<next_seq, durable_end, device_end, retiring, unlinked>> /\ task[w].pc \in {"file", "big"}
    BY <1>4 DEF write_fails
  <2>2. CASE task[w].op \in {"Insert", "Big"}
    <3>1. Finish(w)
      BY <1>4, <2>2 DEF write_fails, FailClean
    <3> QED
      BY <1>0, <2>1, <3>1, ShapeEnds
  <2>3. CASE task[w].op \notin {"Insert", "Big"}
    <3> DEFINE e == [task[w] EXCEPT !.pc = "append", !.op = "Cancel"]
    <3>1. task' = [task EXCEPT ![w] = e] /\ UNCHANGED inflight
      BY <1>4, <2>3 DEF write_fails
    <3>2. /\ e.pc = "append" /\ e.key = task[w].key /\ e.held = task[w].held /\ e.op = "Cancel"
          /\ e.seq = task[w].seq /\ e.val = task[w].val
      BY <1>0 DEF TaskState
    <3> HIDE DEF e
    <3>3. Shape(e)
      BY <1>0, <2>1, <2>3, <3>2 DEF Shape
    <3>4. Timed(e, durable_end, next_seq)
      BY <1>0, <3>2 DEF Timed
    <3> QED
      BY <1>2, <2>1, <3>1, <3>2, <3>3, <3>4
  <2> QED
    BY <2>2, <2>3
<1>5. CASE big_write(w) \/ big_write_fails(w)
  BY <1>0, <1>5, ShapeEnds DEF big_write, big_write_fails, Succeed
<1>6. CASE append(w)
  <2>1. PICK p \in {"rotate", IF ~Syncs(task[w].op) THEN "file"
                            ELSE IF flushing = None THEN "lead" ELSE "wait"} :
          task' = [task EXCEPT ![w] =
                [@ EXCEPT !.pc = p, !.seq = next_seq, !.held = Guards(w),
                          !.covered = IF p = "lead" THEN next_seq + 1 ELSE 0]]
    BY <1>6 DEF append
  <2>2. /\ task[w].pc = "append" /\ next_seq' = next_seq + 1 /\ inflight' = inflight \union {next_seq}
        /\ UNCHANGED <<durable_end, device_end, retiring, unlinked>>
    BY <1>6 DEF append
  <2> DEFINE c == IF p = "lead" THEN next_seq + 1 ELSE 0
             e == [task[w] EXCEPT !.pc = p, !.seq = next_seq, !.held = Guards(w), !.covered = c]
  <2>3. task' = [task EXCEPT ![w] = e]
    BY <2>1
  <2>4. /\ e.pc = p /\ e.key = task[w].key /\ e.held = task[w].held \union {next_seq} /\ e.op = task[w].op
        /\ e.seq = next_seq /\ e.val = task[w].val /\ (p = "lead" => e.covered = next_seq + 1)
    BY <1>0 DEF TaskState, Guards
  <2>5. p \in {"rotate", "file", "lead", "wait"} /\ (p = "file" => ~Syncs(task[w].op))
    BY <2>1
  <2> HIDE DEF e
  <2>6. task[w].op \in {"Cas", "Write", "Delete", "Insert", "Cancel"}
    BY <1>0, <2>2 DEF Shape
  <2>7. Shape(e)
    <3>1. task[w].op # "Cancel" => task[w].held = {}
      BY <1>0, <2>2, <2>6 DEF Shape
    <3> QED
      BY <1>0, <2>2, <2>4, <2>5, <2>6, <3>1 DEF Shape, Syncs
  <2>8. Timed(e, durable_end', next_seq')
    <3>1. e.held \subseteq 1 .. next_seq' - 1
      <4>1. task[w].held \subseteq 1 .. next_seq - 1
        BY <1>0 DEF Timed
      <4> QED
        BY <1>0, <2>2, <2>4, <4>1
    <3> QED
      BY <1>0, <2>2, <2>4, <2>5, <2>6, <3>1 DEF Timed, Syncs
  <2>9. e.held \subseteq inflight'
    BY <1>0, <2>2, <2>4
  <2>10. ASSUME NEW u \in Writer, u # w
         PROVE  /\ task[u].held \intersect e.held = {}
                /\ task[u].key = e.key => e.key = None
    <3>1. next_seq \notin task[u].held
      <4>1. task[u].held \subseteq 1 .. next_seq - 1
        BY <1>0 DEF ShapeInv, Timed
      <4> QED
        BY <1>0, <4>1
    <3> QED
      BY <2>4, <2>10, <3>1 DEF ShapeInv
  <2>11. /\ inflight \ task[w].held \subseteq inflight'
         /\ durable_end' \in Nat /\ durable_end' >= durable_end /\ next_seq' \in Nat /\ next_seq' >= next_seq
         /\ device_end' \in Nat /\ durable_end' <= device_end'
    BY <1>0, <2>2
  <2> QED
    BY <1>0, <2>3, <2>7, <2>8, <2>9, <2>10, <2>11, ShapeStep
<1>7. CASE append_fails(w) \/ open_segment_fails(w)
  <2>1. AppendFailed(w)
    BY <1>7 DEF append_fails, open_segment_fails
  <2>2. Finish(w) /\ UNCHANGED <<next_seq, durable_end, device_end>>
    BY <2>1 DEF AppendFailed, FailUnknown, FailClean
  <2> QED
    BY <1>0, <2>2, ShapeEnds
<1> QED
  BY <1>1, <1>3, <1>4, <1>5, <1>6, <1>7 DEF WriterStep

\* A step of the log.
LEMMA ShapeTask ==
    ASSUME TaskInv, RestartInv, ShapeInv, NEW t \in Task, TaskStep(t) \/ RetirementFails(t)
    PROVE  ShapeInv'
<1> USE DEF logVars, retireVars
<1>0. /\ task \in [Task -> TaskState] /\ task[t] \in TaskState /\ t # None
      /\ next_seq \in Nat \ {0} /\ durable_end \in Nat /\ device_end \in Nat /\ durable_end <= device_end
      /\ durable_end <= next_seq
      /\ t \in Writer => Shape(task[t]) /\ Timed(task[t], durable_end, next_seq)
      /\ t \notin Writer => t = Ticker
  BY WalAssumption DEF TaskInv, ShapeInv, Task
<1>1. CASE wait_durable(t)
  <2>1. UNCHANGED <<next_seq, durable_end, device_end, retiring, unlinked>> /\ task[t].pc = "wait"
    BY <1>1 DEF wait_durable
  <2>2. CASE poisoned
    <3>1. Finish(t)
      BY <1>1, <2>2 DEF wait_durable, FailUnknown
    <3> QED
      BY <1>0, <2>1, <3>1, ShapeEnds
  <2>3. CASE ~poisoned
    <3>1. Durable(t) /\ durable_end > task[t].seq
      BY <1>1, <2>3 DEF wait_durable
    <3>2. task[t].seq < durable_end'
      BY <1>0, <2>1, <3>1 DEF TaskState
    <3> QED
      BY <1>0, <2>1, <3>1, <3>2, ShapeDurable
  <2> QED
    BY <2>2, <2>3
<1>2. CASE lead_flush(t)
  <2> DEFINE e == [task[t] EXCEPT !.pc = "lead", !.covered = next_seq]
  <2>1. /\ UNCHANGED <<next_seq, durable_end, device_end, retiring, unlinked, inflight>>
        /\ task[t].pc = "wait" /\ task' = [task EXCEPT ![t] = e]
    BY <1>2 DEF lead_flush
  <2>2. /\ e.pc = "lead" /\ e.key = task[t].key /\ e.held = task[t].held /\ e.op = task[t].op
        /\ e.seq = task[t].seq /\ e.val = task[t].val /\ e.covered = next_seq
    BY <1>0 DEF TaskState
  <2> HIDE DEF e
  <2>3. ASSUME t \in Writer PROVE Shape(e) /\ Timed(e, durable_end', next_seq')
    <3>1. Shape(e)
      BY <1>0, <2>1, <2>2, <2>3 DEF Shape
    <3>2. task[t].held # {}
      BY <1>0, <2>1, <2>3 DEF Shape
    <3>3. task[t].seq \in Nat
      BY <1>0 DEF TaskState
    <3>4. Timed(e, durable_end', next_seq')
      BY <1>0, <2>1, <2>2, <2>3, <3>2, <3>3 DEF Timed
    <3> QED
      BY <3>1, <3>4
  <2>4. /\ durable_end' \in Nat /\ durable_end' >= durable_end
        /\ device_end' \in Nat /\ durable_end' <= device_end'
    BY <1>0, <2>1
  <2>5. task[t].pc # "idle" /\ e.pc # "idle"
    BY <2>1, <2>2
  <2> QED
    BY <2>1, <2>2, <2>3, <2>4, <2>5, ShapeMoves
<1>3. CASE flush_returns(t)
  <2>1. UNCHANGED <<next_seq, retiring, unlinked>> /\ task[t].pc = "lead"
    BY <1>3 DEF flush_returns
  <2>2. task[t].covered \in durable_end .. next_seq
    BY <2>1 DEF TaskInv
  <2>3. CASE poisoned'
    <3>1. Finish(t) /\ UNCHANGED durable_end /\ device_end' \in {device_end, task[t].covered}
      BY <1>3, <2>3 DEF flush_returns, FailUnknown
    <3>2. durable_end' \in Nat /\ durable_end' >= durable_end /\ device_end' \in Nat /\ durable_end' <= device_end'
      BY <1>0, <2>2, <3>1
    <3> QED
      BY <1>0, <2>1, <3>1, <3>2, ShapeEnds
  <2>4. CASE ~poisoned'
    <3>1. Durable(t) /\ durable_end' = task[t].covered /\ device_end' = task[t].covered
      BY <1>3, <2>4 DEF flush_returns, Covered
    <3>2. durable_end' \in Nat /\ durable_end' >= durable_end /\ device_end' \in Nat /\ durable_end' <= device_end'
      BY <1>0, <2>2, <3>1
    <3>3. task[t].op = "Cas" => task[t].seq < durable_end'
      <4>1. task[t].op = "Cas" => t \in Writer
        BY <2>1 DEF ShapeInv, Task
      <4>2. task[t].seq \in Nat
        BY <1>0 DEF TaskState
      <4> QED
        BY <1>0, <2>1, <2>2, <3>1, <4>1, <4>2 DEF Timed
    <3> QED
      BY <1>0, <2>1, <3>1, <3>2, <3>3, ShapeDurable
  <2> QED
    BY <2>3, <2>4
<1>4. CASE rotate(t)
  <2>1. UNCHANGED <<next_seq, retiring, unlinked>> /\ task[t].pc = "rotate"
    BY <1>4 DEF rotate
  <2>2. CASE poisoned \/ (badblocks /\ durable_end < next_seq)
    <3>1. Finish(t) /\ UNCHANGED <<durable_end, device_end>>
      BY <1>4, <2>2 DEF rotate, FailUnknown
    <3> QED
      BY <1>0, <2>1, <3>1, ShapeEnds
  <2>3. CASE ~ (poisoned \/ (badblocks /\ durable_end < next_seq))
    <3>1. Durable(t) /\ durable_end' = next_seq /\ device_end' = next_seq
      BY <1>4, <2>3 DEF rotate, FlushedByRotation
    <3>2. task[t].op = "Cas" => task[t].seq < durable_end'
      <4>1. task[t].op = "Cas" => t \in Writer
        BY <2>1 DEF ShapeInv, Task
      <4>2. task[t].op = "Cas" => task[t].held # {}
        BY <1>0, <2>1, <4>1 DEF Shape
      <4> QED
        BY <1>0, <3>1, <4>1, <4>2 DEF Timed
    <3>3. durable_end' \in Nat /\ durable_end' >= durable_end /\ device_end' \in Nat /\ durable_end' <= device_end'
      BY <1>0, <3>1
    <3> QED
      BY <1>0, <2>1, <3>1, <3>2, <3>3, ShapeDurable
  <2> QED
    BY <2>2, <2>3
<1>5. CASE retire_closed(t)
  <2>1. /\ UNCHANGED <<next_seq, durable_end, device_end, unlinked>> /\ task[t].pc = "retire"
        /\ retiring.by = None
    BY <1>5 DEF retire_closed
  <2>2. CASE closed = <<>> \/ Outstanding(closed[1])
    <3>1. Retired(t, Len(closed))
      BY <1>5, <2>2 DEF retire_closed
    <3> QED
      BY <1>0, <2>1, <3>1, ShapeRetired
  <2>3. CASE ~ (closed = <<>> \/ Outstanding(closed[1]))
    <3> DEFINE e == [task[t] EXCEPT !.pc = "retiring"]
    <3>1. task' = [task EXCEPT ![t] = e] /\ UNCHANGED inflight
      BY <1>5, <2>3 DEF retire_closed, Goto
    <3>2. /\ e.pc = "retiring" /\ e.key = task[t].key /\ e.held = task[t].held /\ e.op = task[t].op
          /\ e.seq = task[t].seq /\ e.val = task[t].val
      BY <1>0 DEF TaskState
    <3> HIDE DEF e
    <3>3. t \in Writer => Shape(e) /\ Timed(e, durable_end', next_seq')
      <4>1. t \in Writer => task[t].op = "Big"
        BY <1>0, <2>1 DEF Shape
      <4>2. t \in Writer => Shape(e)
        BY <1>0, <2>1, <3>2, <4>1 DEF Shape
      <4>3. t \in Writer => Timed(e, durable_end', next_seq')
        BY <1>0, <2>1, <3>2 DEF Timed
      <4> QED
        BY <4>2, <4>3
    <3>4. /\ durable_end' \in Nat /\ durable_end' >= durable_end
          /\ device_end' \in Nat /\ durable_end' <= device_end'
      BY <1>0, <2>1
    <3>5. task[t].pc # "idle" /\ e.pc # "idle"
      BY <2>1, <3>2
    <3> QED
      BY <2>1, <3>1, <3>2, <3>3, <3>4, <3>5, ShapeMoves
  <2> QED
    BY <2>2, <2>3
<1>6. CASE retire_flush(t) \/ retire_unlink(t)
  <2>1. UNCHANGED <<next_seq, durable_end, device_end, task, inflight>> /\ retiring'.by = t
    BY <1>6 DEF retire_flush, retire_unlink, FlushFiles
  <2> QED
    BY <1>0, <2>1 DEF ShapeInv
<1>7. CASE retire_end(t)
  <2>1. /\ UNCHANGED <<next_seq, durable_end, device_end>>
        /\ task[t].pc = "retiring" /\ Retired(t, Len(retiring.queue))
    BY <1>7 DEF retire_end, TaskInv
  <2> QED
    BY <1>0, <2>1, ShapeRetired
<1>9. CASE flush_unwinds(t)
  <2>1. UNCHANGED <<next_seq, durable_end, device_end>> /\ Finish(t)
    BY <1>9 DEF flush_unwinds, FailUnknown
  <2> QED
    BY <1>0, <2>1, ShapeEnds
<1>8. CASE RetirementFails(t)
  <2>1. UNCHANGED <<next_seq, durable_end, device_end>> /\ Finish(t)
    BY <1>8 DEF RetirementFails, retire_dir_fails, retire_fails, RetireFailed, FailClean
  <2> QED
    BY <1>0, <2>1, ShapeEnds
<1> QED
  BY <1>1, <1>2, <1>3, <1>4, <1>5, <1>6, <1>7, <1>8, <1>9 DEF TaskStep

LEMMA ShapePreserved ==
    ASSUME TaskInv, RestartInv, ShapeInv, [WalNext]_walVars, TaskInv'
    PROVE  ShapeInv'
<1> USE DEF logVars, retireVars
<1>0. /\ task \in [Task -> TaskState] /\ Ticker \in Task /\ Ticker \notin Writer /\ Writer \subseteq Task
      /\ next_seq \in Nat \ {0} /\ durable_end \in Nat /\ device_end \in Nat /\ durable_end <= device_end
  BY WalAssumption DEF TaskInv, ShapeInv, Task
<1>1. CASE \E w \in Writer : begin_operation(w) \/ WriterStep(w)
  BY <1>1, ShapeWriter
<1>2. CASE \E t \in Task : TaskStep(t) \/ RetirementFails(t)
  BY <1>2, ShapeTask
<1>3. CASE tick
  <2>1. PICK p \in {"rotate", "lead", "retire"} :
          task' = [task EXCEPT ![Ticker] =
                [Idle EXCEPT !.op = "Tick", !.pc = p, !.covered = IF p = "lead" THEN next_seq ELSE 0]]
    BY <1>3 DEF tick
  <2>2. UNCHANGED <<next_seq, durable_end, device_end, retiring, unlinked, inflight>>
    BY <1>3 DEF tick
  <2> DEFINE e == [Idle EXCEPT !.op = "Tick", !.pc = p, !.covered = IF p = "lead" THEN next_seq ELSE 0]
  <2>3. e.op = "Tick" /\ e.pc = p /\ e.key = None /\ e.held = {}
    BY DEF Idle
  <2>4. task' = [task EXCEPT ![Ticker] = e]
    BY <2>1
  <2> HIDE DEF e
  <2>5. /\ inflight \ task[Ticker].held \subseteq inflight' /\ e.pc # "idle"
        /\ durable_end' \in Nat /\ durable_end' >= durable_end /\ next_seq' \in Nat /\ next_seq' >= next_seq
        /\ device_end' \in Nat /\ durable_end' <= device_end'
    BY <1>0, <2>2, <2>3
  <2> QED
    BY <1>0, <2>3, <2>4, <2>5, ShapeStep
<1>4. CASE PowerLoss
  <2>1. /\ task' = [t \in Task |-> Idle] /\ inflight' = {} /\ unlinked' = <<>>
        /\ next_seq' = 1 /\ durable_end' = 1 /\ device_end' = 1
    BY <1>4 DEF PowerLoss
  <2>2. \A t \in Task : task'[t] = Idle
    BY <2>1
  <2> QED
    BY <1>0, <2>1, <2>2, IdleShape, IdleState DEF ShapeInv
<1>5. CASE WritebackFails \/ replay_refuses \/ replay_apply \/ replay_flush \/ Reopen \/ UNCHANGED walVars
  <2>1. UNCHANGED <<next_seq, durable_end, device_end, task, inflight, retiring, unlinked>>
    BY <1>5 DEF WritebackFails, replay_refuses, replay_apply, replay_flush, Reopen, walVars
  <2> QED
    BY <1>0, <2>1 DEF ShapeInv
<1>6. CASE replay_unlink
  <2>1. /\ status = "flushed" /\ device_end' = durable_end' /\ UNCHANGED <<task, inflight, retiring, unlinked>>
    BY <1>6 DEF replay_unlink
  <2>2. \A w \in Writer : task[w] = Idle
    BY <1>0, <2>1 DEF RestartInv, ShapeInv, Shape
  <2>3. next_seq' \in Nat /\ durable_end' \in Nat /\ durable_end' <= device_end'
    BY <2>1 DEF TaskInv
  <2> QED
    BY <1>0, <2>1, <2>2, <2>3, IdleShape DEF ShapeInv
<1> QED
  BY <1>1, <1>2, <1>3, <1>4, <1>5, <1>6 DEF WalNext, Restart

-----------------------------------------------------------------------------
(* All records that a power loss may leave, and those that it leaves.      *)

Later == IF retiring.unlinking THEN Tail(retiring.queue) ELSE retiring.queue
All == Recs(unlinked) \union Recs(retiring.queue) \union Recs(closed) \union Of(active)
Kept == Recs(Later) \union Recs(closed) \union Of(active)

KeyIn(X, k) == {r \in X : r.key = k}

\* The operation that has k's stripe.
HolderIn(T, k) ==
    IF \E w \in Writer : T[w].key = k THEN T[CHOOSE w \in Writer : T[w].key = k] ELSE Idle

LEMMA HolderIs ==
    ASSUME NEW T, NEW k \in Key, NEW w \in Writer, T[w].key = k,
           \A u \in Writer : u # w => T[u].key # k
    PROVE  HolderIn(T, k) = T[w]
<1>1. PICK v : v = CHOOSE u \in Writer : T[u].key = k
  OBVIOUS
<1>2. v \in Writer /\ T[v].key = k
  BY <1>1
<1>3. v = w
  BY <1>2
<1> QED
  BY <1>1, <1>3 DEF HolderIn

LEMMA NoHolder ==
    ASSUME NEW T, NEW k, \A u \in Writer : T[u].key # k
    PROVE  HolderIn(T, k) = Idle
BY DEF HolderIn

\* The stripe is one operation's.
LEMMA OneHolder ==
    ASSUME ShapeInv, NEW w \in Writer, task[w].key \in Key
    PROVE  /\ HolderIn(task, task[w].key) = task[w]
           /\ \A u \in Writer : u # w => task[u].key # task[w].key
<1>1. \A u \in Writer : u # w => task[u].key # task[w].key
  BY WalAssumption DEF ShapeInv, Key
<1> QED
  BY <1>1, HolderIs

\* A step of one task leaves the other stripes alone.
LEMMA OtherHolder ==
    ASSUME TaskInv, ShapeInv, NEW t \in Task, NEW e, task' = [task EXCEPT ![t] = e],
           NEW k \in Key, t \in Writer => e.key # k /\ task[t].key # k
    PROVE  HolderIn(task', k) = HolderIn(task, k)
<1>0. task \in [Task -> TaskState] /\ Writer \subseteq Task
  BY DEF TaskInv, Task
<1>1. task'[t] = e /\ \A u \in Task : u # t => task'[u] = task[u]
  BY <1>0
<1>2. \A u \in Writer : (task'[u].key = k <=> task[u].key = k) /\ (task[u].key = k => task'[u] = task[u])
  BY <1>0, <1>1
<1>3. CASE \E w \in Writer : task[w].key = k
  <2>1. PICK w \in Writer : task[w].key = k
    BY <1>3
  <2>2. \A u \in Writer : u # w => task[u].key # k
    BY <2>1, OneHolder
  <2>3. HolderIn(task, k) = task[w]
    BY <2>1, <2>2, HolderIs
  <2>4. task'[w].key = k /\ \A u \in Writer : u # w => task'[u].key # k
    BY <1>2, <2>1, <2>2
  <2>5. PICK T : T = task'
    OBVIOUS
  <2>6. T[w].key = k /\ \A u \in Writer : u # w => T[u].key # k
    BY <2>4, <2>5
  <2>7. HolderIn(T, k) = T[w]
    BY <2>6, HolderIs
  <2> QED
    BY <1>2, <2>1, <2>3, <2>5, <2>7
<1>4. CASE \A w \in Writer : task[w].key # k
  <2>5. PICK T : T = task'
    OBVIOUS
  <2>6. \A u \in Writer : T[u].key # k
    BY <1>2, <1>4, <2>5
  <2>7. HolderIn(T, k) = Idle
    BY <2>6, NoHolder
  <2>8. HolderIn(task, k) = Idle
    BY <1>4, NoHolder
  <2> QED
    BY <2>5, <2>7, <2>8
<1> QED
  BY <1>3, <1>4

\* And its own is where it is.
LEMMA OwnHolder ==
    ASSUME TaskInv, ShapeInv, NEW w \in Writer, NEW e, task' = [task EXCEPT ![w] = e],
           NEW k \in Key, \A u \in Writer : u # w => task[u].key # k
    PROVE  /\ HolderIn(task, k) = IF task[w].key = k THEN task[w] ELSE Idle
           /\ HolderIn(task', k) = IF e.key = k THEN e ELSE Idle
<1>0. task \in [Task -> TaskState] /\ Writer \subseteq Task
  BY DEF TaskInv, Task
<1>1. task'[w] = e /\ \A u \in Writer : u # w => task'[u] = task[u]
  BY <1>0
<1>2. HolderIn(task, k) = IF task[w].key = k THEN task[w] ELSE Idle
  <2>1. CASE task[w].key = k
    BY <2>1, HolderIs
  <2>2. CASE task[w].key # k
    BY <2>2, NoHolder
  <2> QED
    BY <2>1, <2>2
<1>3. HolderIn(task', k) = IF e.key = k THEN e ELSE Idle
  <2>1. CASE e.key = k
    <3>1. task'[w].key = k /\ \A u \in Writer : u # w => task'[u].key # k
      BY <1>1, <2>1
    <3> QED
      BY <1>1, <2>1, <3>1, HolderIs
  <2>2. CASE e.key # k
    <3>1. \A u \in Writer : task'[u].key # k
      BY <1>1, <2>2
    <3> QED
      BY <2>2, <3>1, NoHolder
  <2> QED
    BY <2>1, <2>2
<1> QED
  BY <1>2, <1>3

LEMMA OwnEnds ==
    ASSUME TaskInv, ShapeInv, NEW w \in Writer, task' = [task EXCEPT ![w] = Idle],
           NEW k \in Key, task[w].key = k, \A u \in Writer : u # w => task[u].key # k
    PROVE  HolderIn(task, k) = task[w] /\ HolderIn(task', k) = Idle
<1>1. PICK e : e = Idle
  OBVIOUS
<1>2. e.key # k /\ task' = [task EXCEPT ![w] = e]
  BY <1>1, WalAssumption DEF Idle, Key
<1>3. HolderIn(task, k) = (IF task[w].key = k THEN task[w] ELSE Idle)
      /\ HolderIn(task', k) = (IF e.key = k THEN e ELSE Idle)
  BY <1>2, OwnHolder
<1> QED
  BY <1>2, <1>3

-----------------------------------------------------------------------------
(* The invariant of the records and the files while the log is open.       *)

KeyInv(k) ==
    KeyOK(KeyIn(All, k), KeyIn(Kept, k), may[k], disk[k], file[k], HolderIn(task, k), durable_end,
          next_seq, poisoned)

\* The keys that no failed flush, and no removal that may come undone, is about;
\* the records that are not removed.
Sure == Key \ suspect
Queued == Recs(retiring.queue) \union Recs(closed) \union Of(active)

\* A checkpoint has retired every record of the key it is for.
Cleared(h, act, cls, X) ==
    h.op = "Big" =>
        /\ h.pc = "retire" => KeyIn(act, h.key) = {}
        /\ h.pc = "retiring" => KeyIn(act \union cls, h.key) = {}
        /\ h.pc = "big" => KeyIn(X, h.key) = {}

BigInv == \A w \in Writer : Cleared(task[w], Of(active), Recs(closed), Queued)

FilesTyped ==
    /\ DOMAIN file = Key /\ DOMAIN disk = Key /\ DOMAIN may = Key
    /\ poisoned \in BOOLEAN

DataInv == FilesTyped /\ (status = "up" => BigInv /\ \A k \in Sure : KeyInv(k))

\* KeyInv once the log's part of a step is done and the task's is not.
Midway(k) ==
    KeyOK(KeyIn(All', k), KeyIn(Kept', k), may[k], disk'[k], file'[k], HolderIn(task, k), durable_end',
          next_seq', poisoned')

\* The numbers only grow.
Grows ==
    /\ durable_end' \in Nat /\ durable_end' >= durable_end /\ next_seq' \in Nat /\ next_seq' >= next_seq
    /\ durable_end' <= next_seq'
    /\ poisoned' \in BOOLEAN /\ (poisoned => poisoned')

LEMMA SimilarSelf ==
    ASSUME NEW h
    PROVE  Similar(h, h)
BY DEF Similar

LEMMA MidwayGrows ==
    ASSUME TaskInv, FilesTyped, NEW k \in Key, KeyInv(k), Grows,
           All' = All, Kept' = Kept, file'[k] = file[k], disk'[k] = disk[k]
    PROVE  Midway(k)
<1>1. durable_end \in Nat /\ next_seq \in Nat /\ durable_end <= next_seq /\ poisoned \in BOOLEAN
  BY DEF TaskInv, FilesTyped
<1>2. PICK h : h = HolderIn(task, k)
  OBVIOUS
<1>3. KeyOK(KeyIn(All, k), KeyIn(Kept, k), may[k], disk[k], file[k], h, durable_end, next_seq, poisoned)
  BY <1>2 DEF KeyInv
<1>4. Similar(h, h)
  BY SimilarSelf
<1>5. KeyOK(KeyIn(All, k), KeyIn(Kept, k), may[k], disk[k], file[k], h, durable_end', next_seq', poisoned')
  BY <1>1, <1>3, <1>4, KeyFrame DEF Grows
<1> QED
  BY <1>2, <1>5 DEF Midway

LEMMA MidwaySame ==
    ASSUME NEW k, Midway(k), HolderIn(task', k) = HolderIn(task, k), may'[k] = may[k]
    PROVE  KeyInv(k)'
BY DEF Midway, KeyInv

\* The task's part: it goes on ...
LEMMA MidwayMoves ==
    ASSUME TaskInv, ShapeInv, Grows, NEW t \in Task, NEW e, task' = [task EXCEPT ![t] = e],
           e.key = task[t].key, t \in Writer /\ task[t].key \in Key => Similar(task[t], e),
           UNCHANGED may, NEW k \in Key, Midway(k)
    PROVE  KeyInv(k)'
<1>1. CASE t \in Writer => task[t].key # k
  <2>1. HolderIn(task', k) = HolderIn(task, k)
    BY <1>1, OtherHolder
  <2> QED
    BY <2>1, MidwaySame
<1>2. CASE t \in Writer /\ task[t].key = k
  <2>1. \A u \in Writer : u # t => task[u].key # k
    BY <1>2, OneHolder
  <2>2. HolderIn(task, k) = task[t] /\ HolderIn(task', k) = e
    BY <1>2, <2>1, OwnHolder
  <2>3. Similar(task[t], e)
    BY <1>2
  <2>4. KeyOK(KeyIn(All', k), KeyIn(Kept', k), may[k], disk'[k], file'[k], task[t], durable_end',
              next_seq', poisoned')
    BY <2>2 DEF Midway
  <2>5. /\ durable_end' \in Nat /\ next_seq' \in Nat /\ durable_end' <= next_seq' /\ poisoned' \in BOOLEAN
        /\ durable_end' <= durable_end' /\ next_seq' <= next_seq'
    BY DEF Grows
  <2>6. KeyOK(KeyIn(All', k), KeyIn(Kept', k), may[k], disk'[k], file'[k], e, durable_end',
              next_seq', poisoned')
    BY <2>3, <2>4, <2>5, KeyFrame
  <2> QED
    BY <2>2, <2>6 DEF KeyInv
<1> QED
  BY <1>1, <1>2

\* ... or is done: cleanly, ...
LEMMA MidwayClean ==
    ASSUME TaskInv, ShapeInv, Grows, NEW t \in Task, FailClean(t),
           t \in Writer =>
               \/ task[t].held = {} /\ (Inserting(task[t]) => task[t].pc = "file")
               \/ /\ task[t].held # {} /\ task[t].op = "Cancel" /\ task[t].pc # "append"
                  /\ task[t].seq < durable_end',
           NEW k \in Key, Midway(k)
    PROVE  KeyInv(k)'
<1>0. task' = [task EXCEPT ![t] = Idle] /\ may' = may /\ Idle.held = {} /\ Idle.key # k /\ ~ Inserting(Idle)
  BY WalAssumption DEF FailClean, Finish, Idle, Inserting, Key
<1>1. CASE t \in Writer => task[t].key # k
  <2>1. HolderIn(task', k) = HolderIn(task, k)
    BY <1>0, <1>1, OtherHolder
  <2> QED
    BY <1>0, <2>1, MidwaySame
<1>2. CASE t \in Writer /\ task[t].key = k
  <2>1. \A u \in Writer : u # t => task[u].key # k
    BY <1>2, OneHolder
  <2>2. HolderIn(task, k) = task[t] /\ HolderIn(task', k) = Idle
    BY <1>0, <1>2, <2>1, OwnEnds
  <2>3. PICK h : h = task[t]
    OBVIOUS
  <2>4. KeyOK(KeyIn(All', k), KeyIn(Kept', k), may[k], disk'[k], file'[k], h, durable_end',
              next_seq', poisoned')
    BY <2>2, <2>3 DEF Midway
  <2>5. durable_end' \in Nat /\ next_seq' \in Nat /\ durable_end' <= next_seq'
    BY DEF Grows
  <2>6. KeyOK(KeyIn(All', k), KeyIn(Kept', k), may[k], disk'[k], file'[k], Idle, durable_end',
              next_seq', poisoned')
    <3>1. CASE h.held = {} /\ (Inserting(h) => h.pc = "file")
      BY <1>0, <2>4, <3>1, KeyIdles
    <3>2. CASE h.held # {} /\ h.op = "Cancel" /\ h.pc # "append" /\ h.seq < durable_end'
      BY <1>0, <2>4, <2>5, <3>2, KeyCancelled
    <3> QED
      BY <1>2, <2>3, <3>1, <3>2
  <2> QED
    BY <1>0, <2>2, <2>6 DEF KeyInv
<1> QED
  BY <1>1, <1>2

LEMMA OutcomeTyped ==
    ASSUME NEW t \in Task, task[t] \in TaskState, NEW s, s \in Nat \union {None}
    PROVE  /\ OutcomeOf(t, s) \in OutcomeType /\ OutcomeOf(t, s).seq = s
           /\ OutcomeOf(t, s).val = task[t].val /\ OutcomeOf(t, s).op = task[t].op
BY DEF OutcomeOf, OutcomeType, TaskState

LEMMA OutcomeAdds ==
    ASSUME NEW m, DOMAIN m = Key, NEW t, NEW s, NEW k \in Key
    PROVE  Outcome(m, t, s)[k] = IF task[t].key = k THEN Append(m[k], OutcomeOf(t, s)) ELSE m[k]
BY DEF Outcome

\* ... without knowing, ...
LEMMA MidwayOpen ==
    ASSUME TaskInv, ShapeInv, FilesTyped, Grows, NEW t \in Task, FailUnknown(t),
           t \in Writer => IF task[t].held = {} THEN task[t].op = "Big" \/ (Inserting(task[t]) /\ task[t].pc # "file")
                           ELSE poisoned' /\ task[t].op # "Big",
           t \in Writer => task[t].op # "Tick", t = Ticker => task[t].op = "Tick",
           NEW k \in Key, Midway(k)
    PROVE  KeyInv(k)'
<1>0. task' = [task EXCEPT ![t] = Idle] /\ Idle.held = {} /\ Idle.key # k /\ ~ Inserting(Idle)
      /\ task[t] \in TaskState
  BY WalAssumption DEF FailUnknown, Finish, Idle, Inserting, Key, TaskInv
<1>1. may' = IF task[t].op \in {"Tick", "Big"} THEN may ELSE Outcome(may, t, None)
  BY DEF FailUnknown
<1>2. t \in Writer \/ t = Ticker
  BY DEF Task
<1>3. CASE t \in Writer => task[t].key # k
  <2>1. HolderIn(task', k) = HolderIn(task, k)
    BY <1>0, <1>3, OtherHolder
  <2>2. may'[k] = may[k]
    BY <1>1, <1>2, <1>3, OutcomeAdds DEF FilesTyped
  <2> QED
    BY <2>1, <2>2, MidwaySame
<1>4. CASE t \in Writer /\ task[t].key = k
  <2>1. \A u \in Writer : u # t => task[u].key # k
    BY <1>4, OneHolder
  <2>2. HolderIn(task, k) = task[t] /\ HolderIn(task', k) = Idle
    BY <1>0, <1>4, <2>1, OwnEnds
  <2>3. PICK h : h = task[t]
    OBVIOUS
  <2>4. KeyOK(KeyIn(All', k), KeyIn(Kept', k), may[k], disk'[k], file'[k], h, durable_end',
              next_seq', poisoned')
    BY <2>2, <2>3 DEF Midway
  <2>5. durable_end' \in Nat /\ next_seq' \in Nat /\ durable_end' <= next_seq'
    BY DEF Grows
  <2>6. KeyOK(KeyIn(All', k), KeyIn(Kept', k), may'[k], disk'[k], file'[k], Idle, durable_end',
              next_seq', poisoned')
    <3>1. CASE h.op = "Big"
      <4>1. h.held = {} /\ ~ Inserting(h) /\ may' = may
        BY <1>1, <1>4, <2>3, <3>1 DEF Inserting
      <4> QED
        BY <1>0, <2>4, <4>1, KeyIdles
    <3>2. CASE h.op # "Big"
      <4>1. PICK e : e = OutcomeOf(t, None)
        OBVIOUS
      <4>2. e \in OutcomeType /\ e.seq = None /\ e.val = h.val /\ e.op = h.op
        BY <1>0, <2>3, <4>1, OutcomeTyped
      <4>30. may' = Outcome(may, t, None)
        BY <1>1, <1>4, <2>3, <3>2
      <4>31. DOMAIN may = Key
        BY DEF FilesTyped
      <4>3. may'[k] = Append(may[k], e)
        <5>1. Outcome(may, t, None)[k] = IF task[t].key = k THEN Append(may[k], OutcomeOf(t, None)) ELSE may[k]
          BY <4>31, OutcomeAdds
        <5> QED
          BY <1>4, <4>1, <4>30, <5>1
      <4>4. (h.held # {} => poisoned') /\ (h.held = {} => Inserting(h) /\ h.pc # "file")
        BY <1>4, <2>3, <3>2
      <4>5. KeyOK(KeyIn(All', k), KeyIn(Kept', k), Append(may[k], e), disk'[k], file'[k], Idle, durable_end',
                  next_seq', poisoned')
        BY <1>0, <2>4, <2>5, <4>2, <4>4, KeyFailsOpen
      <4> QED
        BY <4>3, <4>5
    <3> QED
      BY <3>1, <3>2
  <2> QED
    BY <2>2, <2>6 DEF KeyInv
<1> QED
  BY <1>3, <1>4

\* ... or with the insert's record on the device.
LEMMA MidwayInserted ==
    ASSUME TaskInv, ShapeInv, FilesTyped, Grows, NEW t \in Writer, Succeed(t),
           task[t].op = "Insert", task[t].held # {}, task[t].pc \notin {"file", "idle"},
           task[t].seq < durable_end',
           NEW k \in Key, Midway(k)
    PROVE  KeyInv(k)'
<1>0. task' = [task EXCEPT ![t] = Idle] /\ Idle.held = {} /\ Idle.key # k /\ ~ Inserting(Idle)
      /\ task[t] \in TaskState /\ t \in Task /\ task[t].seq \in Nat /\ task[t].val \in Contents
  BY WalAssumption DEF Succeed, Finish, Idle, Inserting, Key, TaskInv, Task, TaskState
<1>1. PICK s \in Nat : s = task[t].seq + 1 /\ s <= durable_end'
  BY <1>0 DEF Grows
<1>2. may'[k] = Settle(Outcome(may, t, task[t].seq)[k], s)
  BY <1>1 DEF Succeed, Syncs, Settled
<1>3. durable_end' \in Nat /\ next_seq' \in Nat /\ durable_end' <= next_seq'
  BY DEF Grows
<1>4. CASE task[t].key # k
  <2>1. HolderIn(task', k) = HolderIn(task, k)
    BY <1>0, <1>4, OtherHolder
  <2>2. may'[k] = Settle(may[k], s)
    BY <1>2, <1>4, OutcomeAdds DEF FilesTyped
  <2>3. PICK h : h = HolderIn(task, k)
    OBVIOUS
  <2>4. KeyOK(KeyIn(All', k), KeyIn(Kept', k), may[k], disk'[k], file'[k], h, durable_end',
              next_seq', poisoned')
    BY <2>3 DEF Midway
  <2>5. KeyOK(KeyIn(All', k), KeyIn(Kept', k), Settle(may[k], s), disk'[k], file'[k], h, durable_end',
              next_seq', poisoned')
    BY <1>1, <1>3, <2>4, KeySettles
  <2> QED
    BY <2>1, <2>2, <2>3, <2>5 DEF KeyInv
<1>5. CASE task[t].key = k
  <2>1. \A u \in Writer : u # t => task[u].key # k
    BY <1>5, OneHolder
  <2>2. HolderIn(task, k) = task[t] /\ HolderIn(task', k) = Idle
    BY <1>0, <1>5, <2>1, OwnEnds
  <2>3. PICK h : h = task[t]
    OBVIOUS
  <2>4. KeyOK(KeyIn(All', k), KeyIn(Kept', k), may[k], disk'[k], file'[k], h, durable_end',
              next_seq', poisoned')
    BY <2>2, <2>3 DEF Midway
  <2>5. PICK e : e = OutcomeOf(t, h.seq)
    OBVIOUS
  <2>6. e \in OutcomeType /\ e.seq = h.seq /\ e.val = h.val /\ e.op = h.op
    BY <1>0, <2>3, <2>5, OutcomeTyped
  <2>7. may'[k] = Settle(Append(may[k], e), s)
    BY <1>2, <1>5, <2>3, <2>5, OutcomeAdds DEF FilesTyped
  <2>8. file'[k] = h.val /\ file'[k] \in disk'[k]
    BY <2>3, <2>4 DEF KeyOK, DataOK, Inserting
  <2>9. /\ h.held # {} /\ h.op \in {"Cas", "Write", "Delete", "Insert"} /\ h.pc # "idle"
        /\ (h.op \in {"Cas", "Insert"} => h.seq < durable_end') /\ h.val \in Contents
        /\ (h.op = "Insert" => h.pc # "file")
    BY <1>0, <2>3
  <2>10. disk'[k] \subseteq disk'[k] \union {h.val, None} /\ h.val \in disk'[k]
    BY <2>8
  <2>11. KeyOK(KeyIn(All', k), KeyIn(Kept', k), Append(may[k], e), disk'[k], h.val, Idle, durable_end',
               next_seq', poisoned')
    BY <1>0, <1>3, <2>4, <2>6, <2>9, <2>10, KeySucceeds
  <2>12. KeyOK(KeyIn(All', k), KeyIn(Kept', k), Settle(Append(may[k], e), s), disk'[k], h.val, Idle, durable_end',
               next_seq', poisoned')
    BY <1>1, <1>3, <2>11, KeySettles
  <2> QED
    BY <2>2, <2>7, <2>8, <2>12 DEF KeyInv
<1> QED
  BY <1>4, <1>5

\* A task that goes on keeps its stripe and its record.
LEMMA GotoSimilar ==
    ASSUME NEW h \in TaskState, NEW e, e.held = h.held, e.op = h.op, e.val = h.val, e.seq = h.seq \/ h.held = {},
           h.op # "Insert", h.op # "Cancel"
    PROVE  Similar(h, e)
BY DEF Similar, Inserting

\* What t waited for is durable.
LEMMA MidwayDurable ==
    ASSUME TaskInv, ShapeInv, FilesTyped, Grows, NEW t \in Task, Durable(t),
           task[t].pc \in {"wait", "lead", "rotate"},
           t \in Writer /\ task[t].held # {} => task[t].seq < durable_end',
           NEW k \in Key, Midway(k)
    PROVE  KeyInv(k)'
<1>0. /\ task \in [Task -> TaskState] /\ task[t] \in TaskState /\ task[t].op \in Operation
      /\ t \in Writer => Shape(task[t])
      /\ t \notin Writer => task[t].op = "Tick"
  BY DEF TaskInv, ShapeInv, Task
<1>1. CASE task[t].op \in {"Cas", "Write", "Delete", "Tick", "Big"}
  <2>1. PICK p : Goto(t, p) /\ may' = may
    BY <1>1 DEF Durable
  <2>2. PICK e : e = [task[t] EXCEPT !.pc = p]
    OBVIOUS
  <2>3. e.held = task[t].held /\ e.op = task[t].op /\ e.val = task[t].val /\ e.seq = task[t].seq /\ e.key = task[t].key
    BY <1>0, <2>2 DEF TaskState
  <2>4. Similar(task[t], e)
    BY <1>0, <1>1, <2>3, GotoSimilar
  <2>5. task' = [task EXCEPT ![t] = e]
    BY <2>1, <2>2 DEF Goto
  <2> QED
    BY <2>1, <2>3, <2>4, <2>5, MidwayMoves
<1>2. CASE task[t].op = "Insert"
  <2>1. Succeed(t) /\ t \in Writer /\ task[t].held # {} /\ task[t].pc \notin {"file", "idle"}
    BY <1>0, <1>2 DEF Durable, Shape
  <2> QED
    BY <1>2, <2>1, MidwayInserted
<1>3. CASE task[t].op = "Cancel"
  <2>1. FailClean(t) /\ t \in Writer /\ task[t].held # {} /\ task[t].pc # "append"
    BY <1>0, <1>3 DEF Durable, Shape
  <2> QED
    BY <1>3, <2>1, MidwayClean
<1> QED
  BY <1>0, <1>1, <1>2, <1>3 DEF Operation

LEMMA MidwayRetired ==
    ASSUME TaskInv, ShapeInv, FilesTyped, Grows, NEW t \in Task, NEW n, Retired(t, n),
           task[t].pc \in {"retire", "retiring"},
           NEW k \in Key, Midway(k)
    PROVE  KeyInv(k)'
<1>0. /\ task \in [Task -> TaskState] /\ task[t] \in TaskState
      /\ t \in Writer => Shape(task[t])
      /\ t \notin Writer => t = Ticker
  BY DEF TaskInv, ShapeInv, Task
<1>1. t \in Writer => task[t].op = "Big" /\ task[t].held = {} /\ ~ Inserting(task[t])
  BY <1>0 DEF Shape, Inserting
<1>2. CASE FailClean(t)
  BY <1>1, <1>2, MidwayClean
<1>3. ASSUME t # Ticker, NEW p, NEW s, task' = [task EXCEPT ![t] = [task[t] EXCEPT !.pc = p, !.seq = s]],
             UNCHANGED may
      PROVE  KeyInv(k)'
  <2>2. PICK e : e = [task[t] EXCEPT !.pc = p, !.seq = s]
    OBVIOUS
  <2>3. e.held = task[t].held /\ e.op = task[t].op /\ e.val = task[t].val /\ e.key = task[t].key
    BY <1>0, <2>2 DEF TaskState
  <2>4. Similar(task[t], e)
    BY <1>0, <1>1, <1>3, <2>3, GotoSimilar
  <2>5. task' = [task EXCEPT ![t] = e]
    BY <1>3, <2>2
  <2> QED
    BY <1>3, <2>3, <2>4, <2>5, MidwayMoves
<1>4. CASE Goto(t, "rotate") /\ UNCHANGED may /\ t # Ticker
  <2>1. [task[t] EXCEPT !.pc = "rotate"] = [task[t] EXCEPT !.pc = "rotate", !.seq = task[t].seq]
    BY <1>0 DEF TaskState
  <2>2. task' = [task EXCEPT ![t] = [task[t] EXCEPT !.pc = "rotate", !.seq = task[t].seq]]
    BY <1>4, <2>1 DEF Goto
  <2> QED
    BY <1>3, <1>4, <2>2
<1>5. CASE /\ task' = [task EXCEPT ![t] = [@ EXCEPT !.pc = "big", !.seq = durable_end - 1]]
           /\ UNCHANGED may /\ t # Ticker
  BY <1>3, <1>5
<1> QED
  BY <1>2, <1>4, <1>5 DEF Retired

\* The functions keep their domains.
LEMMA MayTyped ==
    ASSUME FilesTyped, NEW t, Durable(t) \/ Succeed(t) \/ FailClean(t) \/ FailUnknown(t),
           task[t].op \in Operation
    PROVE  DOMAIN may' = Key
<1>1. DOMAIN may = Key /\ \A s : DOMAIN Outcome(may, t, s) = Key
  BY DEF FilesTyped, Outcome
<1>2. \A m, s : DOMAIN Settled(m, s) = Key
  BY DEF Settled
<1>3. CASE Succeed(t)
  BY <1>1, <1>2, <1>3 DEF Succeed
<1>4. CASE FailClean(t)
  BY <1>1, <1>4 DEF FailClean
<1>5. CASE FailUnknown(t)
  BY <1>1, <1>5 DEF FailUnknown
<1>6. CASE Durable(t)
  BY <1>1, <1>3, <1>4, <1>6 DEF Durable, Operation
<1> QED
  BY <1>3, <1>4, <1>5, <1>6

-----------------------------------------------------------------------------
(* What happens to the records.                                            *)

LEMMA SameRecords ==
    ASSUME UNCHANGED <<active, closed, unlinked, retiring>>
    PROVE  All' = All /\ Kept' = Kept /\ Queued' = Queued
BY DEF All, Kept, Later, Queued

LEMMA RotateRecords ==
    ASSUME NEW S, LogTyped(S), active' = <<>>, UNCHANGED <<unlinked, retiring>>,
           closed' = IF active = <<>> THEN closed ELSE Append(closed, active)
    PROVE  /\ All' = All /\ Kept' = Kept /\ Queued' = Queued /\ Of(active') = {}
           /\ Recs(closed') = Recs(closed) \union Of(active)
<1>1. Recs(closed') = Recs(closed) \union Of(active)
  <2>1. CASE active = <<>>
    BY <2>1, EmptyRecords
  <2>2. CASE active # <<>>
    <3>1. PICK T : T = Seq(S)
      OBVIOUS
    <3>2. closed \in Seq(T)
      BY <3>1 DEF LogTyped
    <3>3. Recs(Append(closed, active)) = Recs(closed) \union Of(active)
      BY <3>2, RecsAppend
    <3> QED
      BY <2>2, <3>3
  <2> QED
    BY <2>1, <2>2
<1>2. Of(active') = {}
  BY EmptyRecords
<1> QED
  BY <1>1, <1>2 DEF All, Kept, Later, Queued

\* The checkpoint's part of the invariant.
LEMMA BigStep ==
    ASSUME TaskInv, ShapeInv, BigInv, NEW t \in Task, NEW e, task' = [task EXCEPT ![t] = e],
           t \in Writer => Cleared(e, Of(active'), Recs(closed'), Queued'),
           \A w \in Writer : w # t /\ task[w].op = "Big" =>
               /\ KeyIn(Of(active'), task[w].key) \subseteq Of(active)
               /\ task[w].pc = "retiring" => KeyIn(Of(active') \union Recs(closed'), task[w].key)
                                                 \subseteq Of(active) \union Recs(closed)
               /\ KeyIn(Queued', task[w].key) \subseteq Queued
    PROVE  BigInv'
<1>0. task \in [Task -> TaskState] /\ Writer \subseteq Task
  BY DEF TaskInv, Task
<1>1. task'[t] = e /\ \A u \in Task : u # t => task'[u] = task[u]
  BY <1>0
<1>2. ASSUME NEW w \in Writer PROVE Cleared(task'[w], Of(active'), Recs(closed'), Queued')
  <2>1. CASE w = t
    BY <1>1, <2>1
  <2>2. CASE w # t
    <3>1. task'[w] = task[w] /\ Cleared(task[w], Of(active), Recs(closed), Queued)
      BY <1>0, <1>1, <2>2 DEF BigInv
    <3>2. Cleared(task[w], Of(active'), Recs(closed'), Queued')
      BY <2>2, <3>1 DEF Cleared, KeyIn
    <3> QED
      BY <3>1, <3>2
  <2> QED
    BY <2>1, <2>2
<1> QED
  BY <1>2 DEF BigInv

\* The records stay as they are.
LEMMA BigQuiet ==
    ASSUME TaskInv, ShapeInv, BigInv, UNCHANGED <<active, closed, unlinked, retiring>>,
           NEW t \in Task, NEW e, task' = [task EXCEPT ![t] = e],
           t \in Writer => e.op # "Big" \/ e.pc \in {"rotate", "idle"}
    PROVE  BigInv'
<1>1. Queued' = Queued
  BY SameRecords
<1>2. t \in Writer => Cleared(e, Of(active'), Recs(closed'), Queued')
  BY DEF Cleared
<1>3. \A w \in Writer : w # t /\ task[w].op = "Big" =>
               /\ KeyIn(Of(active'), task[w].key) \subseteq Of(active)
               /\ task[w].pc = "retiring" => KeyIn(Of(active') \union Recs(closed'), task[w].key)
                                                 \subseteq Of(active) \union Recs(closed)
               /\ KeyIn(Queued', task[w].key) \subseteq Queued
  BY <1>1 DEF KeyIn
<1> QED
  BY <1>2, <1>3, BigStep

-----------------------------------------------------------------------------
(* The steps of the log that leave the records and the files alone.        *)

LEMMA QuietStep ==
    ASSUME TaskInv, TaskInv', DataInv, status = "up",
           UNCHANGED <<active, closed, unlinked, retiring, suspect, file, disk>>,
           durable_end' >= durable_end, next_seq' >= next_seq,
           poisoned' \in BOOLEAN, poisoned => poisoned'
    PROVE  Grows /\ FilesTyped /\ BigInv /\ \A k \in Sure : KeyInv(k) /\ Midway(k)
<1> USE DEF Sure
<1>1. Grows
  BY DEF Grows, TaskInv
<1>2. FilesTyped /\ BigInv /\ \A k \in Sure : KeyInv(k)
  BY DEF DataInv
<1>3. All' = All /\ Kept' = Kept
  BY SameRecords
<1>4. ASSUME NEW k \in Sure PROVE Midway(k)
  <2>1. file'[k] = file[k] /\ disk'[k] = disk[k] /\ KeyInv(k)
    BY <1>2
  <2> QED
    BY <1>1, <1>2, <1>3, <2>1, MidwayGrows
<1> QED
  BY <1>1, <1>2, <1>4

\* A step that ends an operation or moves it on.
LEMMA QuietData ==
    ASSUME TaskInv, ShapeInv, BigInv, FilesTyped, UNCHANGED <<active, closed, unlinked, retiring, suspect, file, disk>>,
           poisoned' \in BOOLEAN, DOMAIN may' = Key,
           NEW t \in Task, NEW e, task' = [task EXCEPT ![t] = e],
           t \in Writer => e.op # "Big" \/ e.pc \in {"rotate", "idle"},
           \A k \in Sure : KeyInv(k)'
    PROVE  DataInv'
<1>1. BigInv'
  BY BigQuiet
<1>2. FilesTyped'
  BY DEF FilesTyped
<1> QED
  BY <1>1, <1>2 DEF DataInv, Sure

LEMMA QuietEnds ==
    ASSUME TaskInv, ShapeInv, BigInv, FilesTyped, UNCHANGED <<active, closed, unlinked, retiring, suspect, file, disk>>,
           poisoned' \in BOOLEAN, NEW t \in Task, task[t].op \in Operation,
           Succeed(t) \/ FailClean(t) \/ FailUnknown(t),
           \A k \in Sure : KeyInv(k)'
    PROVE  DataInv'
<1>1. PICK e : e = Idle
  OBVIOUS
<1>2. task' = [task EXCEPT ![t] = e] /\ e.pc = "idle"
  BY <1>1 DEF Succeed, FailClean, FailUnknown, Finish, Idle
<1>3. DOMAIN may' = Key
  BY MayTyped
<1> QED
  BY <1>2, <1>3, QuietData

LEMMA DataWaits ==
    ASSUME TaskInv, TaskInv', RestartInv, ShapeInv, DataInv, NEW t \in Task, wait_durable(t)
    PROVE  DataInv'
<1> USE DEF logVars, retireVars, Sure
<1>0. /\ task[t].pc = "wait" /\ task[t] \in TaskState /\ task[t].op \in Operation
      /\ UNCHANGED <<active, closed, unlinked, retiring, suspect, file, disk, durable_end, next_seq, poisoned>>
      /\ t \in Writer => Shape(task[t]) /\ Timed(task[t], durable_end, next_seq)
      /\ t \notin Writer => t = Ticker /\ task[t].op = "Tick"
      /\ poisoned \in BOOLEAN /\ durable_end \in Nat /\ next_seq \in Nat
  BY DEF wait_durable, TaskInv, ShapeInv, Task, DataInv, FilesTyped
<1>1. status = "up"
  BY <1>0, AtWork
<1>2. /\ durable_end' >= durable_end /\ next_seq' >= next_seq /\ poisoned' \in BOOLEAN /\ (poisoned => poisoned')
  BY <1>0
<1>3. Grows /\ FilesTyped /\ BigInv /\ \A k \in Sure : Midway(k)
  BY <1>0, <1>1, <1>2, QuietStep
<1>4. t \in Writer => task[t].held # {} /\ task[t].op \notin {"Big", "Tick"}
  BY <1>0 DEF Shape
<1>5. CASE poisoned
  <2>1. FailUnknown(t)
    BY <1>0, <1>5 DEF wait_durable
  <2>2. t \in Writer => IF task[t].held = {} THEN task[t].op = "Big" \/ (Inserting(task[t]) /\ task[t].pc # "file")
                        ELSE poisoned' /\ task[t].op # "Big"
    BY <1>0, <1>4, <1>5
  <2>3. (t \in Writer => task[t].op # "Tick") /\ (t = Ticker => task[t].op = "Tick")
    BY <1>0, <1>4, WalAssumption
  <2>4. ASSUME NEW k \in Sure PROVE KeyInv(k)'
    BY <1>3, <2>1, <2>2, <2>3, MidwayOpen
  <2> QED
    BY <1>0, <1>2, <1>3, <2>1, <2>4, QuietEnds
<1>6. CASE ~ poisoned
  <2>1. Durable(t) /\ durable_end > task[t].seq
    BY <1>0, <1>6 DEF wait_durable
  <2>2. task[t].seq < durable_end'
    BY <1>0, <2>1 DEF TaskState
  <2>3. ASSUME NEW k \in Sure PROVE KeyInv(k)'
    BY <1>0, <1>3, <2>1, <2>2, MidwayDurable
  <2>4. CASE task[t].op \in {"Insert", "Cancel"}
    <3>1. Succeed(t) \/ FailClean(t)
      BY <2>1, <2>4 DEF Durable
    <3> QED
      BY <1>0, <1>2, <1>3, <2>3, <3>1, QuietEnds
  <2>5. CASE task[t].op \notin {"Insert", "Cancel"}
    <3>1. PICK p : Goto(t, p) /\ may' = may
      BY <1>0, <2>1, <2>5 DEF Durable, Operation
    <3>2. PICK e : e = [task[t] EXCEPT !.pc = p]
      OBVIOUS
    <3>3. task' = [task EXCEPT ![t] = e] /\ e.op = task[t].op
      BY <1>0, <3>1, <3>2 DEF Goto, TaskState
    <3>4. t \in Writer => e.op # "Big" \/ e.pc \in {"rotate", "idle"}
      BY <1>4, <3>3
    <3>5. DOMAIN may' = Key
      BY <1>3, <3>1 DEF FilesTyped
    <3> QED
      BY <1>0, <1>2, <1>3, <2>3, <3>3, <3>4, <3>5, QuietData
  <2> QED
    BY <2>4, <2>5
<1> QED
  BY <1>5, <1>6

LEMMA DataLeads ==
    ASSUME TaskInv, TaskInv', RestartInv, ShapeInv, DataInv, NEW t \in Task, lead_flush(t)
    PROVE  DataInv'
<1> USE DEF logVars, retireVars, Sure
<1>0. /\ task[t].pc = "wait" /\ task[t] \in TaskState /\ task[t].op \in Operation
      /\ UNCHANGED <<active, closed, unlinked, retiring, suspect, file, disk, durable_end, next_seq, poisoned, may>>
      /\ t \in Writer => Shape(task[t])
      /\ poisoned \in BOOLEAN /\ durable_end \in Nat /\ next_seq \in Nat
  BY DEF lead_flush, TaskInv, ShapeInv, Task, DataInv, FilesTyped
<1>1. status = "up"
  BY <1>0, AtWork
<1>2. /\ durable_end' >= durable_end /\ next_seq' >= next_seq /\ poisoned' \in BOOLEAN /\ (poisoned => poisoned')
  BY <1>0
<1>3. Grows /\ FilesTyped /\ BigInv /\ \A k \in Sure : Midway(k)
  BY <1>0, <1>1, <1>2, QuietStep
<1>4. t \in Writer => task[t].op # "Big"
  BY <1>0 DEF Shape
<1>5. PICK e : e = [task[t] EXCEPT !.pc = "lead", !.covered = next_seq]
  OBVIOUS
<1>6. /\ e.op = task[t].op /\ e.held = task[t].held /\ e.val = task[t].val /\ e.seq = task[t].seq
      /\ e.key = task[t].key /\ e.pc = "lead"
  BY <1>0, <1>5 DEF TaskState
<1>7. Similar(task[t], e)
  BY <1>0, <1>6 DEF Similar, Inserting
<1>8. task' = [task EXCEPT ![t] = e]
  BY <1>5 DEF lead_flush
<1>9. ASSUME NEW k \in Sure PROVE KeyInv(k)'
  BY <1>0, <1>3, <1>6, <1>7, <1>8, MidwayMoves
<1>10. DOMAIN may' = Key
  BY <1>0, <1>3 DEF FilesTyped
<1>11. t \in Writer => e.op # "Big" \/ e.pc \in {"rotate", "idle"}
  BY <1>4, <1>6
<1> QED
  BY <1>0, <1>2, <1>3, <1>8, <1>9, <1>10, <1>11, QuietData

LEMMA DataFlushed ==
    ASSUME TaskInv, TaskInv', RestartInv, ShapeInv, DataInv, NEW t \in Task, flush_returns(t)
    PROVE  DataInv'
<1> USE DEF logVars, retireVars, Sure
<1>0. /\ task[t].pc = "lead" /\ task[t] \in TaskState /\ task[t].op \in Operation
      /\ UNCHANGED <<active, closed, unlinked, retiring, suspect, file, disk, next_seq>>
      /\ t \in Writer => Shape(task[t]) /\ Timed(task[t], durable_end, next_seq)
      /\ t \notin Writer => t = Ticker /\ task[t].op = "Tick"
      /\ poisoned \in BOOLEAN /\ durable_end \in Nat /\ next_seq \in Nat
      /\ poisoned' = (poisoned \/ badblocks)
      /\ task[t].covered \in durable_end .. next_seq
  BY DEF flush_returns, TaskInv, ShapeInv, Task, DataInv, FilesTyped
<1>1. status = "up"
  BY <1>0, AtWork
<1>2. /\ durable_end' >= durable_end /\ next_seq' >= next_seq /\ poisoned' \in BOOLEAN /\ (poisoned => poisoned')
  <2>1. durable_end' \in {durable_end, task[t].covered}
    BY DEF flush_returns, Covered
  <2> QED
    BY <1>0, <2>1
<1>3. Grows /\ FilesTyped /\ BigInv /\ \A k \in Sure : Midway(k)
  BY <1>0, <1>1, <1>2, QuietStep
<1>4. t \in Writer => task[t].held # {} /\ task[t].op \notin {"Big", "Tick"}
  BY <1>0 DEF Shape
<1>5. CASE poisoned'
  <2>1. FailUnknown(t)
    BY <1>0, <1>5 DEF flush_returns
  <2>2. t \in Writer => IF task[t].held = {} THEN task[t].op = "Big" \/ (Inserting(task[t]) /\ task[t].pc # "file")
                        ELSE poisoned' /\ task[t].op # "Big"
    BY <1>0, <1>4, <1>5
  <2>3. (t \in Writer => task[t].op # "Tick") /\ (t = Ticker => task[t].op = "Tick")
    BY <1>0, <1>4, WalAssumption
  <2>4. ASSUME NEW k \in Sure PROVE KeyInv(k)'
    BY <1>3, <2>1, <2>2, <2>3, MidwayOpen
  <2> QED
    BY <1>0, <1>2, <1>3, <2>1, <2>4, QuietEnds
<1>6. CASE ~ poisoned'
  <2>1. Durable(t) /\ durable_end' = task[t].covered
    BY <1>0, <1>6 DEF flush_returns, Covered
  <2>2. t \in Writer => task[t].seq < durable_end'
    BY <1>0, <2>1 DEF TaskState, Timed
  <2>3. ASSUME NEW k \in Sure PROVE KeyInv(k)'
    BY <1>0, <1>3, <2>1, <2>2, MidwayDurable
  <2>4. CASE task[t].op \in {"Insert", "Cancel"}
    <3>1. Succeed(t) \/ FailClean(t)
      BY <2>1, <2>4 DEF Durable
    <3> QED
      BY <1>0, <1>2, <1>3, <2>3, <3>1, QuietEnds
  <2>5. CASE task[t].op \notin {"Insert", "Cancel"}
    <3>1. PICK p : Goto(t, p) /\ may' = may
      BY <1>0, <2>1, <2>5 DEF Durable, Operation
    <3>2. PICK e : e = [task[t] EXCEPT !.pc = p]
      OBVIOUS
    <3>3. task' = [task EXCEPT ![t] = e] /\ e.op = task[t].op
      BY <1>0, <3>1, <3>2 DEF Goto, TaskState
    <3>4. t \in Writer => e.op # "Big" \/ e.pc \in {"rotate", "idle"}
      BY <1>4, <3>3
    <3>5. DOMAIN may' = Key
      BY <1>3, <3>1 DEF FilesTyped
    <3> QED
      BY <1>0, <1>2, <1>3, <2>3, <3>3, <3>4, <3>5, QuietData
  <2> QED
    BY <2>4, <2>5
<1> QED
  BY <1>5, <1>6

LEMMA DataUnwinds ==
    ASSUME TaskInv, TaskInv', RestartInv, ShapeInv, DataInv, NEW t \in Task, flush_unwinds(t)
    PROVE  DataInv'
<1> USE DEF logVars, retireVars, Sure
<1>0. /\ task[t].pc = "lead" /\ task[t] \in TaskState /\ task[t].op \in Operation
      /\ UNCHANGED <<active, closed, unlinked, retiring, suspect, file, disk, next_seq, durable_end>>
      /\ t \in Writer => Shape(task[t])
      /\ t \notin Writer => t = Ticker /\ task[t].op = "Tick"
      /\ poisoned \in BOOLEAN /\ durable_end \in Nat /\ next_seq \in Nat
      /\ poisoned' = TRUE /\ FailUnknown(t)
  BY DEF flush_unwinds, TaskInv, ShapeInv, Task, DataInv, FilesTyped
<1>1. status = "up"
  BY <1>0, AtWork
<1>2. /\ durable_end' >= durable_end /\ next_seq' >= next_seq /\ poisoned' \in BOOLEAN /\ (poisoned => poisoned')
  BY <1>0
<1>3. Grows /\ FilesTyped /\ BigInv /\ \A k \in Sure : Midway(k)
  BY <1>0, <1>1, <1>2, QuietStep
<1>4. t \in Writer => task[t].held # {} /\ task[t].op \notin {"Big", "Tick"}
  BY <1>0 DEF Shape
<1>5. t \in Writer => IF task[t].held = {} THEN task[t].op = "Big" \/ (Inserting(task[t]) /\ task[t].pc # "file")
                      ELSE poisoned' /\ task[t].op # "Big"
  BY <1>0, <1>4
<1>6. (t \in Writer => task[t].op # "Tick") /\ (t = Ticker => task[t].op = "Tick")
  BY <1>0, <1>4, WalAssumption
<1>7. ASSUME NEW k \in Sure PROVE KeyInv(k)'
  BY <1>0, <1>3, <1>5, <1>6, MidwayOpen
<1> QED
  BY <1>0, <1>2, <1>3, <1>7, QuietEnds

LEMMA DataFailsWriting ==
    ASSUME TaskInv, TaskInv', RestartInv, ShapeInv, DataInv, NEW w \in Writer,
           write_fails(w) \/ append_fails(w) \/ open_segment_fails(w)
    PROVE  DataInv'
<1> USE DEF logVars, retireVars, Sure
<1>0. /\ task[w].pc \in {"file", "big", "append"} /\ task[w] \in TaskState /\ task[w].op \in Operation /\ w \in Task
      /\ task \in [Task -> TaskState]
      /\ UNCHANGED <<active, closed, unlinked, retiring, suspect, file, disk, next_seq, durable_end>>
      /\ Shape(task[w]) /\ w # Ticker
      /\ poisoned \in BOOLEAN /\ durable_end \in Nat /\ next_seq \in Nat
      /\ poisoned' \in BOOLEAN /\ (poisoned => poisoned')
  <2>1. task[w].pc \in {"file", "big", "append"} /\ w \in Task /\ w # Ticker
    BY WalAssumption DEF write_fails, append_fails, open_segment_fails, AppendFailed, Task
  <2>2. UNCHANGED <<active, closed, unlinked, retiring, suspect, file, disk, next_seq, durable_end>>
    BY DEF write_fails, append_fails, open_segment_fails, AppendFailed
  <2>3. poisoned' = poisoned \/ poisoned' = TRUE \/ (~ poisoned /\ poisoned' = (task[w].op = "Cancel"))
    BY DEF write_fails, append_fails, open_segment_fails
  <2>4. poisoned \in BOOLEAN
    BY DEF DataInv, FilesTyped
  <2>5. poisoned' \in BOOLEAN /\ (poisoned => poisoned')
    <3>1. CASE poisoned' = poisoned
      BY <2>4, <3>1
    <3>2. CASE poisoned' = TRUE \/ (~ poisoned /\ poisoned' = (task[w].op = "Cancel"))
      BY <2>4, <3>2
    <3> QED
      BY <2>3, <3>1, <3>2
  <2>6. task \in [Task -> TaskState] /\ task[w] \in TaskState /\ task[w].op \in Operation
    BY <2>1 DEF TaskInv
  <2>7. Shape(task[w]) /\ durable_end \in Nat /\ next_seq \in Nat
    BY DEF TaskInv, ShapeInv
  <2> QED
    BY <2>1, <2>2, <2>4, <2>5, <2>6, <2>7
<1>1. status = "up"
  BY <1>0, AtWork
<1>2. durable_end' >= durable_end /\ next_seq' >= next_seq
  BY <1>0
<1>3. Grows /\ FilesTyped /\ BigInv /\ \A k \in Sure : Midway(k)
  BY <1>0, <1>1, <1>2, QuietStep
<1>4. CASE \/ write_fails(w) /\ task[w].op \in {"Insert", "Big"}
           \/ AppendFailed(w) /\ task[w].op \notin {"Insert", "Cancel"}
  <2>1. FailClean(w)
    BY <1>4 DEF write_fails, AppendFailed
  <2>2. task[w].held = {} /\ (Inserting(task[w]) => task[w].pc = "file")
    BY <1>0, <1>4 DEF Shape, Inserting, write_fails, AppendFailed
  <2>3. ASSUME NEW k \in Sure PROVE KeyInv(k)'
    BY <1>0, <1>3, <2>1, <2>2, MidwayClean
  <2> QED
    BY <1>0, <1>3, <2>1, <2>3, QuietEnds
<1>5. CASE (append_fails(w) \/ open_segment_fails(w)) /\ task[w].op \in {"Insert", "Cancel"}
  <2>1. FailUnknown(w) /\ (task[w].op = "Cancel" => poisoned') /\ task[w].pc = "append"
    BY <1>0, <1>5 DEF append_fails, open_segment_fails, AppendFailed
  <2>2. w \in Writer => IF task[w].held = {} THEN task[w].op = "Big" \/ (Inserting(task[w]) /\ task[w].pc # "file")
                        ELSE poisoned' /\ task[w].op # "Big"
    BY <1>0, <1>5, <2>1 DEF Shape, Inserting
  <2>3. task[w].op # "Tick"
    BY <1>5
  <2>4. ASSUME NEW k \in Sure PROVE KeyInv(k)'
    BY <1>0, <1>3, <2>1, <2>2, <2>3, MidwayOpen
  <2> QED
    BY <1>0, <1>3, <2>1, <2>4, QuietEnds
<1>6. CASE write_fails(w) /\ task[w].op \notin {"Insert", "Big"}
  <2>0. PICK h : h = task[w]
    OBVIOUS
  <2>1. PICK e : e = [h EXCEPT !.pc = "append", !.op = "Cancel"]
    OBVIOUS
  <2>2. task' = [task EXCEPT ![w] = e] /\ may' = may /\ h.pc \in {"file", "big"} /\ poisoned' = poisoned
    BY <1>6, <2>0, <2>1 DEF write_fails
  <2>3. e.pc = "append" /\ e.op = "Cancel" /\ e.held = h.held /\ e.val = h.val /\ e.seq = h.seq /\ e.key = h.key
    BY <1>0, <2>0, <2>1 DEF TaskState
  <2>4. h.op \in {"Cas", "Write", "Delete"} /\ h.held # {} /\ h.key \in Key
    BY <1>0, <1>6, <2>0, <2>2 DEF Shape
  <2>5. ASSUME NEW k \in Sure PROVE KeyInv(k)'
    <3>1. CASE h.key # k
      <4>1. HolderIn(task', k) = HolderIn(task, k)
        BY <1>0, <2>0, <2>2, <2>3, <3>1, OtherHolder
      <4>2. Midway(k) /\ may'[k] = may[k]
        BY <1>3, <2>2
      <4> QED
        BY <4>1, <4>2, MidwaySame
    <3>2. CASE h.key = k
      <4>1. \A u \in Writer : u # w => task[u].key # k
        BY <2>0, <3>2, OneHolder
      <4>2. HolderIn(task, k) = h /\ HolderIn(task', k) = e
        BY <2>0, <2>2, <2>3, <3>2, <4>1, OwnHolder
      <4>3. KeyOK(KeyIn(All', k), KeyIn(Kept', k), may[k], disk'[k], file'[k], h, durable_end', next_seq', poisoned')
        BY <1>3, <4>2 DEF Midway
      <4>4. KeyOK(KeyIn(All', k), KeyIn(Kept', k), may[k], disk'[k], file'[k], e, durable_end', next_seq', poisoned')
        BY <2>3, <2>4, <4>3, KeyTurns
      <4> QED
        BY <2>2, <4>2, <4>4 DEF KeyInv
    <3> QED
      BY <3>1, <3>2
  <2>6. DOMAIN may' = Key
    BY <1>3, <2>2 DEF FilesTyped
  <2>7. w \in Writer => e.op # "Big" \/ e.pc \in {"rotate", "idle"}
    BY <2>3
  <2> QED
    BY <1>0, <1>3, <2>2, <2>5, <2>6, <2>7, QuietData
<1>7. CASE write_fails(w)
  BY <1>4, <1>6, <1>7
<1>8. CASE append_fails(w) \/ open_segment_fails(w)
  BY <1>4, <1>5, <1>8 DEF append_fails, open_segment_fails
<1> QED
  BY <1>7, <1>8

LEMMA DataTicks ==
    ASSUME TaskInv, TaskInv', RestartInv, ShapeInv, DataInv, tick
    PROVE  DataInv'
<1> USE DEF logVars, retireVars, Sure
<1>0. /\ UNCHANGED <<active, closed, unlinked, retiring, suspect, file, disk, durable_end, next_seq, poisoned, may>>
      /\ poisoned \in BOOLEAN /\ durable_end \in Nat /\ next_seq \in Nat /\ Ticker \in Task /\ Ticker \notin Writer
      /\ status = "up" /\ task[Ticker] = Idle
  BY WalAssumption DEF tick, TaskInv, Task, DataInv, FilesTyped
<1>2. /\ durable_end' >= durable_end /\ next_seq' >= next_seq /\ poisoned' \in BOOLEAN /\ (poisoned => poisoned')
  BY <1>0
<1>3. Grows /\ FilesTyped /\ BigInv /\ \A k \in Sure : Midway(k)
  BY <1>0, <1>2, QuietStep
<1>5. PICK p, c, e : e = [Idle EXCEPT !.op = "Tick", !.pc = p, !.covered = c] /\ task' = [task EXCEPT ![Ticker] = e]
  BY DEF tick
<1>6. e.key = task[Ticker].key
  BY <1>0, <1>5 DEF Idle
<1>9. ASSUME NEW k \in Sure PROVE KeyInv(k)'
  BY <1>0, <1>3, <1>5, <1>6, MidwayMoves
<1>10. DOMAIN may' = Key
  BY <1>0, <1>3 DEF FilesTyped
<1> QED
  BY <1>0, <1>2, <1>3, <1>5, <1>9, <1>10, QuietData

LEMMA DataBegins ==
    ASSUME TaskInv, TaskInv', RestartInv, ShapeInv, DataInv, NEW w \in Writer, begin_operation(w)
    PROVE  DataInv'
<1> USE DEF logVars, retireVars, Sure
<1>0. /\ UNCHANGED <<active, closed, unlinked, retiring, suspect, file, disk, durable_end, next_seq, poisoned, may>>
      /\ poisoned \in BOOLEAN /\ durable_end \in Nat /\ next_seq \in Nat /\ w \in Task /\ task \in [Task -> TaskState]
      /\ status = "up" /\ task[w] = Idle
  BY DEF begin_operation, TaskInv, Task, DataInv, FilesTyped
<1>2. /\ durable_end' >= durable_end /\ next_seq' >= next_seq /\ poisoned' \in BOOLEAN /\ (poisoned => poisoned')
  BY <1>0
<1>3. Grows /\ FilesTyped /\ BigInv /\ \A k \in Sure : Midway(k)
  BY <1>0, <1>2, QuietStep
<1>1. PICK x \in Key, op \in {"Cas", "Write", "Delete", "Insert", "Big"} :
          \E v : ~ Held(x) /\ Begin(w, op, x, v) /\ (op = "Insert" => file[x] = None)
  BY DEF begin_operation
<1>4. PICK v : ~ Held(x) /\ Begin(w, op, x, v) /\ (op = "Insert" => file[x] = None)
  BY <1>1
<1>5. PICK p : p = CASE op = "Insert" -> "file" [] op = "Big" -> "rotate" [] OTHER -> "append"
  OBVIOUS
<1>6. PICK e : e = [Idle EXCEPT !.op = op, !.key = x, !.val = v, !.pc = p] /\ task' = [task EXCEPT ![w] = e]
  BY <1>4, <1>5 DEF Begin
<1>7. e.op = op /\ e.key = x /\ e.val = v /\ e.pc = p /\ e.held = {}
  BY <1>6 DEF Idle
<1>8. p = IF op = "Insert" THEN "file" ELSE IF op = "Big" THEN "rotate" ELSE "append"
  BY <1>5
<1>9. ASSUME NEW k \in Sure PROVE KeyInv(k)'
  <2>1. Midway(k) /\ may'[k] = may[k] /\ file'[k] = file[k] /\ Idle.key # k
    BY <1>0, <1>3, IdleShape, WalAssumption DEF Key
  <2>2. CASE k # x
    <3>1. HolderIn(task', k) = HolderIn(task, k)
      BY <1>0, <1>6, <1>7, <2>1, <2>2, OtherHolder
    <3> QED
      BY <2>1, <3>1, MidwaySame
  <2>3. CASE k = x
    <3>1. \A u \in Writer : task[u].key # k
      BY <1>4, <2>3 DEF Held
    <3>2. HolderIn(task, k) = Idle /\ HolderIn(task', k) = e
      <4>1. e.key = k /\ task[w].key # k /\ \A u \in Writer : u # w => task[u].key # k
        BY <1>7, <2>3, <3>1
      <4>2. /\ HolderIn(task, k) = (IF task[w].key = k THEN task[w] ELSE Idle)
            /\ HolderIn(task', k) = (IF e.key = k THEN e ELSE Idle)
        <5>1. TaskInv /\ ShapeInv /\ task' = [task EXCEPT ![w] = e]
          BY <1>6
        <5> QED
          BY <4>1, <5>1, OwnHolder, ZenonT(60)
      <4> QED
        BY <4>1, <4>2
    <3>3. PICK i : i = Idle
      OBVIOUS
    <3>4. i.held = {} /\ ~ Inserting(i)
      BY <3>3 DEF Idle, Inserting
    <3>5. KeyOK(KeyIn(All', k), KeyIn(Kept', k), may[k], disk'[k], file'[k], i, durable_end', next_seq', poisoned')
      BY <2>1, <3>2, <3>3 DEF Midway
    <3>6. Inserting(e) => e.pc = "file" /\ file'[k] = None
      BY <1>4, <1>7, <1>8, <2>1, <2>3 DEF Inserting
    <3>7. KeyOK(KeyIn(All', k), KeyIn(Kept', k), may[k], disk'[k], file'[k], e, durable_end', next_seq', poisoned')
      BY <1>7, <3>4, <3>5, <3>6, KeyIdles
    <3> QED
      BY <2>1, <3>2, <3>7 DEF KeyInv
  <2> QED
    BY <2>2, <2>3
<1>10. DOMAIN may' = Key
  BY <1>0, <1>3 DEF FilesTyped
<1>11. w \in Writer => e.op # "Big" \/ e.pc \in {"rotate", "idle"}
  BY <1>7, <1>8
<1> QED
  BY <1>0, <1>2, <1>3, <1>6, <1>9, <1>10, <1>11, QuietData

LEMMA DataIdle ==
    ASSUME TaskInv, TaskInv', DataInv, status = "up",
           UNCHANGED <<active, closed, unlinked, retiring, suspect, file, disk, durable_end, next_seq, poisoned, may, task>>
    PROVE  DataInv'
<1> USE DEF Sure
<1>0. FilesTyped /\ BigInv /\ \A k \in Sure : KeyInv(k)
  BY DEF DataInv
<1>1. All' = All /\ Kept' = Kept /\ Queued' = Queued
  BY SameRecords
<1>2. FilesTyped'
  BY <1>0 DEF FilesTyped
<1>3. BigInv'
  BY <1>0, <1>1 DEF BigInv
<1>4. ASSUME NEW k \in Sure PROVE KeyInv(k)'
  BY <1>0, <1>1 DEF KeyInv
<1> QED
  BY <1>2, <1>3, <1>4 DEF DataInv

-----------------------------------------------------------------------------
(* The active segment is closed.                                           *)

LEMMA DataRotates ==
    ASSUME TaskInv, TaskInv', RestartInv, ShapeInv, DataInv, NEW S, LogTyped(S), NEW t \in Task, rotate(t)
    PROVE  DataInv'
<1> USE DEF logVars, retireVars, Sure
<1>0. /\ task[t].pc = "rotate" /\ task[t] \in TaskState /\ task[t].op \in Operation
      /\ UNCHANGED <<unlinked, retiring, suspect, file, disk, next_seq>>
      /\ t \in Writer => Shape(task[t]) /\ Timed(task[t], durable_end, next_seq)
      /\ t \notin Writer => t = Ticker /\ task[t].op = "Tick"
      /\ poisoned \in BOOLEAN /\ durable_end \in Nat /\ next_seq \in Nat /\ durable_end <= next_seq
  BY DEF rotate, TaskInv, ShapeInv, Task, DataInv, FilesTyped
<1>1. status = "up"
  BY <1>0, AtWork
<1>2. FilesTyped /\ BigInv /\ \A k \in Sure : KeyInv(k)
  BY <1>1 DEF DataInv
<1>3. CASE poisoned \/ (badblocks /\ durable_end < next_seq)
  <2>1. FailUnknown(t) /\ poisoned' = TRUE /\ UNCHANGED <<active, closed, durable_end>>
    BY <1>3 DEF rotate
  <2>2. /\ durable_end' >= durable_end /\ next_seq' >= next_seq /\ poisoned' \in BOOLEAN /\ (poisoned => poisoned')
    BY <1>0, <2>1
  <2>3. Grows /\ \A k \in Sure : Midway(k)
    BY <1>0, <1>1, <2>1, <2>2, QuietStep
  <2>4. t \in Writer => IF task[t].held = {} THEN task[t].op = "Big" \/ (Inserting(task[t]) /\ task[t].pc # "file")
                        ELSE poisoned' /\ task[t].op # "Big"
    BY <1>0, <2>1 DEF Shape
  <2>5. (t \in Writer => task[t].op # "Tick") /\ (t = Ticker => task[t].op = "Tick")
    BY <1>0, WalAssumption DEF Shape
  <2>6. ASSUME NEW k \in Sure PROVE KeyInv(k)'
    BY <1>2, <2>1, <2>3, <2>4, <2>5, MidwayOpen
  <2> QED
    BY <1>0, <1>2, <2>1, <2>2, <2>6, QuietEnds
<1>4. CASE ~ (poisoned \/ (badblocks /\ durable_end < next_seq))
  <2>1. /\ Durable(t) /\ active' = <<>> /\ closed' = (IF active = <<>> THEN closed ELSE Append(closed, active))
        /\ durable_end' = next_seq /\ poisoned' = poisoned
    BY <1>4 DEF rotate, FlushedByRotation
  <2>2. All' = All /\ Kept' = Kept /\ Queued' = Queued /\ Of(active') = {} /\ Recs(closed') = Recs(closed) \union Of(active)
    BY <1>0, <2>1, RotateRecords
  <2>3. Grows
    BY <1>0, <2>1 DEF Grows
  <2>4. ASSUME NEW k \in Sure PROVE Midway(k)
    <3>1. file'[k] = file[k] /\ disk'[k] = disk[k] /\ KeyInv(k)
      BY <1>0, <1>2
    <3> QED
      BY <1>2, <2>2, <2>3, <3>1, MidwayGrows
  <2>5. t \in Writer /\ task[t].held # {} => task[t].seq < durable_end'
    BY <1>0, <2>1 DEF Timed
  <2>6. ASSUME NEW k \in Sure PROVE KeyInv(k)'
    BY <1>0, <1>2, <2>1, <2>3, <2>4, <2>5, MidwayDurable
  <2>7. PICK e : task' = [task EXCEPT ![t] = e] /\ (e.op = "Big" => e.pc = "retire" \/ e.pc = "idle")
    <3>1. CASE task[t].op \in {"Insert", "Cancel"}
      <4>1. task' = [task EXCEPT ![t] = Idle] /\ Idle.pc = "idle"
        BY <2>1, <3>1 DEF Durable, Succeed, FailClean, Finish, Idle
      <4> QED
        BY <4>1
    <3>2. CASE task[t].op \in {"Cas", "Write", "Delete"}
      <4>1. task' = [task EXCEPT ![t].pc = "file"]
        BY <2>1, <3>2 DEF Durable, Goto
      <4>2. PICK e : e = [task[t] EXCEPT !.pc = "file"]
        OBVIOUS
      <4>3. e.op # "Big"
        BY <1>0, <3>2, <4>2 DEF TaskState
      <4> QED
        BY <4>1, <4>2, <4>3
    <3>3. CASE task[t].op \in {"Tick", "Big"}
      <4>1. task' = [task EXCEPT ![t].pc = "retire"]
        BY <2>1, <3>3 DEF Durable, Goto
      <4>2. PICK e : e = [task[t] EXCEPT !.pc = "retire"]
        OBVIOUS
      <4>3. e.pc = "retire"
        BY <1>0, <3>3, <4>2 DEF TaskState
      <4> QED
        BY <4>1, <4>2, <4>3
    <3> QED
      BY <1>0, <3>1, <3>2, <3>3 DEF Operation
  <2>8. BigInv'
    <3>1. Cleared(e, Of(active'), Recs(closed'), Queued')
      BY <2>2, <2>7 DEF Cleared, KeyIn
    <3>2. \A w \in Writer : w # t /\ task[w].op = "Big" =>
               /\ KeyIn(Of(active'), task[w].key) \subseteq Of(active)
               /\ task[w].pc = "retiring" => KeyIn(Of(active') \union Recs(closed'), task[w].key)
                                                 \subseteq Of(active) \union Recs(closed)
               /\ KeyIn(Queued', task[w].key) \subseteq Queued
      BY <2>2 DEF KeyIn
    <3> QED
      BY <1>2, <2>7, <3>1, <3>2, BigStep
  <2>9. DOMAIN may' = Key
    BY <1>0, <1>2, <2>1, MayTyped
  <2>10. FilesTyped'
    BY <1>0, <1>2, <2>1, <2>9 DEF FilesTyped
  <2> QED
    BY <1>0, <2>6, <2>8, <2>10 DEF DataInv
<1> QED
  BY <1>3, <1>4

-----------------------------------------------------------------------------
(* The file is written.                                                    *)

\* What an operation that succeeds adds.
LEMMA SucceedAdds ==
    ASSUME FilesTyped, NEW w \in Writer, Succeed(w), NEW k \in Key
    PROVE  LET m == IF task[w].key = k THEN Append(may[k], OutcomeOf(w, task[w].seq)) ELSE may[k] IN
           may'[k] = IF Syncs(task[w].op) \/ task[w].op = "Big" THEN Settle(m, task[w].seq + 1) ELSE m
<1>0. DOMAIN may = Key
  BY DEF FilesTyped
<1>1. PICK a : a = IF task[w].key = k THEN Append(may[k], OutcomeOf(w, task[w].seq)) ELSE may[k]
  OBVIOUS
<1>2. Outcome(may, w, task[w].seq)[k] = a
  BY <1>0, <1>1, OutcomeAdds
<1>3. CASE Syncs(task[w].op) \/ task[w].op = "Big"
  <2>1. may' = Settled(Outcome(may, w, task[w].seq), task[w].seq + 1)
    BY <1>3 DEF Succeed
  <2>2. may'[k] = Settle(a, task[w].seq + 1)
    BY <1>2, <2>1 DEF Settled
  <2> QED
    BY <1>1, <1>3, <2>2
<1>4. CASE ~ (Syncs(task[w].op) \/ task[w].op = "Big")
  <2>1. may' = Outcome(may, w, task[w].seq)
    BY <1>4 DEF Succeed
  <2> QED
    BY <1>1, <1>2, <1>4, <2>1
<1> QED
  BY <1>3, <1>4

\* The other keys: their outcomes settle at most.
LEMMA OtherSettles ==
    ASSUME TaskInv, ShapeInv, FilesTyped, NEW w \in Writer, Succeed(w), task[w] \in TaskState,
           Syncs(task[w].op) \/ task[w].op = "Big" => task[w].seq < durable_end,
           NEW k \in Key, task[w].key # k, KeyInv(k),
           UNCHANGED <<active, closed, unlinked, retiring, durable_end, next_seq, poisoned>>,
           file'[k] = file[k], disk'[k] = disk[k]
    PROVE  KeyInv(k)'
<1>0. durable_end \in Nat /\ next_seq \in Nat /\ durable_end <= next_seq /\ w \in Task /\ task[w].seq \in Nat
  BY DEF TaskInv, Task, TaskState
<1>1. PICK s, e, a : s = task[w].seq + 1 /\ e = OutcomeOf(w, task[w].seq) /\ a = may[k]
  OBVIOUS
<1>2. may'[k] = IF Syncs(task[w].op) \/ task[w].op = "Big" THEN Settle(a, s) ELSE a
  BY <1>1, SucceedAdds
<1>3. All' = All /\ Kept' = Kept
  BY SameRecords
<1>4. HolderIn(task', k) = HolderIn(task, k)
  <2>1. PICK i : i = Idle
    OBVIOUS
  <2>2. task' = [task EXCEPT ![w] = i] /\ i.key # k
    BY <2>1, IdleShape, WalAssumption DEF Succeed, Finish, Key
  <2> QED
    BY <1>0, <2>2, OtherHolder
<1>5. PICK h : h = HolderIn(task, k)
  OBVIOUS
<1>6. KeyOK(KeyIn(All, k), KeyIn(Kept, k), may[k], disk[k], file[k], h, durable_end, next_seq, poisoned)
  BY <1>5 DEF KeyInv
<1>7. KeyOK(KeyIn(All, k), KeyIn(Kept, k), may'[k], disk[k], file[k], h, durable_end, next_seq, poisoned)
  <2>1. CASE Syncs(task[w].op) \/ task[w].op = "Big"
    <3>1. s \in Nat /\ s <= durable_end
      BY <1>0, <1>1, <2>1
    <3>2. KeyOK(KeyIn(All, k), KeyIn(Kept, k), Settle(may[k], s), disk[k], file[k], h, durable_end, next_seq, poisoned)
      BY <1>0, <1>6, <3>1, KeySettles
    <3> QED
      BY <1>1, <1>2, <2>1, <3>2
  <2>2. CASE ~ (Syncs(task[w].op) \/ task[w].op = "Big")
    BY <1>1, <1>2, <1>6, <2>2
  <2> QED
    BY <2>1, <2>2
<1> QED
  BY <1>3, <1>4, <1>5, <1>7 DEF KeyInv

LEMMA DataWrites ==
    ASSUME TaskInv, TaskInv', RestartInv, ShapeInv, DataInv, NEW w \in Writer, write_file(w)
    PROVE  DataInv'
<1> USE DEF logVars, retireVars, Sure
<1>0. PICK h : h = task[w]
  OBVIOUS
<1>1. /\ UNCHANGED <<active, closed, unlinked, retiring, suspect, durable_end, next_seq, poisoned>>
      /\ poisoned \in BOOLEAN /\ durable_end \in Nat /\ next_seq \in Nat /\ durable_end <= next_seq
      /\ w \in Task /\ task \in [Task -> TaskState] /\ h \in TaskState
      /\ h.pc = "file" /\ Shape(h) /\ Timed(h, durable_end, next_seq) /\ h.op \in Operation
  BY <1>0 DEF write_file, TaskInv, ShapeInv, Task, DataInv, FilesTyped
<1>2. status = "up"
  BY <1>0, <1>1, AtWork
<1>3. FilesTyped /\ BigInv /\ \A k \in Sure : KeyInv(k)
  BY <1>2 DEF DataInv
<1>4. h.key \in Key /\ h.op \in {"Cas", "Write", "Delete", "Insert"} /\ h.val \in Contents
  BY <1>1 DEF Shape, TaskState
<1>5. /\ DOMAIN file' = Key /\ DOMAIN disk' = Key
      /\ \A k \in Key : k # h.key => file'[k] = file[k] /\ disk'[k] = disk[k]
      /\ file'[h.key] = h.val /\ disk'[h.key] = disk[h.key] \union {h.val, None}
  BY <1>0, <1>3, <1>4 DEF write_file, FilesTyped
<1>6. All' = All /\ Kept' = Kept
  BY <1>1, SameRecords
<1>7. PICK k \in Key : k = h.key
  BY <1>4
<1>8. \A u \in Writer : u # w => task[u].key # k
  BY <1>0, <1>7, OneHolder
<1>9. HolderIn(task, k) = h
  BY <1>0, <1>7, <1>8, HolderIs
<1>10. k \in Sure => KeyOK(KeyIn(All, k), KeyIn(Kept, k), may[k], disk[k], file[k], h, durable_end, next_seq, poisoned)
  BY <1>3, <1>9 DEF KeyInv
<1>11. CASE h.op = "Insert"
  <2>1. PICK e : e = [h EXCEPT !.pc = "append"]
    OBVIOUS
  <2>2. task' = [task EXCEPT ![w] = e] /\ may' = may
    BY <1>0, <1>11, <2>1 DEF write_file, Goto
  <2>3. e.pc = "append" /\ e.op = "Insert" /\ e.held = h.held /\ e.val = h.val /\ e.key = h.key
    BY <1>1, <1>11, <2>1 DEF TaskState
  <2>4. h.held = {} /\ Inserting(h) /\ Inserting(e) /\ h.pc = "file"
    BY <1>1, <1>11, <2>3 DEF Shape, Inserting
  <2>5. k \in Sure => KeyOK(KeyIn(All, k), KeyIn(Kept, k), may[k], disk[k] \union {h.val, None}, h.val, e, durable_end, next_seq, poisoned)
    BY <1>4, <1>10, <2>3, <2>4, KeyInserts
  <2>6. HolderIn(task', k) = e
    <3>1. HolderIn(task', k) = IF e.key = k THEN e ELSE Idle
      <4>1. task' = [task EXCEPT ![w] = e] /\ \A u \in Writer : u # w => task[u].key # k
        BY <1>8, <2>2
      <4> QED
        BY <4>1, OwnHolder, ZenonT(60)
    <3> QED
      BY <1>7, <2>3, <3>1
  <2>7. k \in Sure => KeyInv(k)'
    BY <1>1, <1>5, <1>6, <1>7, <2>2, <2>5, <2>6 DEF KeyInv
  <2>8. ASSUME NEW x \in Sure, x # k PROVE KeyInv(x)'
    <3>1. HolderIn(task', x) = HolderIn(task, x)
      <4>1. e.key # x /\ task[w].key # x
        BY <1>0, <1>7, <2>3, <2>8
      <4> QED
        BY <1>1, <2>2, <4>1, OtherHolder
    <3>2. KeyInv(x) /\ file'[x] = file[x] /\ disk'[x] = disk[x] /\ may'[x] = may[x]
      BY <1>3, <1>5, <1>7, <2>2, <2>8
    <3> QED
      BY <1>1, <1>6, <3>1, <3>2 DEF KeyInv
  <2>9. BigInv'
    BY <1>1, <1>3, <2>2, <2>3, BigQuiet
  <2>10. FilesTyped'
    BY <1>1, <1>3, <1>5, <2>2 DEF FilesTyped
  <2> QED
    BY <1>1, <2>7, <2>8, <2>9, <2>10 DEF DataInv
<1>12. CASE h.op # "Insert"
  <2>1. Succeed(w) /\ task' = [task EXCEPT ![w] = Idle]
    BY <1>0, <1>12 DEF write_file, Succeed, Finish
  <2>2. PICK i : i = Idle
    OBVIOUS
  <2>3. i.held = {} /\ ~ Inserting(i) /\ i.pc = "idle"
    BY <2>2 DEF Idle, Inserting
  <2>4. PICK s, e, a : s = h.seq + 1 /\ e = OutcomeOf(w, h.seq) /\ a = Append(may[k], e)
    OBVIOUS
  <2>5. h.seq \in Nat /\ s \in Nat /\ (Syncs(h.op) => h.seq < durable_end /\ s <= durable_end)
    BY <1>1, <1>4, <1>12, <2>4 DEF TaskState, Timed, Syncs
  <2>6. e \in OutcomeType /\ e.seq = h.seq /\ e.val = h.val /\ e.op = h.op
    BY <1>0, <1>1, <2>4, <2>5, OutcomeTyped
  <2>7. may'[k] = IF Syncs(h.op) \/ h.op = "Big" THEN Settle(a, s) ELSE a
    <3>1. /\ s = task[w].seq + 1 /\ e = OutcomeOf(w, task[w].seq)
          /\ a = IF task[w].key = k THEN Append(may[k], e) ELSE may[k]
      BY <1>0, <1>7, <2>4
    <3>2. may'[k] = IF Syncs(task[w].op) \/ task[w].op = "Big" THEN Settle(a, s) ELSE a
      <4>1. LET m == IF task[w].key = k THEN Append(may[k], OutcomeOf(w, task[w].seq)) ELSE may[k] IN
            may'[k] = IF Syncs(task[w].op) \/ task[w].op = "Big" THEN Settle(m, task[w].seq + 1) ELSE m
        BY <1>3, <2>1, SucceedAdds
      <4> QED
        BY <3>1, <4>1
    <3> QED
      BY <1>0, <3>2
  <2>8. h.held # {} /\ h.pc # "idle" /\ (h.op \in {"Cas", "Insert"} => h.seq < durable_end)
    BY <1>1, <1>4, <1>12, <2>5 DEF Shape, Syncs
  <2>9. ASSUME k \in Sure
        PROVE  KeyOK(KeyIn(All, k), KeyIn(Kept, k), a, disk[k] \union {h.val, None}, h.val, i, durable_end, next_seq, poisoned)
    <3>1. PICK B : B = disk[k] \union {h.val, None}
      OBVIOUS
    <3>2. h.val \in B /\ B \subseteq disk[k] \union {h.val, None}
      BY <3>1
    <3>3. KeyOK(KeyIn(All, k), KeyIn(Kept, k), Append(may[k], e), B, h.val, i, durable_end, next_seq, poisoned)
      BY <1>1, <1>4, <1>10, <1>12, <2>3, <2>6, <2>8, <2>9, <3>2, KeySucceeds
    <3> QED
      BY <2>4, <3>1, <3>3
  <2>10. ASSUME k \in Sure
         PROVE  KeyOK(KeyIn(All, k), KeyIn(Kept, k), may'[k], disk[k] \union {h.val, None}, h.val, i, durable_end, next_seq, poisoned)
    <3>1. CASE Syncs(h.op)
      <4>1. KeyOK(KeyIn(All, k), KeyIn(Kept, k), Settle(a, s), disk[k] \union {h.val, None}, h.val, i, durable_end, next_seq, poisoned)
        BY <1>1, <2>5, <2>9, <2>10, <3>1, KeySettles
      <4> QED
        BY <2>7, <3>1, <4>1
    <3>2. CASE ~ Syncs(h.op)
      BY <1>4, <2>7, <2>9, <2>10, <3>2
    <3> QED
      BY <3>1, <3>2
  <2>11. HolderIn(task', k) = i
    BY <1>0, <1>7, <1>8, <2>1, <2>2, OwnEnds
  <2>12. k \in Sure => KeyInv(k)'
    BY <1>1, <1>5, <1>6, <1>7, <2>10, <2>11 DEF KeyInv
  <2>13. ASSUME NEW x \in Sure, x # k PROVE KeyInv(x)'
    <3>1. /\ file'[x] = file[x] /\ disk'[x] = disk[x] /\ KeyInv(x) /\ task[w].key # x /\ task[w] \in TaskState
          /\ Syncs(task[w].op) \/ task[w].op = "Big" => task[w].seq < durable_end
      BY <1>0, <1>1, <1>3, <1>4, <1>5, <1>7, <2>5, <2>13
    <3> QED
      BY <1>1, <1>3, <2>1, <3>1, OtherSettles
  <2>14. BigInv'
    BY <1>1, <1>3, <2>1, <2>2, <2>3, BigQuiet
  <2>15. DOMAIN may' = Key
    BY <1>0, <1>1, <1>3, <2>1, MayTyped
  <2>16. FilesTyped'
    BY <1>1, <1>3, <1>5, <2>15 DEF FilesTyped
  <2> QED
    BY <1>1, <2>12, <2>13, <2>14, <2>16 DEF DataInv
<1> QED
  BY <1>11, <1>12

LEMMA DataBig ==
    ASSUME TaskInv, TaskInv', RestartInv, ShapeInv, DataInv, NEW S, LogTyped(S), NEW w \in Writer, big_write(w)
    PROVE  DataInv'
<1> USE DEF logVars, retireVars, Sure
<1>0. PICK h : h = task[w]
  OBVIOUS
<1>1. /\ UNCHANGED <<active, closed, unlinked, retiring, durable_end, next_seq, poisoned>>
      /\ poisoned \in BOOLEAN /\ durable_end \in Nat /\ next_seq \in Nat /\ durable_end <= next_seq
      /\ w \in Task /\ task \in [Task -> TaskState] /\ h \in TaskState
      /\ h.pc = "big" /\ Shape(h) /\ Timed(h, durable_end, next_seq) /\ h.op \in Operation
  BY <1>0 DEF big_write, TaskInv, ShapeInv, Task, DataInv, FilesTyped
<1>100. Sure' = Sure \ {x \in {h.key} : Covers(unlinked, x)}
  BY <1>0 DEF big_write
<1>2. status = "up"
  BY <1>0, <1>1, AtWork
<1>3. FilesTyped /\ BigInv /\ \A k \in Sure : KeyInv(k)
  BY <1>2 DEF DataInv
<1>4. h.key \in Key /\ h.op = "Big" /\ h.val \in Contents /\ h.seq \in Nat /\ h.seq < durable_end
  BY <1>1 DEF Shape, TaskState, Timed
<1>5. /\ DOMAIN file' = Key /\ DOMAIN disk' = Key
      /\ \A k \in Key : k # h.key => file'[k] = file[k] /\ disk'[k] = disk[k]
      /\ file'[h.key] = h.val /\ disk'[h.key] = {h.val}
  BY <1>0, <1>3, <1>4 DEF big_write, FilesTyped
<1>6. All' = All /\ Kept' = Kept
  BY <1>1, SameRecords
<1>7. PICK k \in Key : k = h.key
  BY <1>4
<1>8. \A u \in Writer : u # w => task[u].key # k
  BY <1>0, <1>7, OneHolder
<1>9. HolderIn(task, k) = h
  BY <1>0, <1>7, <1>8, HolderIs
<1>11. ASSUME k \in Sure'
       PROVE  /\ KeyOK(KeyIn(All, k), KeyIn(Kept, k), may[k], disk[k], file[k], h, durable_end, next_seq, poisoned)
              /\ KeyIn(All, k) = {} /\ KeyIn(Kept, k) = {}
  <2>0. k \in Sure /\ ~ Covers(unlinked, k)
    BY <1>7, <1>11, <1>100
  <2>1. KeyOK(KeyIn(All, k), KeyIn(Kept, k), may[k], disk[k], file[k], h, durable_end, next_seq, poisoned)
    BY <1>3, <1>9, <2>0 DEF KeyInv
  <2>2. Cleared(h, Of(active), Recs(closed), Queued)
    BY <1>0, <1>3 DEF BigInv
  <2>3. KeyIn(Queued, k) = {}
    BY <1>1, <1>4, <1>7, <2>2 DEF Cleared
  <2>4. KeyIn(Recs(unlinked), k) = {}
    <3>1. ASSUME NEW r \in Recs(unlinked), r.key = k PROVE FALSE
      <4>1. PICK i \in 1 .. Len(unlinked) : r \in Of(unlinked[i])
        BY <3>1 DEF Recs
      <4>2. PICK j \in 1 .. Len(unlinked[i]) : r = unlinked[i][j]
        BY <4>1 DEF Of
      <4>3. unlinked \in Seq(Seq(S)) /\ DOMAIN unlinked = 1 .. Len(unlinked) /\ unlinked[i] \in Seq(S)
        BY <4>1 DEF LogTyped
      <4>4. DOMAIN unlinked[i] = 1 .. Len(unlinked[i])
        BY <4>3
      <4>5. k \in Touched(unlinked[i])
        BY <3>1, <4>2, <4>4 DEF Touched
      <4> QED
        BY <2>0, <4>1, <4>3, <4>5 DEF Covers
    <3> QED
      BY <3>1 DEF KeyIn
  <2>5. KeyIn(All, k) = {}
    BY <2>3, <2>4 DEF All, Queued, KeyIn
  <2>6. KeyIn(Kept, k) \subseteq KeyIn(All, k)
    BY <2>1 DEF KeyOK, LogOK
  <2> QED
    BY <2>1, <2>5, <2>6
<1>12. Succeed(w) /\ task' = [task EXCEPT ![w] = Idle]
  BY <1>0 DEF big_write, Succeed, Finish
<1>13. PICK i : i = Idle
  OBVIOUS
<1>14. i.held = {} /\ ~ Inserting(i) /\ i.pc = "idle"
  BY <1>13 DEF Idle, Inserting
<1>15. PICK s, e, a : s = h.seq + 1 /\ e = OutcomeOf(w, h.seq) /\ a = Append(may[k], e)
  OBVIOUS
<1>16. s \in Nat /\ s <= durable_end
  BY <1>1, <1>4, <1>15
<1>17. e \in OutcomeType /\ e.seq = h.seq /\ e.val = h.val /\ e.op = h.op
  BY <1>0, <1>1, <1>4, <1>15, OutcomeTyped
<1>18. may'[k] = IF Syncs(h.op) \/ h.op = "Big" THEN Settle(a, s) ELSE a
  <2>1. /\ s = task[w].seq + 1 /\ e = OutcomeOf(w, task[w].seq)
        /\ a = IF task[w].key = k THEN Append(may[k], e) ELSE may[k]
    BY <1>0, <1>7, <1>15
  <2>2. may'[k] = IF Syncs(task[w].op) \/ task[w].op = "Big" THEN Settle(a, s) ELSE a
    <3>1. LET m == IF task[w].key = k THEN Append(may[k], OutcomeOf(w, task[w].seq)) ELSE may[k] IN
          may'[k] = IF Syncs(task[w].op) \/ task[w].op = "Big" THEN Settle(m, task[w].seq + 1) ELSE m
      BY <1>3, <1>12, SucceedAdds
    <3> QED
      BY <2>1, <3>1
  <2> QED
    BY <1>0, <2>2
<1>22. HolderIn(task', k) = i
  BY <1>0, <1>7, <1>8, <1>12, <1>13, OwnEnds
<1>23. ASSUME k \in Sure' PROVE KeyInv(k)'
  <2>1. KeyOK({}, {}, may[k], disk[k], file[k], h, durable_end, next_seq, poisoned)
    BY <1>11, <1>23
  <2>2. e.seq \in Nat /\ e.seq < durable_end
    BY <1>4, <1>17
  <2>3. KeyOK({}, {}, Append(may[k], e), {e.val}, e.val, i, durable_end, next_seq, poisoned)
    BY <1>1, <1>14, <1>17, <2>1, <2>2, KeyBig
  <2>4. KeyOK({}, {}, a, {h.val}, h.val, i, durable_end, next_seq, poisoned)
    BY <1>15, <1>17, <2>3
  <2>5. KeyOK({}, {}, Settle(a, s), {h.val}, h.val, i, durable_end, next_seq, poisoned)
    BY <1>1, <1>16, <2>4, KeySettles
  <2> QED
    BY <1>1, <1>4, <1>5, <1>6, <1>7, <1>11, <1>18, <1>22, <1>23, <2>5 DEF KeyInv
<1>24. ASSUME NEW x \in Sure, x # k PROVE KeyInv(x)'
  <2>1. /\ file'[x] = file[x] /\ disk'[x] = disk[x] /\ KeyInv(x) /\ task[w].key # x /\ task[w] \in TaskState
        /\ task[w].seq < durable_end
    BY <1>0, <1>1, <1>3, <1>4, <1>5, <1>7, <1>24
  <2> QED
    BY <1>1, <1>3, <1>12, <2>1, OtherSettles
<1>25. BigInv'
  BY <1>1, <1>3, <1>12, <1>13, <1>14, BigQuiet
<1>26. DOMAIN may' = Key
  BY <1>0, <1>1, <1>3, <1>12, MayTyped
<1>27. FilesTyped'
  BY <1>1, <1>3, <1>5, <1>26 DEF FilesTyped
<1>28. ASSUME NEW x \in Sure' PROVE KeyInv(x)'
  BY <1>23, <1>24, <1>28, <1>100
<1> QED
  BY <1>25, <1>27, <1>28 DEF DataInv

\* It is in place, and may not be on the device.
LEMMA DataBigFails ==
    ASSUME TaskInv, TaskInv', RestartInv, ShapeInv, DataInv, NEW w \in Writer, big_write_fails(w)
    PROVE  DataInv'
<1> USE DEF logVars, retireVars, Sure
<1>0. PICK k : k = task[w].key
  OBVIOUS
<1>1. /\ UNCHANGED <<active, closed, unlinked, retiring, durable_end, next_seq, poisoned>>
      /\ poisoned \in BOOLEAN /\ w \in Task /\ task \in [Task -> TaskState]
      /\ task[w].pc = "big" /\ Shape(task[w]) /\ task[w].op \in Operation
      /\ Finish(w) /\ may' = Outcome(may, w, None)
  BY <1>0 DEF big_write_fails, TaskInv, ShapeInv, Task, DataInv, FilesTyped
<1>2. status = "up"
  BY <1>1, AtWork
<1>3. FilesTyped /\ BigInv /\ \A x \in Sure : KeyInv(x)
  BY <1>2 DEF DataInv
<1>4. Sure' = Sure \ {k}
  BY <1>0 DEF big_write_fails
<1>5. k \in Key
  BY <1>0, <1>1 DEF Shape
<1>6. /\ DOMAIN file' = Key /\ DOMAIN disk' = Key
      /\ \A x \in Key : x # k => file'[x] = file[x] /\ disk'[x] = disk[x]
  BY <1>0, <1>3, <1>5 DEF big_write_fails, FilesTyped
<1>7. DOMAIN may' = Key /\ \A x \in Key : x # k => may'[x] = may[x]
  BY <1>0, <1>1, <1>3, OutcomeAdds DEF FilesTyped, Outcome
<1>8. All' = All /\ Kept' = Kept
  BY <1>1, SameRecords
<1>9. PICK i : i = Idle
  OBVIOUS
<1>10. task' = [task EXCEPT ![w] = i] /\ i.pc = "idle" /\ i.key = None
  BY <1>1, <1>9 DEF Finish, Idle
<1>11. ASSUME NEW x \in Sure' PROVE KeyInv(x)'
  <2>1. x \in Sure /\ x # k /\ x \in Key /\ KeyInv(x)
    BY <1>3, <1>4, <1>11
  <2>2. i.key # x /\ task[w].key # x
    BY <1>0, <1>10, <2>1, WalAssumption DEF Key
  <2>3. HolderIn(task', x) = HolderIn(task, x)
    BY <1>1, <1>10, <2>1, <2>2, OtherHolder
  <2> QED
    BY <1>1, <1>6, <1>7, <1>8, <2>1, <2>3 DEF KeyInv
<1>12. BigInv'
  BY <1>1, <1>3, <1>10, BigQuiet
<1>13. FilesTyped'
  BY <1>1, <1>3, <1>6, <1>7 DEF FilesTyped
<1> QED
  BY <1>11, <1>12, <1>13 DEF DataInv

-----------------------------------------------------------------------------
(* A record is appended.                                                   *)

LEMMA AppendRecords ==
    ASSUME NEW S, LogTyped(S), NEW x, active' = Append(active, x), UNCHANGED <<closed, unlinked, retiring>>
    PROVE  /\ All' = All \union {x} /\ Kept' = Kept \union {x} /\ Of(active') = Of(active) \union {x}
           /\ Queued' = Queued \union {x}
<1>1. active \in Seq(S)
  BY DEF LogTyped
<1>2. Of(active') = Of(active) \union {x}
  BY <1>1, OfAppend
<1> QED
  BY <1>2 DEF All, Kept, Later, Queued

LEMMA OwnMoves ==
    ASSUME TaskInv, ShapeInv, NEW w \in Writer, NEW e, task' = [task EXCEPT ![w] = e],
           NEW k \in Key, \A u \in Writer : u # w => task[u].key # k, e.key = k
    PROVE  HolderIn(task', k) = e
<1>1. /\ HolderIn(task, k) = (IF task[w].key = k THEN task[w] ELSE Idle)
      /\ HolderIn(task', k) = (IF e.key = k THEN e ELSE Idle)
  BY OwnHolder, ZenonT(60)
<1> QED
  BY <1>1

LEMMA DataAppends ==
    ASSUME TaskInv, TaskInv', RestartInv, ShapeInv, DataInv, NEW S, LogTyped(S), NEW w \in Writer, append(w)
    PROVE  DataInv'
<1> USE DEF logVars, retireVars, Sure
<1>0. PICK h : h = task[w]
  OBVIOUS
<1>1. /\ UNCHANGED <<closed, unlinked, retiring, suspect, durable_end, poisoned, file, disk, may>>
      /\ durable_end \in Nat /\ next_seq \in Nat \ {0} /\ durable_end <= next_seq /\ next_seq' = next_seq + 1
      /\ w \in Task /\ task \in [Task -> TaskState] /\ h \in TaskState
      /\ h.pc = "append" /\ Shape(h) /\ h.op \in Operation
  BY <1>0 DEF append, TaskInv, ShapeInv, Task
<1>2. status = "up"
  BY <1>0, <1>1, AtWork
<1>3. FilesTyped /\ BigInv /\ \A k \in Sure : KeyInv(k)
  BY <1>2 DEF DataInv
<1>4. poisoned = FALSE
  BY <1>3 DEF append, FilesTyped
<1>5. h.key \in Key /\ h.op \in {"Cas", "Write", "Delete", "Insert", "Cancel"} /\ h.val \in Contents /\ h.seq \in Nat
  BY <1>1 DEF Shape, TaskState
<1>6. PICK x : x = Record(w)
  OBVIOUS
<1>7. /\ x.seq = next_seq /\ x.op = h.op /\ x.key = h.key /\ x.exp = file[h.key]
      /\ x.val = IF h.op = "Cancel" THEN h.seq ELSE h.val
  BY <1>0, <1>6 DEF Record
<1>8. active' = Append(active, x)
  BY <1>6 DEF append
<1>9. /\ All' = All \union {x} /\ Kept' = Kept \union {x} /\ Of(active') = Of(active) \union {x}
      /\ Queued' = Queued \union {x}
  BY <1>1, <1>8, AppendRecords
<1>30. PICK p : /\ p \in {"rotate", IF ~Syncs(task[w].op) THEN "file" ELSE IF flushing = None THEN "lead" ELSE "wait"}
               /\ task' = [task EXCEPT ![w] = [@ EXCEPT !.pc = p, !.seq = next_seq, !.held = Guards(w),
                                                         !.covered = IF p = "lead" THEN next_seq + 1 ELSE 0]]
  BY DEF append
<1>10. PICK c : task' = [task EXCEPT ![w] = [@ EXCEPT !.pc = p, !.seq = next_seq, !.held = Guards(w), !.covered = c]]
  BY <1>30
<1>11. PICK e : e = [h EXCEPT !.pc = p, !.seq = next_seq, !.held = Guards(w), !.covered = c]
  OBVIOUS
<1>12. /\ e.pc = p /\ e.op = h.op /\ e.val = h.val /\ e.key = h.key /\ e.seq = next_seq
       /\ e.held = h.held \union {next_seq}
  BY <1>0, <1>1, <1>11 DEF TaskState, Guards
<1>13. task' = [task EXCEPT ![w] = e]
  BY <1>0, <1>10, <1>11
<1>14. p \in {"rotate", "file", "lead", "wait"} /\ (h.op = "Insert" => p # "file")
  BY <1>0, <1>30 DEF Syncs
<1>15. PICK k \in Key : k = h.key
  BY <1>5
<1>16. \A u \in Writer : u # w => task[u].key # k
  BY <1>0, <1>15, OneHolder
<1>17. HolderIn(task, k) = h
  BY <1>0, <1>15, <1>16, HolderIs
<1>18. HolderIn(task', k) = e
  <2>1. task' = [task EXCEPT ![w] = e] /\ \A u \in Writer : u # w => task[u].key # k
    BY <1>13, <1>16
  <2>2. e.key = k
    BY <1>12, <1>15
  <2>3. TaskInv /\ ShapeInv /\ w \in Writer /\ k \in Key
    OBVIOUS
  <2> HIDE DEF logVars, retireVars, Sure
  <2> QED
    BY <2>1, <2>2, <2>3, OwnMoves, ZenonT(100)
<1>19. KeyIn(All', k) = KeyIn(All, k) \union {x} /\ KeyIn(Kept', k) = KeyIn(Kept, k) \union {x}
  BY <1>7, <1>9, <1>15 DEF KeyIn
<1>20. ASSUME k \in Sure PROVE KeyInv(k)'
  <2> DEFINE R == KeyIn(All, k)
             K == KeyIn(Kept, k)
  <2>1. KeyOK(R, K, may[k], disk[k], file[k], h, durable_end, next_seq, FALSE)
    BY <1>3, <1>4, <1>17, <1>20 DEF KeyInv
  <2>2. KeyOK(R \union {x}, K \union {x}, may[k], disk[k], file[k], e, durable_end, next_seq + 1, FALSE)
    <3> HIDE DEF R, K
    <3>1. CASE h.op = "Cancel"
      <4>1. h.held = {h.seq} /\ e.held = {h.seq, next_seq} /\ e.pc # "append"
        BY <1>1, <1>12, <1>14, <3>1 DEF Shape
      <4> QED
        BY <1>1, <1>7, <1>12, <2>1, <3>1, <4>1, KeyAppendsCancel
    <3>2. CASE h.op # "Cancel"
      <4>1. h.held = {} /\ e.held = {next_seq} /\ e.pc # "idle"
        BY <1>1, <1>5, <1>12, <1>14, <3>2 DEF Shape
      <4>2. IsRecord(x)
        BY <1>1, <1>5, <1>7, <3>2 DEF IsRecord, Shape
      <4>3. (x.op = "Insert" <=> Inserting(h)) /\ (Inserting(h) => h.pc # "file" /\ e.pc # "file")
        BY <1>1, <1>7, <1>12, <1>14 DEF Inserting
      <4>4. x.op \in {"Cas", "Write", "Delete", "Insert"} /\ x.exp = file[k] /\ x.op = h.op /\ x.val = h.val /\ x.seq = next_seq
        BY <1>5, <1>7, <1>15, <3>2
      <4> QED
        BY <1>1, <1>12, <2>1, <4>1, <4>2, <4>3, <4>4, KeyAppends
    <3> QED
      BY <3>1, <3>2
  <2> QED
    BY <1>1, <1>4, <1>18, <1>19, <2>2 DEF KeyInv
<1>21. ASSUME NEW y \in Sure, y # k PROVE KeyInv(y)'
  <2>1. HolderIn(task', y) = HolderIn(task, y)
    <3>1. e.key # y /\ task[w].key # y
      BY <1>0, <1>12, <1>15, <1>21
    <3> QED
      BY <1>1, <1>13, <3>1, OtherHolder
  <2>2. KeyIn(All', y) = KeyIn(All, y) /\ KeyIn(Kept', y) = KeyIn(Kept, y)
    BY <1>7, <1>9, <1>15, <1>21 DEF KeyIn
  <2>3. PICK g : g = HolderIn(task, y)
    OBVIOUS
  <2>4. KeyOK(KeyIn(All, y), KeyIn(Kept, y), may[y], disk[y], file[y], g, durable_end, next_seq, FALSE)
    BY <1>3, <1>4, <2>3 DEF KeyInv
  <2>5. Similar(g, g)
    BY SimilarSelf
  <2>6. PICK n \in Nat : n = next_seq + 1
    BY <1>1
  <2>60. /\ durable_end <= n /\ next_seq <= n /\ durable_end <= durable_end /\ next_seq \in Nat
         /\ FALSE \in BOOLEAN
    BY <1>1, <2>6
  <2>7. KeyOK(KeyIn(All, y), KeyIn(Kept, y), may[y], disk[y], file[y], g, durable_end, n, FALSE)
    BY <1>1, <2>4, <2>5, <2>60, KeyFrame
  <2> QED
    BY <1>1, <1>4, <2>1, <2>2, <2>3, <2>6, <2>7 DEF KeyInv
<1>22. BigInv'
  <2>1. Cleared(e, Of(active'), Recs(closed'), Queued')
    BY <1>5, <1>12 DEF Cleared
  <2>2. \A u \in Writer : u # w /\ task[u].op = "Big" =>
             /\ KeyIn(Of(active'), task[u].key) \subseteq Of(active)
             /\ task[u].pc = "retiring" => KeyIn(Of(active') \union Recs(closed'), task[u].key)
                                               \subseteq Of(active) \union Recs(closed)
             /\ KeyIn(Queued', task[u].key) \subseteq Queued
    BY <1>1, <1>7, <1>9, <1>15, <1>16 DEF KeyIn
  <2> QED
    BY <1>1, <1>3, <1>13, <2>1, <2>2, BigStep
<1>23. FilesTyped'
  BY <1>1, <1>3 DEF FilesTyped
<1> QED
  BY <1>1, <1>20, <1>21, <1>22, <1>23 DEF DataInv

-----------------------------------------------------------------------------
(* Segments are retired.                                                   *)

LEMMA OrderedPast ==
    ASSUME NEW S, LogTyped(S), ChainInv, NEW c \in Seq(Seq(S)), NEW d \in Seq(Seq(S)), Past = c \o d,
           NEW r \in Recs(c), NEW q \in Recs(d) \union Of(active)
    PROVE  r.seq < q.seq
<1>0. \A x \in S : x.seq \in Nat
  BY DEF LogTyped
<1>1. CASE q \in Recs(d)
  <2>1. Linked(c \o d)
    BY DEF ChainInv
  <2> QED
    BY <1>0, <1>1, <2>1, LinkedOrder
<1>2. CASE q \in Of(active)
  <2>1. active # <<>> /\ active \in Seq(S)
    BY <1>2, EmptyRecords DEF LogTyped
  <2>2. PICK T, a : T = Seq(S) /\ a = active
    OBVIOUS
  <2>3. Linked(Append(Past, active))
    <3>1. Consecutive(a) /\ (Past # <<>> => a[1].seq = LastSeq(Past) + 1) /\ Linked(Past)
      BY <2>1, <2>2 DEF ChainInv
    <3>2. Past \in Seq(T) /\ a \in T
      BY <2>1, <2>2, PastTyped
    <3>3. Linked(Append(Past, a))
      BY <3>1, <3>2, LinkedAppend
    <3> QED
      BY <2>2, <3>3
  <2>4. PICK e : e = Append(d, a)
    OBVIOUS
  <2>5. c \in Seq(T) /\ d \in Seq(T) /\ a \in T
    BY <2>1, <2>2
  <2>6. e \in Seq(T) /\ c \o e = Append(c \o d, a)
    BY <2>4, <2>5
  <2>7. Linked(c \o e)
    BY <2>2, <2>3, <2>6
  <2>8. q \in Recs(e)
    <3>1. Recs(Append(d, a)) = Recs(d) \union Of(a)
      BY <2>5, RecsAppend
    <3> QED
      BY <1>2, <2>2, <2>4, <3>1
  <2>9. e \in Seq(Seq(S))
    BY <2>2, <2>6
  <2> QED
    BY <1>0, <2>7, <2>8, <2>9, LinkedOrder
<1> QED
  BY <1>1, <1>2

LEMMA HeadFirst ==
    ASSUME NEW S, LogTyped(S), ChainInv, NEW u \in Seq(Seq(S)), NEW s \in Seq(Seq(S)), NEW c \in Seq(Seq(S)),
           Past = u \o (s \o c), s # <<>>,
           NEW r \in Of(s[1]), NEW q \in Recs(Tail(s)) \union Recs(c) \union Of(active)
    PROVE  r.seq < q.seq
<1>0. \A x \in S : x.seq \in Nat
  BY DEF LogTyped
<1>1. PICK T : T = Seq(S)
  OBVIOUS
<1>2. u \in Seq(T) /\ s \in Seq(T) /\ c \in Seq(T)
  BY <1>1
<1>3. PICK e : e = s \o c
  OBVIOUS
<1>4. /\ e \in Seq(T) /\ Len(s) \in Nat \ {0} /\ Len(c) \in Nat /\ Len(e) = Len(s) + Len(c)
      /\ \A i \in 1 .. Len(s) : e[i] = s[i]
      /\ \A i \in 1 .. Len(c) : e[Len(s) + i] = c[i]
  BY <1>2, <1>3
<1>5. e[1] = s[1] /\ 1 \in 1 .. Len(e)
  BY <1>4
<1>6. CASE q \in Of(active)
  <2>1. Past \in Seq(T) /\ Past = Past \o <<>> /\ <<>> \in Seq(T)
    BY <1>1, PastTyped, ConcatEmptySeq
  <2>2. r \in Recs(e)
    BY <1>5 DEF Recs
  <2>3. Recs(u \o e) = Recs(u) \union Recs(e)
    BY <1>2, <1>4, RecsConcat
  <2>4. r \in Recs(Past)
    BY <1>3, <2>2, <2>3
  <2>5. PICK p, d : p = Past /\ d = <<>>
    OBVIOUS
  <2>6. p \in Seq(Seq(S)) /\ d \in Seq(Seq(S)) /\ Past = p \o d /\ r \in Recs(p)
    BY <1>1, <2>1, <2>4, <2>5
  <2> QED
    BY <1>6, <2>6, OrderedPast
<1>7. CASE q \in Recs(Tail(s)) \union Recs(c)
  <2>1. Linked(u \o e)
    BY <1>3 DEF ChainInv
  <2>2. Linked(e)
    BY <1>2, <1>4, <2>1, LinkedConcat
  <2>3. PICK j \in 1 .. Len(e) : 1 < j /\ q \in Of(e[j])
    <3>1. CASE q \in Recs(Tail(s))
      <4>1. PICK i \in 1 .. Len(Tail(s)) : q \in Of(Tail(s)[i])
        BY <3>1 DEF Recs
      <4>2. i + 1 \in 1 .. Len(s) /\ i \in Nat \ {0} /\ Tail(s)[i] = s[i + 1]
        BY <1>2, <4>1
      <4>3. i + 1 \in 1 .. Len(e) /\ 1 < i + 1 /\ e[i + 1] = s[i + 1]
        BY <1>4, <4>2
      <4> QED
        BY <4>1, <4>2, <4>3
    <3>2. CASE q \in Recs(c)
      <4>1. PICK i \in 1 .. Len(c) : q \in Of(c[i])
        BY <3>2 DEF Recs
      <4>2. Len(s) + i \in 1 .. Len(e) /\ 1 < Len(s) + i /\ e[Len(s) + i] = c[i]
        BY <1>4, <4>1
      <4> QED
        BY <4>1, <4>2
    <3> QED
      BY <1>7, <3>1, <3>2
  <2>4. Last(e[1]).seq < e[j][1].seq
    <3>1. e \in Seq(Seq(S))
      BY <1>1, <1>4
    <3> QED
      BY <1>0, <1>5, <2>2, <2>3, <3>1, LinkedClimbs
  <2>5. Consecutive(e[1]) /\ Consecutive(e[j]) /\ e[1] \in Seq(S) /\ e[j] \in Seq(S)
    BY <1>1, <1>4, <1>5, <2>2, <2>3 DEF Linked
  <2>6. PICK a, b : a = e[1] /\ b = e[j]
    OBVIOUS
  <2>7. /\ Last(a).seq \in Nat /\ r.seq \in a[1].seq .. Last(a).seq /\ a[1].seq \in Nat
        /\ Last(b).seq \in Nat /\ q.seq \in b[1].seq .. Last(b).seq /\ b[1].seq \in Nat
    <3>1. a \in Seq(S) /\ b \in Seq(S) /\ Consecutive(a) /\ Consecutive(b) /\ r \in Of(a) /\ q \in Of(b)
      BY <1>5, <2>3, <2>5, <2>6
    <3>2. a[1].seq \in Nat /\ Last(a).seq \in Nat /\ r.seq \in a[1].seq .. Last(a).seq
      BY <1>0, <3>1, ConsecutiveOrder
    <3>3. b[1].seq \in Nat /\ Last(b).seq \in Nat /\ q.seq \in b[1].seq .. Last(b).seq
      BY <1>0, <3>1, ConsecutiveOrder
    <3> QED
      BY <3>2, <3>3
  <2>8. PICK A \in Nat, B \in Nat, x \in Nat, y \in Nat :
            A = Last(a).seq /\ B = b[1].seq /\ x = r.seq /\ y = q.seq /\ x <= A /\ B <= y
    <3>1. PICK A \in Nat, Z \in Nat : A = Last(a).seq /\ Z = a[1].seq
      BY <2>7
    <3>2. r.seq \in Nat /\ r.seq <= A
      BY <2>7, <3>1
    <3>3. PICK B \in Nat, C \in Nat : B = b[1].seq /\ C = Last(b).seq
      BY <2>7
    <3>4. q.seq \in Nat /\ B <= q.seq
      BY <2>7, <3>3
    <3> QED
      BY <3>1, <3>2, <3>3, <3>4
  <2>9. A < B
    BY <2>4, <2>6, <2>8
  <2>10. x < y
    BY <2>8, <2>9
  <2> QED
    BY <2>8, <2>10
<1> QED
  BY <1>6, <1>7

\* The files of a segment are flushed: its records are kept no longer.
LEMMA MidwayFlushed ==
    ASSUME TaskInv, ShapeInv, FilesTyped, NEW b, ~ Outstanding(b), All' = All, Kept = Of(b) \union Kept',
           \A r \in Kept', q \in Of(b) : q.seq < r.seq,
           disk' = [k \in Key |-> IF k \in Touched(b) \ suspect THEN {file[k]} ELSE disk[k]],
           DOMAIN b = 1 .. Len(b),
           UNCHANGED <<file, durable_end, next_seq, poisoned>>,
           NEW k \in Sure, KeyInv(k)
    PROVE  Midway(k)
<1> USE DEF Sure
<1>0. durable_end \in Nat /\ next_seq \in Nat
  BY DEF TaskInv
<1>1. PICK R, K, L, h : R = KeyIn(All, k) /\ K = KeyIn(Kept, k) /\ L = KeyIn(Kept', k) /\ h = HolderIn(task, k)
  OBVIOUS
<1>2. KeyOK(R, K, may[k], disk[k], file[k], h, durable_end, next_seq, poisoned)
  BY <1>1 DEF KeyInv
<1>3. \A j \in 1 .. Len(b) : b[j].seq \notin inflight
  BY DEF Outstanding
<1>4. \A r \in Of(b) : r.seq \notin inflight
  BY <1>3 DEF Of
<1>5. h.held \subseteq inflight
  <2>1. CASE \E w \in Writer : task[w].key = k
    <3>1. PICK w \in Writer : task[w].key = k
      BY <2>1
    <3>2. h = task[w]
      BY <1>1, <3>1, OneHolder
    <3> QED
      BY <3>2 DEF ShapeInv
  <2>2. CASE ~ \E w \in Writer : task[w].key = k
    BY <1>1, <2>2, NoHolder, IdleShape
  <2> QED
    BY <2>1, <2>2
<1>6. CASE k \in Touched(b)
  <2>1. disk'[k] = {file[k]}
    BY <1>6
  <2>2. L \subseteq K /\ K \ L \subseteq Of(b)
    BY <1>1 DEF KeyIn
  <2>3. \A r \in L, q \in K \ L : q.seq < r.seq
    BY <1>1, <2>2 DEF KeyIn
  <2>4. \A r \in K \ L : ~ Own(h, r)
    BY <1>4, <1>5, <2>2 DEF Own
  <2>5. KeyOK(R, L, may[k], {file[k]}, file[k], h, durable_end, next_seq, poisoned)
    BY <1>0, <1>2, <2>2, <2>3, <2>4, KeyFlushes
  <2> QED
    BY <1>1, <2>1, <2>5 DEF Midway
<1>7. CASE k \notin Touched(b)
  <2>1. disk'[k] = disk[k]
    BY <1>7
  <2>2. \A j \in DOMAIN b : b[j].key # k
    BY <1>7 DEF Touched
  <2>3. \A r \in Of(b) : r.key # k
    BY <2>2 DEF Of
  <2>4. K = L
    BY <1>1, <2>3 DEF KeyIn
  <2> QED
    BY <1>1, <1>2, <2>1, <2>4 DEF Midway
<1> QED
  BY <1>6, <1>7

\* A segment of the queue, and the rest of it.
LEMMA QueueHead ==
    ASSUME NEW S, NEW c \in Seq(Seq(S)), c # <<>>
    PROVE  /\ c[1] \in Seq(S) /\ DOMAIN c[1] = 1 .. Len(c[1]) /\ Recs(c) = Of(c[1]) \union Recs(Tail(c))
           /\ Tail(c) \in Seq(Seq(S))
<1>1. PICK T : T = Seq(S)
  OBVIOUS
<1>2. c \in Seq(T)
  BY <1>1
<1>3. c[1] \in T /\ Tail(c) \in Seq(T)
  BY <1>2
<1>4. Recs(c) = Of(c[1]) \union Recs(Tail(c))
  BY <1>2, RecsTail
<1>5. c[1] \in Seq(S)
  BY <1>1, <1>3
<1>6. DOMAIN c[1] = 1 .. Len(c[1])
  BY <1>5
<1> QED
  BY <1>1, <1>3, <1>4, <1>5, <1>6

LEMMA DataFlushesQueue ==
    ASSUME TaskInv, TaskInv', RestartInv, ShapeInv, DataInv, NEW S, LogTyped(S), ChainInv,
           NEW t \in Task, retire_flush(t)
    PROVE  DataInv'
<1> USE DEF logVars, retireVars, Sure
<1>0. /\ UNCHANGED <<active, closed, unlinked, suspect, durable_end, next_seq, poisoned, may, task, file>>
      /\ retiring.by = t /\ ~ retiring.unlinking /\ retiring.queue # <<>> /\ ~ Outstanding(retiring.queue[1])
      /\ retiring'.queue = retiring.queue /\ retiring'.unlinking
      /\ disk' = [k \in Key |-> IF k \in Touched(retiring.queue[1]) \ suspect THEN {file[k]} ELSE disk[k]]
  BY DEF retire_flush, FlushFiles
<1>1. status = "up"
  BY <1>0, AtWork
<1>2. FilesTyped /\ BigInv /\ \A k \in Sure : KeyInv(k)
  BY <1>1 DEF DataInv
<1>3. PICK s, b : s = retiring.queue /\ b = s[1]
  OBVIOUS
<1>4. s \in Seq(Seq(S)) /\ s # <<>> /\ unlinked \in Seq(Seq(S)) /\ closed \in Seq(Seq(S))
  BY <1>0, <1>3 DEF LogTyped
<1>5. DOMAIN b = 1 .. Len(b) /\ Recs(s) = Of(b) \union Recs(Tail(s))
  BY <1>3, <1>4, QueueHead
<1>6. All' = All /\ Queued' = Queued
  BY <1>0 DEF All, Queued
<1>7. Kept' = Recs(Tail(s)) \union Recs(closed) \union Of(active) /\ Kept = Of(b) \union Kept'
  BY <1>0, <1>3, <1>5 DEF Kept, Later
<1>8. ASSUME NEW r \in Kept', NEW q \in Of(b) PROVE q.seq < r.seq
  <2>1. Past = unlinked \o (s \o closed)
    BY <1>3 DEF Past
  <2> QED
    BY <1>3, <1>4, <1>7, <2>1, HeadFirst
<1>9. ASSUME NEW k \in Sure PROVE KeyInv(k)'
  <2>1. ~ Outstanding(b) /\ disk' = [x \in Key |-> IF x \in Touched(b) \ suspect THEN {file[x]} ELSE disk[x]]
    BY <1>0, <1>3
  <2>2. Midway(k)
    BY <1>0, <1>2, <1>5, <1>6, <1>7, <1>8, <2>1, MidwayFlushed
  <2>3. HolderIn(task', k) = HolderIn(task, k) /\ may'[k] = may[k]
    BY <1>0
  <2> QED
    BY <2>2, <2>3, MidwaySame
<1>10. BigInv'
  BY <1>0, <1>2, <1>6 DEF BigInv
<1>11. FilesTyped'
  BY <1>0, <1>2 DEF FilesTyped
<1> QED
  BY <1>0, <1>9, <1>10, <1>11 DEF DataInv

LEMMA DataUnlinks ==
    ASSUME TaskInv, TaskInv', RestartInv, ShapeInv, DataInv, NEW S, LogTyped(S),
           NEW t \in Task, retire_unlink(t)
    PROVE  DataInv'
<1> USE DEF logVars, retireVars, Sure
<1>0. /\ UNCHANGED <<active, closed, suspect, durable_end, next_seq, poisoned, may, task, file, disk>>
      /\ retiring.by = t /\ retiring.unlinking /\ retiring.queue # <<>>
      /\ retiring'.queue = Tail(retiring.queue) /\ ~ retiring'.unlinking
      /\ unlinked' = Append(unlinked, retiring.queue[1])
  BY DEF retire_unlink, RestartInv
<1>1. status = "up"
  BY <1>0, AtWork
<1>2. FilesTyped /\ BigInv /\ \A k \in Sure : KeyInv(k)
  BY <1>1 DEF DataInv
<1>3. PICK s, b, T : s = retiring.queue /\ b = s[1] /\ T = Seq(S)
  OBVIOUS
<1>4. s \in Seq(Seq(S)) /\ s # <<>> /\ unlinked \in Seq(T)
  BY <1>0, <1>3 DEF LogTyped
<1>5. Recs(s) = Of(b) \union Recs(Tail(s)) /\ Recs(Append(unlinked, b)) = Recs(unlinked) \union Of(b)
  BY <1>3, <1>4, QueueHead, RecsAppend
<1>6. All' = All /\ Kept' = Kept /\ Queued' \subseteq Queued
  BY <1>0, <1>3, <1>5 DEF All, Kept, Later, Queued
<1>9. ASSUME NEW k \in Sure PROVE KeyInv(k)'
  BY <1>0, <1>2, <1>6 DEF KeyInv
<1>10. BigInv'
  BY <1>0, <1>2, <1>6 DEF BigInv, Cleared, KeyIn
<1>11. FilesTyped'
  BY <1>0, <1>2 DEF FilesTyped
<1> QED
  BY <1>0, <1>9, <1>10, <1>11 DEF DataInv

\* The tasks of a step that ends retiring.
LEMMA RetiredTask ==
    ASSUME TaskInv, ShapeInv, NEW t \in Task, NEW n, Retired(t, n), task[t] \in TaskState
    PROVE  /\ \E e : /\ task' = [task EXCEPT ![t] = e] /\ (e.pc = "big" => n = 0) /\ e.pc \in {"idle", "big", "rotate"}
                     /\ e.pc # "idle" => e.key = task[t].key /\ e.op = task[t].op
           /\ may' = may
<1>1. CASE FailClean(t)
  <2>1. PICK e : e = Idle
    OBVIOUS
  <2>2. task' = [task EXCEPT ![t] = e] /\ may' = may /\ e.pc = "idle"
    BY <1>1, <2>1 DEF FailClean, Finish, Idle
  <2> QED
    BY <2>2
<1>2. CASE Goto(t, "rotate") /\ UNCHANGED may
  <2>1. PICK e : e = [task[t] EXCEPT !.pc = "rotate"]
    OBVIOUS
  <2>2. e.pc = "rotate" /\ e.key = task[t].key /\ e.op = task[t].op
    BY <2>1 DEF TaskState
  <2>3. task' = [task EXCEPT ![t] = e]
    BY <1>2, <2>1 DEF Goto
  <2> QED
    BY <1>2, <2>2, <2>3
<1>3. CASE /\ n = 0 /\ task' = [task EXCEPT ![t] = [@ EXCEPT !.pc = "big", !.seq = durable_end - 1]]
           /\ UNCHANGED may
  <2>1. PICK e : e = [task[t] EXCEPT !.pc = "big", !.seq = durable_end - 1]
    OBVIOUS
  <2>2. e.pc = "big" /\ e.key = task[t].key /\ e.op = task[t].op
    BY <2>1 DEF TaskState
  <2>3. task' = [task EXCEPT ![t] = e]
    BY <1>3, <2>1
  <2> QED
    BY <1>3, <2>2, <2>3
<1> QED
  BY <1>1, <1>2, <1>3 DEF Retired

LEMMA DataRetires ==
    ASSUME TaskInv, TaskInv', RestartInv, ShapeInv, DataInv, NEW S, LogTyped(S), ChainInv,
           NEW t \in Task, retire_closed(t)
    PROVE  DataInv'
<1> USE DEF logVars, retireVars, Sure
<1>0. /\ UNCHANGED <<active, unlinked, suspect, durable_end, next_seq, poisoned, file>>
      /\ task[t].pc = "retire" /\ retiring.by = None /\ task[t] \in TaskState
      /\ durable_end \in Nat /\ next_seq \in Nat /\ durable_end <= next_seq
      /\ retiring.queue = <<>> /\ ~ retiring.unlinking
      /\ t \in Writer => Shape(task[t])
      /\ closed \in Seq(Seq(S)) /\ unlinked \in Seq(Seq(S))
  BY DEF retire_closed, TaskInv, ShapeInv, RestartInv, NotRetiring, LogTyped
<1>1. status = "up"
  BY <1>0, AtWork
<1>2. FilesTyped /\ BigInv /\ \A k \in Sure : KeyInv(k)
  BY <1>1 DEF DataInv
<1>3. poisoned \in BOOLEAN /\ Grows
  BY <1>0, <1>2 DEF FilesTyped, Grows
<1>4. CASE closed = <<>> \/ Outstanding(closed[1])
  <2>1. Retired(t, Len(closed)) /\ UNCHANGED <<disk, closed, retiring>>
    BY <1>4 DEF retire_closed
  <2>2. /\ durable_end' >= durable_end /\ next_seq' >= next_seq /\ poisoned' \in BOOLEAN /\ (poisoned => poisoned')
    BY <1>0, <1>3
  <2>3. \A k \in Sure : Midway(k)
    BY <1>0, <1>1, <2>1, <2>2, QuietStep
  <2>4. ASSUME NEW k \in Sure PROVE KeyInv(k)'
    BY <1>0, <1>2, <1>3, <2>1, <2>3, MidwayRetired
  <2>5. PICK e : /\ task' = [task EXCEPT ![t] = e] /\ (e.pc = "big" => Len(closed) = 0) /\ e.pc \in {"idle", "big", "rotate"}
                 /\ e.pc # "idle" => e.key = task[t].key /\ e.op = task[t].op
    BY <1>0, <2>1, RetiredTask
  <2>6. may' = may
    BY <1>0, <2>1, RetiredTask
  <2>7. All' = All /\ Queued' = Queued
    BY <1>0, <2>1, SameRecords
  <2>8. BigInv'
    <3>1. ASSUME t \in Writer PROVE Cleared(e, Of(active'), Recs(closed'), Queued')
      <4>1. CASE e.op = "Big" /\ e.pc = "big"
        <5>1. closed = <<>>
          BY <1>0, <2>5, <4>1
        <5>2. Queued = Of(active)
          BY <1>0, <5>1, EmptyRecords DEF Queued
        <5>3. KeyIn(Of(active), e.key) = {}
          BY <1>0, <1>2, <2>5, <3>1, <4>1 DEF BigInv, Cleared
        <5> QED
          BY <2>7, <4>1, <5>2, <5>3 DEF Cleared
      <4>2. CASE ~ (e.op = "Big" /\ e.pc = "big")
        BY <2>5, <4>2 DEF Cleared
      <4> QED
        BY <4>1, <4>2
    <3>2. \A w \in Writer : w # t /\ task[w].op = "Big" =>
               /\ KeyIn(Of(active'), task[w].key) \subseteq Of(active)
               /\ task[w].pc = "retiring" => KeyIn(Of(active') \union Recs(closed'), task[w].key)
                                                 \subseteq Of(active) \union Recs(closed)
               /\ KeyIn(Queued', task[w].key) \subseteq Queued
      BY <1>0, <2>1, <2>7 DEF KeyIn
    <3> QED
      BY <1>2, <2>5, <3>1, <3>2, BigStep
  <2>9. FilesTyped'
    BY <1>0, <1>2, <2>1, <2>6 DEF FilesTyped
  <2> QED
    BY <1>0, <2>4, <2>8, <2>9 DEF DataInv
<1>5. CASE ~ (closed = <<>> \/ Outstanding(closed[1]))
  <2>1. /\ Goto(t, "retiring") /\ may' = may /\ closed' = <<>>
        /\ retiring'.queue = closed /\ retiring'.unlinking
        /\ disk' = [k \in Key |-> IF k \in Touched(closed[1]) \ suspect THEN {file[k]} ELSE disk[k]]
    BY <1>5 DEF retire_closed, FlushFiles
  <2>2. PICK b : b = closed[1]
    OBVIOUS
  <2>3. DOMAIN b = 1 .. Len(b) /\ Recs(closed) = Of(b) \union Recs(Tail(closed))
    BY <1>0, <1>5, <2>2, QueueHead
  <2>4. All' = All /\ Queued' = Queued
    BY <1>0, <2>1, EmptyRecords DEF All, Queued
  <2>5. Kept' = Recs(Tail(closed)) \union Of(active) /\ Kept = Of(b) \union Kept'
    BY <1>0, <2>1, <2>3, EmptyRecords DEF Kept, Later
  <2>6. ASSUME NEW r \in Kept', NEW q \in Of(b) PROVE q.seq < r.seq
    <3>1. Past = unlinked \o (closed \o <<>>)
      <4>1. PICK T : T = Seq(S)
        OBVIOUS
      <4>2. closed \in Seq(T)
        BY <1>0, <4>1
      <4>3. closed \o <<>> = closed /\ <<>> \o closed = closed
        BY <4>2, ConcatEmptySeq
      <4> QED
        BY <1>0, <4>3 DEF Past
    <3>2. PICK n, u : n = <<>> /\ u = unlinked
      OBVIOUS
    <3>3. n \in Seq(Seq(S)) /\ u \in Seq(Seq(S)) /\ Past = u \o (closed \o n)
      BY <1>0, <3>1, <3>2
    <3>4. r \in Recs(Tail(closed)) \union Recs(n) \union Of(active)
      BY <2>5
    <3> QED
      BY <1>0, <1>5, <2>2, <3>3, <3>4, HeadFirst
  <2>7. PICK e : e = [task[t] EXCEPT !.pc = "retiring"]
    OBVIOUS
  <2>8. e.pc = "retiring" /\ e.held = task[t].held /\ e.op = task[t].op /\ e.val = task[t].val /\ e.seq = task[t].seq /\ e.key = task[t].key
    BY <1>0, <2>7 DEF TaskState
  <2>9. task' = [task EXCEPT ![t] = e]
    BY <2>1, <2>7 DEF Goto
  <2>10. t \in Writer => task[t].op = "Big"
    BY <1>0 DEF Shape
  <2>11. t \in Writer => Similar(task[t], e)
    BY <1>0, <2>8, <2>10, GotoSimilar
  <2>12. ASSUME NEW k \in Sure PROVE KeyInv(k)'
    <3>1. ~ Outstanding(b) /\ disk' = [x \in Key |-> IF x \in Touched(b) \ suspect THEN {file[x]} ELSE disk[x]]
      BY <1>5, <2>1, <2>2
    <3>2. Midway(k)
      BY <1>0, <1>2, <2>3, <2>4, <2>5, <2>6, <3>1, MidwayFlushed
    <3> QED
      BY <1>3, <2>1, <2>8, <2>9, <2>11, <3>2, MidwayMoves
  <2>13. BigInv'
    <3>1. ASSUME t \in Writer PROVE Cleared(e, Of(active'), Recs(closed'), Queued')
      <4>1. KeyIn(Of(active), task[t].key) = {}
        BY <1>0, <1>2, <2>10, <3>1 DEF BigInv, Cleared
      <4> QED
        BY <1>0, <2>1, <2>8, <4>1, EmptyRecords DEF Cleared
    <3>2. \A w \in Writer : w # t /\ task[w].op = "Big" =>
               /\ KeyIn(Of(active'), task[w].key) \subseteq Of(active)
               /\ task[w].pc = "retiring" => KeyIn(Of(active') \union Recs(closed'), task[w].key)
                                                 \subseteq Of(active) \union Recs(closed)
               /\ KeyIn(Queued', task[w].key) \subseteq Queued
      BY <1>0, <2>1, <2>4, EmptyRecords DEF KeyIn
    <3> QED
      BY <1>2, <2>9, <3>1, <3>2, BigStep
  <2>14. FilesTyped'
    BY <1>0, <1>2, <2>1 DEF FilesTyped
  <2> QED
    BY <1>0, <2>12, <2>13, <2>14 DEF DataInv
<1> QED
  BY <1>4, <1>5

\* What is left of the queue goes back, the segment whose files were flushed
\* included; the removals are flushed, or may still come undone.
LEMMA RequeuedRecords ==
    ASSUME NEW S, LogTyped(S), ChainInv, closed' = Requeued, retiring' = NotRetiring,
           unlinked' = <<>> \/ unlinked' = unlinked, UNCHANGED active
    PROVE  /\ All' \in {Queued, All} /\ Kept' = Queued /\ Queued' = Queued
           /\ Recs(closed') = Recs(retiring.queue) \union Recs(closed)
           /\ Queued \subseteq All /\ \A r \in Queued, q \in All \ Queued : q.seq < r.seq
<1>1. PICK T, s, u : T = Seq(S) /\ s = retiring.queue /\ u = unlinked
  OBVIOUS
<1>2. s \in Seq(T) /\ closed \in Seq(T) /\ u \in Seq(T)
  BY <1>1 DEF LogTyped
<1>3. Recs(s \o closed) = Recs(s) \union Recs(closed)
  BY <1>2, RecsConcat
<1>4. Recs(closed') = Recs(retiring.queue) \union Recs(closed)
  BY <1>1, <1>3 DEF Requeued
<1>5. retiring'.queue = <<>> /\ ~ retiring'.unlinking
  BY DEF NotRetiring
<1>6. Kept' = Queued /\ Queued' = Queued /\ All' \in {Queued, All} /\ Queued \subseteq All
  BY <1>4, <1>5, EmptyRecords DEF All, Kept, Later, Queued
<1>7. ASSUME NEW r \in Queued, NEW q \in All \ Queued PROVE q.seq < r.seq
  <2>1. q \in Recs(u)
    BY <1>1 DEF All, Queued
  <2>2. PICK d : d = s \o closed
    OBVIOUS
  <2>3. d \in Seq(Seq(S)) /\ u \in Seq(Seq(S)) /\ Past = u \o d
    BY <1>1, <1>2, <2>2 DEF Past
  <2>4. r \in Recs(d) \union Of(active)
    BY <1>1, <1>3, <2>2 DEF Queued
  <2> QED
    BY <2>1, <2>3, <2>4, OrderedPast
<1> QED
  BY <1>4, <1>6, <1>7

\* More of the records are kept.
LEMMA KeyRegains ==
    ASSUME NEW R, NEW K, NEW m, NEW D, NEW f, NEW h, NEW d \in Nat, NEW n \in Nat, NEW p,
           KeyOK(R, K, m, D, f, h, d, n, p),
           NEW L, L \subseteq R, K \subseteq L, \A r \in L, q \in R \ L : q.seq < r.seq
    PROVE  KeyOK(R, L, m, D, f, h, d, n, p)
<1>1. LogOK(R, K, h, n) /\ DataOK(R, K, m, D, f, h, d, n, p)
  BY DEF KeyOK
<1>2. LogOK(R, L, h, n)
  BY <1>1 DEF LogOK
<1>3. ASSUME NEW c, NEW v, Backed(R, K, m, c, v) PROVE Backed(R, L, m, c, v)
  BY <1>3 DEF Backed
<1>4. ASSUME NEW c \in d .. n PROVE CutOK(R, L, m, D, h, c)
  <2>1. CutOK(R, K, m, D, h, c)
    BY <1>1 DEF DataOK
  <2> QED
    BY <1>3, <2>1 DEF CutOK
<1>5. ASSUME NEW r \in R, Own(h, r) PROVE OwnOK(R, L, m, D, f, h, r)
  <2>1. OwnOK(R, K, m, D, f, h, r)
    BY <1>1, <1>5 DEF DataOK
  <2> QED
    BY <1>3, <2>1 DEF OwnOK
<1>6. DataOK(R, L, m, D, f, h, d, n, p)
  BY <1>1, <1>4, <1>5 DEF DataOK
<1> QED
  BY <1>2, <1>6 DEF KeyOK

LEMMA MidwayRequeued ==
    ASSUME TaskInv, All' \in {Queued, All}, Kept' = Queued, Kept \subseteq Queued, Queued \subseteq All,
           \A r \in Queued, q \in All \ Queued : q.seq < r.seq,
           UNCHANGED <<file, disk, durable_end, next_seq, poisoned>>,
           NEW k \in Key, KeyInv(k)
    PROVE  Midway(k)
<1>0. durable_end \in Nat /\ next_seq \in Nat
  BY DEF TaskInv
<1>1. PICK R, K, L, h : R = KeyIn(All, k) /\ K = KeyIn(Kept, k) /\ L = KeyIn(Queued, k) /\ h = HolderIn(task, k)
  OBVIOUS
<1>2. KeyOK(R, K, may[k], disk[k], file[k], h, durable_end, next_seq, poisoned)
  BY <1>1 DEF KeyInv
<1>3. K \subseteq L /\ L \subseteq R /\ L \subseteq L /\ \A r \in L, q \in R \ L : q.seq < r.seq
  BY <1>1 DEF KeyIn
<1>4. KeyOK(R, L, may[k], disk[k], file[k], h, durable_end, next_seq, poisoned)
  BY <1>0, <1>2, <1>3, KeyRegains
<1>5. KeyOK(L, L, may[k], disk[k], file[k], h, durable_end, next_seq, poisoned)
  BY <1>0, <1>3, <1>4, KeyForgets
<1> QED
  BY <1>1, <1>4, <1>5 DEF Midway

LEMMA DataRequeues ==
    ASSUME TaskInv, TaskInv', RestartInv, ShapeInv, DataInv, NEW S, LogTyped(S), ChainInv,
           NEW t \in Task, retire_end(t) \/ RetirementFails(t)
    PROVE  DataInv'
<1> USE DEF logVars, retireVars, Sure
<1>0. /\ UNCHANGED <<active, durable_end, next_seq, poisoned, file, disk>>
      /\ task[t].pc \in {"retire", "retiring"} /\ task[t] \in TaskState
      /\ retiring.by # t => retiring.by = None /\ retiring.queue = <<>>
      /\ durable_end \in Nat /\ next_seq \in Nat /\ durable_end <= next_seq
      /\ closed' = Requeued /\ retiring' = NotRetiring
      /\ unlinked' = <<>> \/ unlinked' = unlinked
      /\ t \in Writer => Shape(task[t])
      /\ retiring.queue \in Seq(Seq(S))
      /\ suspect \subseteq suspect'
  <2>1. /\ UNCHANGED <<active, durable_end, next_seq, poisoned, file, disk>>
        /\ closed' = Requeued /\ retiring' = NotRetiring
        /\ unlinked' = <<>> \/ unlinked' = unlinked
        /\ suspect \subseteq suspect'
    BY DEF retire_end, RetirementFails, retire_dir_fails, retire_fails, RetireFailed, FlushFails
  <2>2. retiring.by = t \/ (retiring.by = None /\ task[t].pc = "retire")
    BY DEF retire_end, RetirementFails, retire_dir_fails, retire_fails
  <2>3. task[t] \in TaskState /\ (retiring.by = t => task[t].pc = "retiring")
    BY WalAssumption DEF TaskInv, Task
  <2>4. retiring.by = None => retiring.queue = <<>>
    BY DEF RestartInv, NotRetiring
  <2>5. /\ durable_end \in Nat /\ next_seq \in Nat /\ durable_end <= next_seq
        /\ t \in Writer => Shape(task[t])
        /\ retiring.queue \in Seq(Seq(S))
    BY DEF TaskInv, ShapeInv, LogTyped
  <2> QED
    BY <2>1, <2>2, <2>3, <2>4, <2>5
<1>1. status = "up"
  BY <1>0, AtWork
<1>2. FilesTyped /\ BigInv /\ \A k \in Sure : KeyInv(k)
  BY <1>1 DEF DataInv
<1>3. poisoned \in BOOLEAN /\ Grows
  BY <1>0, <1>2 DEF FilesTyped, Grows
<1>4. /\ All' \in {Queued, All} /\ Kept' = Queued /\ Queued' = Queued
      /\ Recs(closed') = Recs(retiring.queue) \union Recs(closed)
      /\ Queued \subseteq All /\ \A r \in Queued, q \in All \ Queued : q.seq < r.seq
  BY <1>0, RequeuedRecords
<1>40. Kept \subseteq Queued
  <2>1. CASE ~ retiring.unlinking
    BY <2>1 DEF Kept, Queued, Later
  <2>2. CASE retiring.unlinking
    <3>1. retiring.queue # <<>>
      BY <2>2 DEF RestartInv
    <3>2. Recs(retiring.queue) = Of(retiring.queue[1]) \union Recs(Tail(retiring.queue))
      BY <1>0, <3>1, QueueHead
    <3> QED
      BY <2>2, <3>2 DEF Kept, Queued, Later
  <2> QED
    BY <2>1, <2>2
<1>5. ASSUME NEW k \in Sure PROVE Midway(k)
  BY <1>0, <1>2, <1>4, <1>40, MidwayRequeued
<1>6. t \in Writer => task[t].op = "Big" /\ task[t].held = {} /\ ~ Inserting(task[t])
  BY <1>0 DEF Shape, Inserting
<1>7. ASSUME NEW w \in Writer, w # t, task[w].op = "Big"
      PROVE  /\ KeyIn(Of(active'), task[w].key) \subseteq Of(active)
             /\ task[w].pc = "retiring" => KeyIn(Of(active') \union Recs(closed'), task[w].key)
                                               \subseteq Of(active) \union Recs(closed)
             /\ KeyIn(Queued', task[w].key) \subseteq Queued
  <2>1. task[w].pc = "retiring" => Recs(closed') = Recs(closed)
    <3>1. task[w].pc = "retiring" => retiring.by = w
      BY DEF TaskInv, Task
    <3>2. retiring.by = w => w = None
      BY <1>0, <1>7
    <3> QED
      BY <1>0, <3>1, <3>2, WalAssumption
  <2> QED
    BY <1>0, <1>4, <2>1 DEF KeyIn
<1>8. PICK e : /\ task' = [task EXCEPT ![t] = e] /\ may' = may /\ \A k \in Sure : KeyInv(k)'
               /\ t \in Writer => Cleared(e, Of(active'), Recs(closed'), Queued')
  <2>1. CASE retire_end(t)
    <3>0. retiring.by = t /\ ~ retiring.unlinking /\ task[t].pc = "retiring"
      BY <2>1, WalAssumption DEF retire_end, TaskInv, Task
    <3>1. Retired(t, Len(retiring.queue))
      BY <2>1 DEF retire_end
    <3>2. ASSUME NEW k \in Sure PROVE KeyInv(k)'
      BY <1>0, <1>2, <1>3, <1>5, <3>1, MidwayRetired
    <3>3. PICK e : /\ task' = [task EXCEPT ![t] = e] /\ (e.pc = "big" => Len(retiring.queue) = 0)
                   /\ e.pc \in {"idle", "big", "rotate"}
                   /\ e.pc # "idle" => e.key = task[t].key /\ e.op = task[t].op
      BY <1>0, <3>1, RetiredTask
    <3>4. may' = may
      BY <1>0, <3>1, RetiredTask
    <3>5. ASSUME t \in Writer PROVE Cleared(e, Of(active'), Recs(closed'), Queued')
      <4>1. CASE e.pc = "big"
        <5>1. retiring.queue = <<>>
          BY <1>0, <3>3, <4>1
        <5>2. Queued' = Of(active) \union Recs(closed)
          BY <1>0, <1>4, <5>1, EmptyRecords DEF Queued
        <5>3. KeyIn(Of(active) \union Recs(closed), e.key) = {}
          BY <1>0, <1>2, <1>6, <3>0, <3>3, <3>5, <4>1 DEF BigInv, Cleared
        <5> QED
          BY <4>1, <5>2, <5>3 DEF Cleared
      <4>2. CASE e.pc # "big"
        BY <3>3, <4>2 DEF Cleared
      <4> QED
        BY <4>1, <4>2
    <3> QED
      BY <3>2, <3>3, <3>4, <3>5
  <2>2. CASE RetirementFails(t)
    <3>1. FailClean(t)
      BY <2>2 DEF RetirementFails, retire_dir_fails, retire_fails, RetireFailed
    <3>2. ASSUME NEW k \in Sure PROVE KeyInv(k)'
      BY <1>0, <1>3, <1>5, <1>6, <3>1, MidwayClean
    <3>3. task' = [task EXCEPT ![t] = Idle] /\ may' = may /\ Idle.pc = "idle"
      BY <3>1 DEF FailClean, Finish, Idle
    <3>4. PICK e : e = Idle
      OBVIOUS
    <3>5. Cleared(e, Of(active'), Recs(closed'), Queued')
      BY <3>3, <3>4 DEF Cleared
    <3> QED
      BY <3>2, <3>3, <3>4, <3>5
  <2> QED
    BY <2>1, <2>2
<1>9. BigInv'
  BY <1>2, <1>7, <1>8, BigStep
<1>10. FilesTyped'
  BY <1>0, <1>2, <1>8 DEF FilesTyped
<1> QED
  BY <1>0, <1>8, <1>9, <1>10 DEF DataInv

\* A step while the log is open and stays so.
LEMMA DataUp ==
    ASSUME TaskInv, TaskInv', RestartInv, ShapeInv, DataInv, NEW S, LogTyped(S), ChainInv,
           \/ \E w \in Writer : begin_operation(w) \/ WriterStep(w)
           \/ \E t \in Task : TaskStep(t) \/ RetirementFails(t)
           \/ tick \/ WritebackFails
    PROVE  DataInv'
<1> USE DEF logVars, retireVars, Sure
<1>1. ASSUME NEW w \in Writer, begin_operation(w) \/ WriterStep(w) PROVE DataInv'
  <2>1. CASE begin_operation(w)
    BY <2>1, DataBegins
  <2>2. CASE write_file(w)
    BY <2>2, DataWrites
  <2>3. CASE write_fails(w) \/ append_fails(w) \/ open_segment_fails(w)
    BY <2>3, DataFailsWriting
  <2>4. CASE big_write(w)
    BY <2>4, DataBig
  <2>5. CASE append(w)
    BY <2>5, DataAppends
  <2>6. CASE big_write_fails(w)
    BY <2>6, DataBigFails
  <2> QED
    BY <1>1, <2>1, <2>2, <2>3, <2>4, <2>5, <2>6 DEF WriterStep
<1>2. ASSUME NEW t \in Task, TaskStep(t) \/ RetirementFails(t) PROVE DataInv'
  <2>1. CASE wait_durable(t)
    BY <2>1, DataWaits
  <2>2. CASE lead_flush(t)
    BY <2>2, DataLeads
  <2>3. CASE flush_returns(t)
    BY <2>3, DataFlushed
  <2>4. CASE rotate(t)
    BY <2>4, DataRotates
  <2>5. CASE retire_closed(t)
    BY <2>5, DataRetires
  <2>6. CASE retire_flush(t)
    BY <2>6, DataFlushesQueue
  <2>7. CASE retire_unlink(t)
    BY <2>7, DataUnlinks
  <2>8. CASE retire_end(t) \/ RetirementFails(t)
    BY <2>8, DataRequeues
  <2>9. CASE flush_unwinds(t)
    BY <2>9, DataUnwinds
  <2> QED
    BY <1>2, <2>1, <2>2, <2>3, <2>4, <2>5, <2>6, <2>7, <2>8, <2>9 DEF TaskStep
<1>3. CASE tick
  BY <1>3, DataTicks
<1>4. CASE WritebackFails
  BY <1>4, DataIdle DEF WritebackFails
<1> QED
  BY <1>1, <1>2, <1>3, <1>4

-----------------------------------------------------------------------------
(* One key through a restart.                                              *)

\* The records that replay applies.
Final(R) == {r \in R : r.op # "Cancel" /\ ~ \E q \in R : q.op = "Cancel" /\ q.val = r.seq}

\* The records left are in order, the last one that applies leaves an outcome
\* the key may have, and so does whatever no record replaces.
DownOK(R, M, D) ==
    /\ RecordsOK(R)
    /\ \A r \in R : IsLast(r, Final(R)) => r.val \in M
    /\ \A v \in D : v \in M \/ \E r \in Final(R) : Accepts(r, v)

Hold(m) ==
    {m[i].val : i \in DOMAIN m} \union (IF \E i \in 2 .. Len(m) : m[i].op = "Write" THEN {None} ELSE {})

LEMMA FinalIsLive ==
    ASSUME NEW R, RecordsOK(R), NEW c \in Nat, \A r \in R : r.seq < c
    PROVE  Final(R) = Live(R, c)
BY DEF Final, Live, Gone

\* The records below c.
LEMMA RecordsBelow ==
    ASSUME NEW R, RecordsOK(R), NEW c \in Nat, NEW B, B = {r \in R : r.seq < c}
    PROVE  RecordsOK(B) /\ Live(B, c) = Live(R, c)
<1>1. \A q \in R : q.seq \in Nat /\ (q.op = "Cancel" => q.val \in Nat /\ q.val < q.seq)
  BY RecordNumbers
<1>2. ASSUME NEW b \in Nat, b <= c PROVE Live(B, b) = Live(R, b)
  BY <1>1, <1>2 DEF Live, Gone
<1>3. ASSUME NEW r \in B, NEW p \in B, r.op # "Cancel", IsLast(p, Live(B, r.seq))
      PROVE  Accepts(r, p.val)
  <2>1. r.seq \in Nat /\ r.seq <= c
    BY <1>1
  <2>2. IsLast(p, Live(R, r.seq))
    BY <1>2, <1>3, <2>1
  <2> QED
    BY <1>3, <2>2 DEF RecordsOK
<1> QED
  BY <1>2, <1>3 DEF RecordsOK

\* The later ones of them.
LEMMA RecordsShrink ==
    ASSUME NEW R, RecordsOK(R), NEW S, S \subseteq R, \A r \in S, q \in R \ S : q.seq < r.seq
    PROVE  /\ RecordsOK(S) /\ Final(S) = Final(R) \intersect S
           /\ \A r : IsLast(r, Final(S)) => IsLast(r, Final(R))
<1>1. \A q \in R : q.seq \in Nat /\ (q.op = "Cancel" => q.val \in Nat /\ q.val < q.seq)
  BY RecordNumbers
<1>2. ASSUME NEW r \in S, NEW p \in S, r.op # "Cancel", IsLast(p, Live(S, r.seq))
      PROVE  Accepts(r, p.val)
  <2>1. IsLast(p, Live(R, r.seq))
    BY <1>2, LiveShrinks
  <2> QED
    BY <1>2, <2>1 DEF RecordsOK
<1>3. RecordsOK(S)
  BY <1>2 DEF RecordsOK
<1>4. ASSUME NEW r \in S, NEW q \in R, q.op = "Cancel", q.val = r.seq PROVE q \in S
  BY <1>1, <1>4
<1>5. Final(S) = Final(R) \intersect S
  BY <1>4 DEF Final
<1>6. ASSUME NEW r, IsLast(r, Final(S)) PROVE IsLast(r, Final(R))
  <2>1. r \in S /\ r \in Final(R)
    BY <1>5, <1>6 DEF IsLast
  <2>2. \A q \in Final(R) : q \in R
    BY DEF Final
  <2>3. \A q \in Final(R) : q.seq <= r.seq
    BY <1>1, <1>5, <1>6, <2>1, <2>2 DEF IsLast
  <2> QED
    BY <2>1, <2>3 DEF IsLast
<1> QED
  BY <1>3, <1>5, <1>6

LEMMA DownShrinks ==
    ASSUME NEW R, NEW M, NEW D, DownOK(R, M, D), NEW S, S \subseteq R,
           \A r \in S, q \in R \ S : q.seq < r.seq, NEW E, E \subseteq M
    PROVE  DownOK(S, M, E)
<1>1. RecordsOK(R)
  BY DEF DownOK
<1>2. RecordsOK(S) /\ \A r : IsLast(r, Final(S)) => IsLast(r, Final(R))
  BY <1>1, RecordsShrink
<1> QED
  BY <1>2 DEF DownOK

\* What an outcome sequence holds.
LEMMA HoldsVals ==
    ASSUME NEW m \in Seq(OutcomeType), NEW c
    PROVE  Plain(m, c) \subseteq Hold(m) /\ Vals(m, c) \subseteq Hold(m)
<1>1. Open(m, c) \subseteq DOMAIN m /\ DOMAIN m = 1 .. Len(m) /\ Len(m) \in Nat
  BY DEF Open
<1>2. Plain(m, c) \subseteq Hold(m)
  BY <1>1 DEF Plain, Hold
<1>3. ASSUME TornAt(m, c) PROVE None \in Hold(m)
  <2>1. PICK i \in Open(m, c) : i - 1 \in Open(m, c) /\ m[i].op = "Write"
    BY <1>3 DEF TornAt
  <2>2. i \in 1 .. Len(m) /\ i - 1 \in 1 .. Len(m)
    BY <1>1, <2>1
  <2>3. i \in 2 .. Len(m)
    BY <1>1, <2>2
  <2> QED
    BY <2>1, <2>3 DEF Hold
<1> QED
  BY <1>2, <1>3 DEF Vals

\* The power fails: of the records below c those that are kept survive, and
\* perhaps earlier ones.
LEMMA KeyLost ==
    ASSUME NEW R, NEW K, NEW m, NEW D, NEW f, NEW h, NEW d \in Nat, NEW n \in Nat, NEW p,
           KeyOK(R, K, m, D, f, h, d, n, p), NEW c \in d .. n,
           NEW S, S \subseteq R, \A r \in S : r.seq < c, \A r \in K : r.seq < c => r \in S,
           \A r \in S, q \in R \ S : q.seq < r.seq \/ q.seq >= c,
           NEW M, Hold(m) \subseteq M, h.held # {} => h.val \in M,
           \A v : Pending(h, v) => v \in M
    PROVE  DownOK(S, M, D)
<1>0. c \in Nat
  OBVIOUS
<1>1. RecordsOK(R) /\ CutOK(R, K, m, D, h, c) /\ m \in Seq(OutcomeType)
  BY DEF KeyOK, LogOK, DataOK
<1>2. \A q \in R : q.seq \in Nat
  BY <1>1, RecordNumbers
<1>3. PICK B : B = {r \in R : r.seq < c}
  OBVIOUS
<1>4. RecordsOK(B) /\ Live(B, c) = Live(R, c)
  BY <1>0, <1>1, <1>3, RecordsBelow
<1>5. S \subseteq B /\ \A r \in S, q \in B \ S : q.seq < r.seq
  BY <1>0, <1>2, <1>3
<1>6. /\ RecordsOK(S) /\ Final(S) = Final(B) \intersect S
      /\ \A r : IsLast(r, Final(S)) => IsLast(r, Final(B))
  BY <1>4, <1>5, RecordsShrink
<1>7. Final(B) = Live(R, c)
  <2>1. \A r \in B : r.seq < c
    BY <1>3
  <2> QED
    BY <1>0, <1>4, <2>1, FinalIsLive
<1>8. ASSUME NEW r \in S, IsLast(r, Final(S)) PROVE r.val \in M
  <2>1. r \in R /\ IsLast(r, Live(R, c))
    BY <1>6, <1>7, <1>8
  <2>2. Own(h, r) \/ r.val \in Plain(m, c)
    BY <1>1, <2>1 DEF CutOK
  <2>3. CASE Own(h, r)
    <3>1. h.held # {} /\ r.val = h.val
      BY <2>1, <2>3 DEF KeyOK, LogOK, Own
    <3> QED
      BY <3>1
  <2>4. CASE r.val \in Plain(m, c)
    BY <1>1, <2>4, HoldsVals
  <2> QED
    BY <2>2, <2>3, <2>4
<1>9. ASSUME NEW v \in D PROVE v \in M \/ \E r \in Final(S) : Accepts(r, v)
  <2>1. Backed(R, K, m, c, v) \/ Pending(h, v)
    BY <1>1 DEF CutOK
  <2>2. CASE Pending(h, v)
    BY <2>2
  <2>3. ASSUME NEW r \in Live(R, c) \intersect K, Accepts(r, v)
        PROVE  \E q \in Final(S) : Accepts(q, v)
    <3>1. r \in S
      BY DEF Live
    <3> QED
      BY <1>6, <1>7, <2>3, <3>1
  <2>4. CASE v \in Vals(m, c)
    BY <1>1, <2>4, HoldsVals
  <2> QED
    BY <2>1, <2>2, <2>3, <2>4 DEF Backed
<1> QED
  BY <1>6, <1>8, <1>9 DEF DownOK

\* The log is open again, with nothing in it.
LEMMA KeyFresh ==
    ASSUME NEW f \in Contents, NEW d \in Nat, NEW n \in Nat \ {0}, NEW p, NEW m,
           m = <<[seq |-> 0, val |-> f, op |-> None]>>
    PROVE  KeyOK({}, {}, m, {f}, f, Idle, d, n, p)
<1>1. /\ m \in Seq(OutcomeType) /\ m # <<>> /\ Len(m) = 1 /\ m[1].seq = 0 /\ m[1].val = f
      /\ 1 .. 1 = {1}
  BY DEF OutcomeType
<1>2. \A c : Open(m, c) = {1}
  BY <1>1 DEF Open
<1>3. \A c : Plain(m, c) = {f} /\ Vals(m, c) = {f}
  BY <1>1, <1>2 DEF Plain, Vals, TornAt
<1>4. Below(m, n)
  BY <1>1 DEF Below
<1>5. LogOK({}, {}, Idle, n)
  BY DEF LogOK, RecordsOK, Idle
<1>6. \A c : CutOK({}, {}, m, {f}, Idle, c)
  BY <1>3 DEF CutOK, Backed
<1>7. ~ Inserting(Idle)
  BY DEF Inserting, Idle
<1> QED
  BY <1>1, <1>3, <1>4, <1>5, <1>6, <1>7 DEF KeyOK, DataOK

\* What applies before a record that applies.
LEMMA FinalBefore ==
    ASSUME NEW R, RecordsOK(R), NEW r \in Final(R), NEW p \in Final(R), p.seq < r.seq,
           \A q \in Final(R) : q.seq < r.seq => q.seq <= p.seq
    PROVE  Accepts(r, p.val)
<1>1. \A q \in R : q.seq \in Nat /\ (q.op = "Cancel" => q.val \in Nat /\ q.val < q.seq)
  BY RecordNumbers
<1>2. r \in R /\ r.op # "Cancel" /\ p \in R /\ p.op # "Cancel"
  BY DEF Final
<1>3. ASSUME NEW q \in Live(R, r.seq) PROVE q \in Final(R) /\ q.seq < r.seq
  <2>1. q \in R /\ q.op # "Cancel" /\ q.seq < r.seq /\ ~ Gone(R, q, r.seq)
    BY DEF Live
  <2>2. ASSUME NEW x \in R, x.op = "Cancel", x.val = q.seq PROVE FALSE
    <3>1. x.seq < r.seq
      BY <1>2, <2>1, <2>2 DEF RecordsOK
    <3> QED
      BY <2>1, <2>2, <3>1 DEF Gone
  <2> QED
    BY <2>1, <2>2 DEF Final
<1>4. p \in Live(R, r.seq)
  BY <1>2 DEF Live, Final, Gone
<1>5. IsLast(p, Live(R, r.seq))
  BY <1>3, <1>4 DEF IsLast
<1> QED
  BY <1>2, <1>5 DEF RecordsOK

\* apply, for a record that applies.
LEMMA AppliesAccepts ==
    ASSUME NEW r, IsRecord(r), r.op # "Cancel", NEW v
    PROVE  apply(v, r) = IF Accepts(r, v) THEN r.val ELSE v
BY DEF apply, Accepts, IsRecord

\* Replaying the records of L, of which those of R are one key's.
LEMMA KeyReplays ==
    ASSUME NEW R, NEW M, NEW D, DownOK(R, M, D), NEW f \in D, NEW N \in Nat, NEW L, NEW e,
           \A r \in R : \E i \in 1 .. N : L[i] = r,
           \A i \in 1 .. N : L[i].seq \in Nat,
           \A i, j \in 1 .. N : i < j => L[i].seq < L[j].seq,
           e[0] = f,
           \A n \in 1 .. N : e[n] = IF L[n] \in Final(R) THEN apply(e[n - 1], L[n]) ELSE e[n - 1]
    PROVE  /\ e[N] \in M
           /\ \/ e[N] = f /\ \A r \in Final(R) : ~ Accepts(r, f)
              \/ \E r \in Final(R) : e[N] = r.val
           /\ \A n \in 0 .. N : e[n] = f \/ \E r \in Final(R) : e[n] = r.val
           /\ \A n \in 0 .. N : e[n] \in M \/ \E r \in Final(R) : Accepts(r, e[n])
<1> DEFINE U(n) == {r \in Final(R) : \E i \in 1 .. n : L[i] = r}
           P(n) == \/ e[n] = f /\ \A r \in U(n) : ~ Accepts(r, f)
                   \/ \E r \in U(n) : e[n] = r.val /\ \A q \in U(n) : q.seq <= r.seq
           G == {n \in 0 .. N : P(n)}
<1>0. RecordsOK(R) /\ Final(R) \subseteq R
  BY DEF DownOK, Final
<1>00. ASSUME NEW r \in Final(R) PROVE r.seq \in Nat /\ IsRecord(r) /\ r.op # "Cancel"
  BY <1>0 DEF RecordsOK, IsRecord, Final
<1>1. 0 \in G
  <2>1. U(0) = {}
    OBVIOUS
  <2> QED
    BY <2>1
<1>2. ASSUME NEW n \in 1 .. N, n - 1 \in G PROVE n \in G
  <2>1. PICK r : r = L[n]
    OBVIOUS
  <2>2. n - 1 \in 0 .. N /\ P(n - 1) /\ 1 .. n = (1 .. n - 1) \union {n}
    BY <1>2
  <2>3. U(n) = U(n - 1) \union ({r} \intersect Final(R))
    <3>1. ASSUME NEW q \in U(n) PROVE q \in U(n - 1) \/ (q = r /\ q \in Final(R))
      <4>1. q \in Final(R) /\ \E i \in 1 .. n : L[i] = q
        OBVIOUS
      <4>2. PICK i \in 1 .. n : L[i] = q
        BY <4>1
      <4> QED
        BY <4>1, <4>2, <2>1, <2>2
    <3>2. ASSUME NEW q \in U(n - 1) PROVE q \in U(n)
      BY <2>2
    <3>3. r \in Final(R) => r \in U(n)
      BY <2>1
    <3> HIDE DEF U
    <3> QED
      BY <3>1, <3>2, <3>3
  <2>4. CASE r \notin Final(R)
    <3>1. e[n] = e[n - 1] /\ U(n) = U(n - 1)
      <4> HIDE DEF U
      <4> QED
        BY <2>1, <2>3, <2>4
    <3> HIDE DEF U
    <3> QED
      BY <2>2, <3>1
  <2>5. CASE r \in Final(R)
    <3>1. \A q \in U(n - 1) : q \in Final(R) /\ q.seq < r.seq
      <4> TAKE q \in U(n - 1)
      <4>1. PICK i \in 1 .. n - 1 : L[i] = q
        OBVIOUS
      <4>2. i \in 1 .. N /\ i < n
        BY <4>1
      <4>3. L[i].seq < L[n].seq
        BY <4>2
      <4> QED
        BY <2>1, <4>1, <4>3
    <3>2. U(n) = U(n - 1) \union {r}
      <4> HIDE DEF U
      <4> QED
        BY <2>3, <2>5
    <3>3. e[n] = IF Accepts(r, e[n - 1]) THEN r.val ELSE e[n - 1]
      BY <1>00, <2>1, <2>5, AppliesAccepts
    <3>4. \A q \in Final(R) : q.seq < r.seq => q \in U(n - 1)
      <4> SUFFICES ASSUME NEW q \in Final(R), q.seq < r.seq PROVE q \in U(n - 1)
        OBVIOUS
      <4>1. PICK i \in 1 .. N : L[i] = q
        BY <1>0
      <4>2. ~ (i > n) /\ i # n
        <5>1. L[i].seq \in Nat /\ L[n].seq \in Nat /\ L[i].seq < L[n].seq
          BY <2>1, <4>1
        <5>2. i > n => L[n].seq < L[i].seq
          OBVIOUS
        <5> QED
          BY <5>1, <5>2
      <4>3. i \in 1 .. n - 1
        BY <4>2
      <4> QED
        BY <4>1, <4>3
    <3>5. \A q \in U(n) : q.seq <= r.seq
      <4> HIDE DEF U
      <4> QED
        BY <1>00, <2>5, <3>1, <3>2
    <3> HIDE DEF U
    <3>6. CASE Accepts(r, e[n - 1])
      BY <3>2, <3>3, <3>5, <3>6
    <3>7. CASE ~ Accepts(r, e[n - 1])
      <4>1. e[n] = e[n - 1]
        BY <3>3, <3>7
      <4>2. ASSUME NEW p \in U(n - 1), e[n - 1] = p.val, \A q \in U(n - 1) : q.seq <= p.seq
            PROVE  FALSE
        <5>1. p \in Final(R) /\ p.seq < r.seq /\ \A q \in Final(R) : q.seq < r.seq => q.seq <= p.seq
          BY <3>1, <3>4, <4>2
        <5>2. Accepts(r, p.val)
          BY <1>0, <2>5, <5>1, FinalBefore
        <5> QED
          BY <3>7, <4>2, <5>2
      <4>3. e[n - 1] = f /\ \A q \in U(n - 1) : ~ Accepts(q, f)
        BY <2>2, <4>2
      <4> QED
        BY <3>2, <3>7, <4>1, <4>3
    <3> QED
      BY <3>6, <3>7
  <2> QED
    BY <2>4, <2>5
<1>3. \A n \in 0 .. N : n \in G
  <2> HIDE DEF G
  <2> QED BY <1>1, <1>2, IntervalInduction
<1>4. ASSUME NEW n \in 0 .. N PROVE P(n)
  <2>1. n \in G
    <3> HIDE DEF G
    <3> QED BY <1>3
  <2> QED
    BY <2>1
<1>5. U(N) = Final(R)
  BY <1>0
<1>6. N \in 0 .. N
  OBVIOUS
<1>7. \A n \in 0 .. N : U(n) \subseteq Final(R)
  OBVIOUS
<1>8. e[N] \in M
  <2>1. P(N)
    BY <1>4, <1>6
  <2> HIDE DEF U
  <2>2. CASE e[N] = f /\ \A r \in U(N) : ~ Accepts(r, f)
    BY <1>5, <2>2 DEF DownOK
  <2>3. ASSUME NEW r \in U(N), e[N] = r.val, \A q \in U(N) : q.seq <= r.seq PROVE e[N] \in M
    <3>1. r \in R /\ IsLast(r, Final(R))
      BY <1>0, <1>5, <2>3 DEF IsLast
    <3> QED
      BY <2>3, <3>1 DEF DownOK
  <2> QED
    BY <2>1, <2>2, <2>3
<1>80. \/ e[N] = f /\ \A r \in Final(R) : ~ Accepts(r, f)
       \/ \E r \in Final(R) : e[N] = r.val
  <2>1. P(N)
    BY <1>4, <1>6
  <2> HIDE DEF U
  <2> QED
    BY <1>5, <2>1
<1>9. ASSUME NEW n \in 0 .. N PROVE e[n] = f \/ \E r \in Final(R) : e[n] = r.val
  <2>1. P(n)
    BY <1>4
  <2> HIDE DEF U
  <2> QED
    BY <1>7, <2>1
<1>10. ASSUME NEW r \in Final(R) PROVE r.val \in M \/ \E q \in Final(R) : Accepts(q, r.val)
  <2> DEFINE W == {q.seq : q \in {x \in Final(R) : x.seq > r.seq}}
  <2>1. CASE W = {}
    <3>1. \A q \in Final(R) : ~ (q.seq > r.seq)
      BY <2>1
    <3>2. IsLast(r, Final(R)) /\ r \in R
      BY <1>0, <1>00, <3>1 DEF IsLast
    <3> QED
      BY <3>2 DEF DownOK
  <2>2. CASE W # {}
    <3>1. W \subseteq Nat
      BY <1>00
    <3>2. PICK s \in W : \A x \in W : s <= x
      <4> HIDE DEF W
      <4> QED BY <2>2, <3>1, LeastNatural
    <3>3. PICK q \in Final(R) : q.seq = s /\ q.seq > r.seq
      BY <3>2
    <3>4. ASSUME NEW x \in Final(R), x.seq < q.seq PROVE x.seq <= r.seq
      <4>1. x.seq > r.seq => x.seq \in W
        OBVIOUS
      <4>2. x.seq > r.seq => q.seq <= x.seq
        BY <3>2, <3>3, <4>1
      <4> QED
        BY <1>00, <3>4, <4>2
    <3>5. r.seq < q.seq
      BY <1>00, <3>3
    <3>6. Accepts(q, r.val)
      BY <1>0, <3>3, <3>4, <3>5, FinalBefore
    <3> QED
      BY <3>3, <3>6
  <2> QED
    BY <2>1, <2>2
<1>11. ASSUME NEW n \in 0 .. N PROVE e[n] \in M \/ \E r \in Final(R) : Accepts(r, e[n])
  <2>1. CASE e[n] = f
    BY <2>1 DEF DownOK
  <2>2. ASSUME NEW r \in Final(R), e[n] = r.val PROVE e[n] \in M \/ \E q \in Final(R) : Accepts(q, e[n])
    BY <1>10, <2>2
  <2> QED
    BY <1>9, <2>1, <2>2
<1> QED
  BY <1>8, <1>80, <1>9, <1>11

-----------------------------------------------------------------------------
(* The records that replay reads.                                          *)

\* Two runs of consecutive numbers in a row.
LEMMA ConsecutiveConcat ==
    ASSUME NEW S, \A r \in S : r.seq \in Nat, NEW a \in Seq(S), NEW b \in Seq(S),
           Consecutive(a), Consecutive(b), b[1].seq = Last(a).seq + 1
    PROVE  Consecutive(a \o b) /\ Last(a \o b) = Last(b)
<1>1. PICK e : e = a \o b
  OBVIOUS
<1>2. /\ Len(e) = Len(a) + Len(b) /\ Len(a) \in Nat /\ Len(b) \in Nat
      /\ \A i \in 1 .. Len(a) : e[i] = a[i]
      /\ \A i \in 1 .. Len(b) : e[Len(a) + i] = b[i]
      /\ Len(a) > 0 /\ Len(b) > 0 /\ e # <<>>
  BY <1>1 DEF Consecutive
<1>3. PICK x \in Nat, y \in Nat, l \in Nat, m \in Nat :
          x = a[1].seq /\ y = b[1].seq /\ l = Len(a) /\ m = Len(b)
  BY <1>2
<1>4. y = x + l /\ e[1] = a[1]
  <2>1. a[l].seq = x + (l - 1) /\ Last(a) = a[l]
    BY <1>2, <1>3 DEF Consecutive, Last
  <2> QED
    BY <1>2, <1>3, <2>1
<1>5. ASSUME NEW j \in 1 .. Len(e) PROVE e[j].seq = x + (j - 1)
  <2>1. CASE j <= l
    BY <1>2, <1>3, <2>1 DEF Consecutive
  <2>2. CASE j > l
    <3>0. j \in 1 .. l + m
      BY <1>2, <1>3
    <3>1. j - l \in 1 .. m /\ l + (j - l) = j /\ y + ((j - l) - 1) = x + (j - 1)
      BY <1>4, <2>2, <3>0
    <3>2. e[j] = b[j - l]
      BY <1>2, <1>3, <3>1
    <3>3. b[j - l].seq = y + ((j - l) - 1)
      BY <1>3, <3>1 DEF Consecutive
    <3> QED
      BY <3>1, <3>2, <3>3
  <2> QED
    BY <1>2, <1>3, <2>1, <2>2
<1>6. Last(e) = Last(b)
  BY <1>2 DEF Last
<1> QED
  BY <1>1, <1>2, <1>3, <1>4, <1>5, <1>6 DEF Consecutive

\* A linked chain, flattened, numbers its records without a gap.
LEMMA FlatChain ==
    ASSUME NEW S, \A r \in S : r.seq \in Nat, NEW c \in Seq(Seq(S)), Linked(c)
    PROVE  /\ FlattenSeq(c) \in Seq(S) /\ Of(FlattenSeq(c)) = Recs(c)
           /\ FlattenSeq(c) # <<>> => Consecutive(FlattenSeq(c))
<1>0. Len(c) \in Nat /\ \A i \in 1 .. Len(c) : c[i] \in Seq(S) /\ Consecutive(c[i])
  BY DEF Linked
<1>1. CASE Len(c) = 0
  <2>1. c = <<>>
    BY <1>1
  <2>2. FlattenSeq(c) = <<>>
    BY <1>1, <2>1 DEF FlattenSeq
  <2>3. <<>> \in Seq(S) /\ Of(<<>>) = Recs(c)
    BY <2>1, EmptyRecords
  <2> QED
    BY <2>2, <2>3
<1>2. CASE Len(c) # 0
  <2> DEFINE N == Len(c)
             g == [x \in (1 .. N) \X Seq(S) |-> IF x[1] = 1 THEN c[x[1]] ELSE x[2] \o c[x[1]]]
  <2>0. N \in Nat /\ N \in 1 .. N
    BY <1>0, <1>2
  <2>1. \A n \in 1 .. N, s \in Seq(S) : /\ <<n, s>> \in (1 .. N) \X Seq(S)
                                        /\ g[<<n, s>>] = IF n = 1 THEN c[n] ELSE s \o c[n]
    OBVIOUS
  <2>2. \A n \in 1 .. N, s \in Seq(S) : g[<<n, s>>] \in Seq(S)
    <3> HIDE DEF g
    <3> SUFFICES ASSUME NEW n \in 1 .. N, NEW s \in Seq(S) PROVE g[<<n, s>>] \in Seq(S)
      OBVIOUS
    <3>1. c[n] \in Seq(S) /\ s \o c[n] \in Seq(S)
      BY <1>0
    <3> QED
      BY <2>1, <3>1
  <2>3. <<>> \in Seq(S)
    OBVIOUS
  <2>4. PICK f : Recursion(f, N, Seq(S), <<>>, g)
    <3> HIDE DEF g, N
    <3> QED
      BY <2>0, <2>2, <2>3, RecursionExists
  <2> DEFINE e == [i \in 1 .. N |-> f[i]]
             Body(x) == [i \in 1 .. N |-> IF i = 1 THEN c[i] ELSE x[i - 1] \o c[i]]
  <2>5. \A i \in 1 .. N : e[i] = IF i = 1 THEN c[i] ELSE e[i - 1] \o c[i]
    <3> TAKE i \in 1 .. N
    <3>0. i - 1 \in 0 .. N
      BY <2>0
    <3>1. f[i - 1] \in Seq(S) /\ f[i] = g[<<i, f[i - 1]>>]
      <4> HIDE DEF g, N
      <4> QED
        BY <2>4, <3>0 DEF Recursion
    <3>2. f[i] = IF i = 1 THEN c[i] ELSE f[i - 1] \o c[i]
      <4> HIDE DEF g, N
      <4> QED
        BY <2>1, <3>1
    <3>3. i # 1 => e[i - 1] = f[i - 1]
      BY <2>0
    <3> QED
      BY <3>2, <3>3
  <2>6. e = Body(e)
    <3> HIDE DEF e
    <3>1. DOMAIN e = 1 .. N /\ e = [i \in 1 .. N |-> e[i]]
      BY DEF e
    <3> QED
      BY <2>5, <3>1
  <2>7. PICK t : t = Body(t) /\ FlattenSeq(c) = t[N]
    <3>1. PICK t : t = CHOOSE x : x = Body(x)
      OBVIOUS
    <3>2. t = Body(t)
      <4> HIDE DEF e, Body
      <4> QED
        BY <2>6, <3>1
    <3>3. FlattenSeq(c) = t[N]
      BY <1>2, <3>1 DEF FlattenSeq
    <3> QED
      BY <3>2, <3>3
  <2>8. \A i \in 1 .. N : t[i] = IF i = 1 THEN c[i] ELSE t[i - 1] \o c[i]
    BY <2>7
  <2> DEFINE Upto(n) == UNION {Of(c[i]) : i \in 1 .. n}
             G == {n \in 0 .. N : n # 0 => /\ t[n] \in Seq(S) /\ Consecutive(t[n])
                                           /\ Last(t[n]) = Last(c[n]) /\ Of(t[n]) = Upto(n)}
  <2>9. 0 \in G
    BY <2>0
  <2>10. ASSUME NEW n \in 1 .. N, n - 1 \in G PROVE n \in G
    <3>0. c[n] \in Seq(S) /\ Consecutive(c[n])
      BY <1>0
    <3>1. CASE n = 1
      <4>1. t[n] = c[n] /\ 1 .. n = {1}
        BY <2>8, <3>1
      <4>2. Upto(n) = Of(c[n])
        BY <3>1, <4>1
      <4> HIDE DEF Upto
      <4> QED
        BY <3>0, <4>1, <4>2
    <3>2. CASE n # 1
      <4>1. /\ t[n - 1] \in Seq(S) /\ Consecutive(t[n - 1]) /\ Last(t[n - 1]) = Last(c[n - 1])
            /\ Of(t[n - 1]) = Upto(n - 1)
        BY <2>10, <3>2
      <4>2. n - 1 \in 1 .. Len(c) - 1 /\ (n - 1) + 1 = n
        BY <2>0, <3>2
      <4>20. t[n] = t[n - 1] \o c[n]
        BY <2>8, <3>2
      <4>3. c[n][1].seq = Last(c[n - 1]).seq + 1
        BY <4>2 DEF Linked
      <4>4. PICK a \in Seq(S), b \in Seq(S) : a = t[n - 1] /\ b = c[n]
        BY <3>0, <4>1
      <4>5. Consecutive(a) /\ Consecutive(b) /\ b[1].seq = Last(a).seq + 1
        BY <3>0, <4>1, <4>3, <4>4
      <4>6. Consecutive(a \o b) /\ Last(a \o b) = Last(b)
        BY <4>5, ConsecutiveConcat
      <4>7. Of(a \o b) = Of(a) \union Of(b) /\ a \o b \in Seq(S)
        BY OfConcat
      <4>8. Upto(n) = Upto(n - 1) \union Of(c[n])
        <5>1. 1 .. n = (1 .. n - 1) \union {n}
          OBVIOUS
        <5> QED
          BY <5>1
      <4> HIDE DEF Upto
      <4>9. t[n] = a \o b /\ Of(a) = Upto(n - 1) /\ Of(b) = Of(c[n]) /\ Last(b) = Last(c[n])
        BY <4>1, <4>20, <4>4
      <4>10. t[n] \in Seq(S) /\ Consecutive(t[n]) /\ Last(t[n]) = Last(c[n]) /\ Of(t[n]) = Upto(n)
        <5> HIDE DEF G
        <5> QED
          BY <4>6, <4>7, <4>8, <4>9
      <4> QED
        BY <4>10
    <3> QED
      BY <3>1, <3>2
  <2>11. \A n \in 0 .. N : n \in G
    <3> HIDE DEF G
    <3> QED
      BY <2>0, <2>9, <2>10, IntervalInduction
  <2>12. N \in G /\ N # 0
    <3> HIDE DEF G
    <3> QED
      BY <1>2, <2>0, <2>11
  <2>13. Upto(N) = Recs(c)
    BY DEF Recs
  <2> QED
    BY <2>7, <2>12, <2>13
<1> QED
  BY <1>1, <1>2

-----------------------------------------------------------------------------
(* Every key through a restart.                                            *)

\* A cancel is of a record of its key.
CrossIn(X) ==
    /\ \A r \in X : r.key \in Key
    /\ \A q, r \in X : q.op = "Cancel" /\ q.val = r.seq => q.key = r.key

CrossInv ==
    /\ CrossIn(All)
    /\ \A w \in Writer, r \in All : r.seq \in task[w].held => r.key = task[w].key

DownKey(k) ==
    /\ file[k] \in disk[k] /\ disk[k] \subseteq Contents /\ may[k] \in Seq(OutcomeType)
    /\ DownOK(KeyIn(Recs(closed), k), Hold(may[k]), disk[k])
    /\ status \in {"applied", "flushed", "replayed"} => file[k] \in Hold(may[k])
    /\ disk[k] = {file[k]} \/ (status = "applied" /\ KeyIn(Recs(closed), k) # {})

DownInv == status # "up" => \A k \in Sure : DownKey(k)

\* The records are records, whatever became of their files.
RecInv == \A r \in All : IsRecord(r) /\ (status = "up" => r.seq < next_seq)

\* The files and what the device may have of them, suspect or not.
SaneInv ==
    \A k \in Key :
        /\ file[k] \in disk[k] /\ disk[k] \subseteq Contents
        /\ status # "up" => disk[k] = {file[k]} \/ (status = "applied" /\ KeyIn(Recs(closed), k) # {})

\* The contents of k along the replay.
LEMMA ReplayedIs ==
    ASSUME NEW k \in Key, NEW N \in Nat, N = Len(Left), file[k] \in Contents,
           \A n \in 1 .. N, v \in Contents : Applies(k, n) => apply(v, Left[n]) \in Contents
    PROVE  /\ Replayed(k)[0] = file[k]
           /\ \A n \in 1 .. N : Replayed(k)[n] = IF Applies(k, n) THEN apply(Replayed(k)[n - 1], Left[n])
                                                 ELSE Replayed(k)[n - 1]
<1> DEFINE g == [x \in (1 .. N) \X Contents |-> IF Applies(k, x[1]) THEN apply(x[2], Left[x[1]]) ELSE x[2]]
           Body(y) == [n \in 0 .. N |->
                          IF n = 0 THEN file[k]
                          ELSE IF Applies(k, n) THEN apply(y[n - 1], Left[n]) ELSE y[n - 1]]
<1>1. \A n \in 1 .. N, v \in Contents :
          g[<<n, v>>] = IF Applies(k, n) THEN apply(v, Left[n]) ELSE v
  OBVIOUS
<1>2. \A n \in 1 .. N, v \in Contents : g[<<n, v>>] \in Contents
  <2> HIDE DEF g
  <2> QED
    BY <1>1
<1>3. PICK f : Recursion(f, N, Contents, file[k], g)
  <2> HIDE DEF g
  <2> QED
    BY <1>2, RecursionExists
<1>4. \A n \in 1 .. N : f[n] = IF Applies(k, n) THEN apply(f[n - 1], Left[n]) ELSE f[n - 1]
  <2> TAKE n \in 1 .. N
  <2>0. n - 1 \in 0 .. N
    OBVIOUS
  <2> HIDE DEF g
  <2>1. f[n - 1] \in Contents /\ f[n] = g[<<n, f[n - 1]>>]
    BY <1>3, <2>0 DEF Recursion
  <2> QED
    BY <1>1, <2>1
<1>5. f = Body(f)
  <2>1. f[0] = file[k] /\ f = [n \in 0 .. N |-> f[n]]
    BY <1>3 DEF Recursion
  <2>2. \A n \in 0 .. N : n # 0 => n \in 1 .. N
    OBVIOUS
  <2>3. \A n \in 0 .. N : f[n] = IF n = 0 THEN file[k]
                                 ELSE IF Applies(k, n) THEN apply(f[n - 1], Left[n]) ELSE f[n - 1]
    BY <1>4, <2>1, <2>2
  <2> QED
    BY <2>1, <2>3
<1>6. PICK t : t = Body(t) /\ Replayed(k) = t
  <2>1. PICK t : t = CHOOSE y : y = Body(y)
    OBVIOUS
  <2>2. t = Body(t)
    <3> HIDE DEF Body
    <3> QED
      BY <1>5, <2>1
  <2>3. Replayed(k) = t
    BY <2>1 DEF Replayed
  <2> QED
    BY <2>2, <2>3
<1>7. t[0] = file[k]
  BY <1>6
<1>8. \A n \in 1 .. N : t[n] = IF Applies(k, n) THEN apply(t[n - 1], Left[n]) ELSE t[n - 1]
  BY <1>6
<1> QED
  BY <1>6, <1>7, <1>8

\* What is left, in order.
LEMMA LeftIs ==
    ASSUME NEW S, LogTyped(S), ChainInv, RestartInv, status # "up"
    PROVE  /\ Left \in Seq(S) /\ Of(Left) = Recs(closed) /\ All = Recs(closed)
           /\ \A i \in 1 .. Len(Left) : Left[i].seq \in Nat
           /\ \A i, j \in 1 .. Len(Left) : i < j => Left[i].seq < Left[j].seq
<1>1. /\ closed \in Seq(Seq(S)) /\ unlinked = <<>> /\ retiring.queue = <<>> /\ active = <<>>
      /\ \A r \in S : r.seq \in Nat
  BY DEF LogTyped, RestartInv, NotRetiring
<1>2. Past = closed
  BY <1>1, ConcatEmptySeq DEF Past
<1>3. Linked(closed)
  BY <1>2 DEF ChainInv
<1>4. PICK L : L = Left
  OBVIOUS
<1>5. L \in Seq(S) /\ Of(L) = Recs(closed) /\ (L # <<>> => Consecutive(L))
  BY <1>1, <1>3, <1>4, FlatChain DEF Left
<1>6. All = Recs(closed)
  BY <1>1, EmptyRecords DEF All
<1>7. \A i \in 1 .. Len(L) : L[i].seq \in Nat
  BY <1>1, <1>5
<1>8. \A i, j \in 1 .. Len(L) : i < j => L[i].seq < L[j].seq
  <2> SUFFICES ASSUME NEW i \in 1 .. Len(L), NEW j \in 1 .. Len(L), i < j PROVE L[i].seq < L[j].seq
    OBVIOUS
  <2>1. Len(L) \in Nat /\ L # <<>>
    BY <1>5
  <2>2. PICK a \in Nat : a = L[1].seq
    BY <1>7, <2>1
  <2>3. L[i].seq = a + (i - 1) /\ L[j].seq = a + (j - 1)
    BY <1>5, <2>1, <2>2 DEF Consecutive
  <2> QED
    BY <2>3
<1> QED
  BY <1>4, <1>5, <1>6, <1>7, <1>8

\* What replay makes of a key.
LEMMA ReplayOutcome ==
    ASSUME NEW S, LogTyped(S), ChainInv, RestartInv, CrossInv, DownInv, FilesTyped, replay_apply,
           NEW k \in Sure, NEW F, F = Final(KeyIn(Recs(closed), k))
    PROVE  /\ file'[k] \in Hold(may[k]) /\ file'[k] \in disk'[k]
           /\ \/ file'[k] = file[k] /\ \A r \in F : ~ Accepts(r, file[k])
              \/ \E r \in F : file'[k] = r.val
           /\ F = {} => disk'[k] = disk[k]
           /\ \A v \in disk'[k] : v \in {file[k], None} \/ \E r \in F : v = r.val
           /\ \A v \in disk'[k] : v \in Contents /\ (v \in Hold(may[k]) \/ \E r \in F : Accepts(r, v))
<1> USE DEF Sure
<1> DEFINE R == KeyIn(Recs(closed), k)
           N == Len(Left)
           M == Hold(may[k])
<1>1. /\ Left \in Seq(S) /\ Of(Left) = Recs(closed) /\ All = Recs(closed)
      /\ \A i \in 1 .. N : Left[i].seq \in Nat
      /\ \A i, j \in 1 .. N : i < j => Left[i].seq < Left[j].seq
  BY LeftIs DEF replay_apply
<1>2. N \in Nat /\ DOMAIN Left = 1 .. N /\ \A i \in 1 .. N : Left[i] \in Recs(closed)
  BY <1>1 DEF Of
<1>3. DownKey(k) /\ status = "down" /\ status' = "applied" /\ closed' = closed /\ may' = may
  BY DEF DownInv, replay_apply, logVars
<1>4. DownOK(R, M, disk[k]) /\ file[k] \in disk[k] /\ disk[k] \subseteq Contents /\ disk[k] = {file[k]}
  BY <1>3 DEF DownKey
<1>5. RecordsOK(R) /\ Final(R) \subseteq R
  BY <1>4 DEF DownOK, Final
<1>6. ASSUME NEW n \in 1 .. N PROVE Applies(k, n) <=> Left[n] \in Final(R)
  <2>1. PICK r : r = Left[n] /\ r \in Recs(closed)
    BY <1>2
  <2>2. r.seq \in Cancelled <=> \E q \in Recs(closed) : q.op = "Cancel" /\ q.val = r.seq
    <3>1. Cancelled = {q.val : q \in {x \in Of(Left) : x.op = "Cancel"}}
      BY <1>2 DEF Cancelled, Of
    <3> QED
      BY <1>1, <3>1
  <2>3. \A q \in Recs(closed) : q.op = "Cancel" /\ q.val = r.seq => q.key = r.key
    BY <1>1, <2>1 DEF CrossInv, CrossIn
  <2> QED
    BY <2>1, <2>2, <2>3 DEF Applies, Final, KeyIn
<1>7. \A r \in Final(R) : IsRecord(r) /\ r.op # "Cancel" /\ r.val \in Contents
  BY <1>5 DEF RecordsOK, IsRecord, Final
<1>8. \A n \in 1 .. N, v \in Contents : Applies(k, n) => apply(v, Left[n]) \in Contents
  <2> SUFFICES ASSUME NEW n \in 1 .. N, NEW v \in Contents, Applies(k, n) PROVE apply(v, Left[n]) \in Contents
    OBVIOUS
  <2>1. PICK r : r = Left[n] /\ r \in Final(R)
    BY <1>6
  <2>2. IsRecord(r) /\ r.op # "Cancel" /\ r.val \in Contents
    BY <1>7, <2>1
  <2>3. apply(v, r) = IF Accepts(r, v) THEN r.val ELSE v
    BY <2>2, AppliesAccepts
  <2> QED
    BY <2>1, <2>2, <2>3
<1>9. PICK e : e = Replayed(k)
  OBVIOUS
<1>10. /\ e[0] = file[k]
       /\ \A n \in 1 .. N : e[n] = IF Applies(k, n) THEN apply(e[n - 1], Left[n]) ELSE e[n - 1]
  <2>1. file[k] \in Contents
    BY <1>4
  <2> HIDE DEF R, M
  <2>2. PICK z \in Nat : z = N
    BY <1>2
  <2>3. /\ Replayed(k)[0] = file[k]
        /\ \A n \in 1 .. z : Replayed(k)[n] = IF Applies(k, n) THEN apply(Replayed(k)[n - 1], Left[n])
                                                 ELSE Replayed(k)[n - 1]
    BY <1>8, <2>1, <2>2, ReplayedIs
  <2> QED
    BY <1>9, <2>2, <2>3
<1>11. PICK L : L = Left
  OBVIOUS
<1>12. \A n \in 1 .. N : e[n] = IF L[n] \in Final(R) THEN apply(e[n - 1], L[n]) ELSE e[n - 1]
  BY <1>6, <1>10, <1>11
<1>13. \A r \in R : \E i \in 1 .. N : L[i] = r
  BY <1>1, <1>11 DEF KeyIn, Of
<1>14. /\ e[N] \in M
       /\ \/ e[N] = file[k] /\ \A r \in Final(R) : ~ Accepts(r, file[k])
          \/ \E r \in Final(R) : e[N] = r.val
       /\ \A n \in 0 .. N : e[n] = file[k] \/ \E r \in Final(R) : e[n] = r.val
       /\ \A n \in 0 .. N : e[n] \in M \/ \E r \in Final(R) : Accepts(r, e[n])
  <2>1. /\ \A i \in 1 .. N : L[i].seq \in Nat
        /\ \A i, j \in 1 .. N : i < j => L[i].seq < L[j].seq
    BY <1>1, <1>11
  <2> HIDE DEF R, M, N
  <2>2. PICK D, f : D = disk[k] /\ f = file[k]
    OBVIOUS
  <2>3. DownOK(R, M, D) /\ f \in D /\ N \in Nat /\ e[0] = f
    BY <1>2, <1>4, <1>10, <2>2
  <2>4. /\ e[N] \in M
        /\ \/ e[N] = f /\ \A r \in Final(R) : ~ Accepts(r, f)
           \/ \E r \in Final(R) : e[N] = r.val
        /\ \A n \in 0 .. N : e[n] = f \/ \E r \in Final(R) : e[n] = r.val
        /\ \A n \in 0 .. N : e[n] \in M \/ \E r \in Final(R) : Accepts(r, e[n])
    BY <1>12, <1>13, <2>1, <2>3, KeyReplays
  <2> QED
    BY <2>2, <2>4
<1>15. /\ file'[k] = e[N]
       /\ disk'[k] = IF \E n \in 1 .. N : Applies(k, n)
                     THEN disk[k] \union {e[n] : n \in 1 .. N} \union {None} ELSE disk[k]
  <2> HIDE DEF N
  <2> QED
    BY <1>2, <1>9 DEF replay_apply, N
<1>16. CASE \E n \in 1 .. N : Applies(k, n)
  <2>1. Final(R) # {} /\ disk'[k] = disk[k] \union {e[n] : n \in 1 .. N} \union {None}
    BY <1>6, <1>15, <1>16
  <2>2. None \in Contents /\ \E r \in Final(R) : Accepts(r, None)
    BY <2>1 DEF Accepts, Contents
  <2>3. N \in 1 .. N /\ \A n \in 1 .. N : n \in 0 .. N
    BY <1>2, <1>16
  <2>4. R # {}
    BY <1>5, <2>1
  <2> HIDE DEF R, M, N
  <2>5. \A v \in disk'[k] : v \in M \/ \E r \in Final(R) : Accepts(r, v)
    BY <1>4, <1>14, <2>1, <2>2, <2>3 DEF DownOK
  <2>6. \A v \in disk'[k] : v \in Contents
    BY <1>4, <1>7, <1>14, <2>1, <2>2, <2>3
  <2>7. \A v \in disk'[k] : v \in {file[k], None} \/ \E r \in Final(R) : v = r.val
    BY <1>4, <1>14, <2>1, <2>3
  <2>8. file'[k] \in disk'[k] /\ file'[k] \in M
    BY <1>14, <1>15, <2>1, <2>3
  <2>9. F = Final(R) /\ F # {}
    BY <2>1 DEF R
  <2>10. \/ file'[k] = file[k] /\ \A r \in F : ~ Accepts(r, file[k])
         \/ \E r \in F : file'[k] = r.val
    BY <1>14, <1>15, <2>9
  <2> QED
    BY <2>5, <2>6, <2>7, <2>8, <2>9, <2>10 DEF M
<1>17. CASE ~ \E n \in 1 .. N : Applies(k, n)
  <2>1. Final(R) = {}
    BY <1>5, <1>6, <1>11, <1>13, <1>17
  <2>2. e[N] = file[k]
    <3>1. N \in 0 .. N
      BY <1>2
    <3> HIDE DEF R, M, N
    <3> QED
      BY <1>14, <2>1, <3>1
  <2>3. file'[k] = file[k] /\ disk'[k] = disk[k] /\ file'[k] \in M /\ disk[k] = {file[k]}
    BY <1>4, <1>14, <1>15, <1>17, <2>2
  <2>4. F = {}
    BY <2>1
  <2> QED
    BY <1>4, <2>3, <2>4
<1> QED
  BY <1>16, <1>17

\* Whatever replay makes of a key, suspect or not.
LEMMA SaneReplays ==
    ASSUME NEW S, LogTyped(S), ChainInv, RestartInv, RecInv, SaneInv, replay_apply, NEW k \in Key
    PROVE  /\ file'[k] \in disk'[k] /\ disk'[k] \subseteq Contents
           /\ disk'[k] = {file'[k]} \/ KeyIn(Recs(closed), k) # {}
<1> DEFINE N == Len(Left)
<1>1. Left \in Seq(S) /\ Of(Left) = Recs(closed) /\ All = Recs(closed)
  BY LeftIs DEF replay_apply
<1>2. N \in Nat /\ DOMAIN Left = 1 .. N /\ \A i \in 1 .. N : Left[i] \in All
  BY <1>1 DEF Of
<1>3. file[k] \in Contents /\ disk[k] = {file[k]}
  BY DEF SaneInv, replay_apply
<1>4. \A n \in 1 .. N, v \in Contents : Applies(k, n) => apply(v, Left[n]) \in Contents
  <2> SUFFICES ASSUME NEW n \in 1 .. N, NEW v \in Contents, Applies(k, n) PROVE apply(v, Left[n]) \in Contents
    OBVIOUS
  <2>1. PICK r : r = Left[n] /\ r \in All /\ r.op # "Cancel"
    BY <1>2 DEF Applies
  <2>2. IsRecord(r) /\ r.val \in Contents
    BY <2>1 DEF RecInv, IsRecord
  <2>3. apply(v, r) = IF Accepts(r, v) THEN r.val ELSE v
    BY <2>1, <2>2, AppliesAccepts
  <2> QED
    BY <2>1, <2>2, <2>3
<1>5. PICK e : e = Replayed(k)
  OBVIOUS
<1>6. PICK z \in Nat : z = N
  BY <1>2
<1>7. /\ e[0] = file[k]
      /\ \A n \in 1 .. z : e[n] = IF Applies(k, n) THEN apply(e[n - 1], Left[n]) ELSE e[n - 1]
  <2>1. /\ Replayed(k)[0] = file[k]
        /\ \A n \in 1 .. z : Replayed(k)[n] = IF Applies(k, n) THEN apply(Replayed(k)[n - 1], Left[n])
                                                 ELSE Replayed(k)[n - 1]
    BY <1>3, <1>4, <1>6, ReplayedIs
  <2> QED
    BY <1>5, <2>1
<1>8. /\ file'[k] = e[z]
      /\ disk'[k] = IF \E n \in 1 .. z : Applies(k, n)
                    THEN disk[k] \union {e[n] : n \in 1 .. z} \union {None} ELSE disk[k]
  <2> HIDE DEF N
  <2> QED
    BY <1>2, <1>5, <1>6 DEF replay_apply, N
<1> HIDE DEF N
<1>9. CASE \E n \in 1 .. z : Applies(k, n)
  <2> DEFINE G == {n \in 0 .. z : e[n] \in Contents}
  <2>1. 0 \in G
    BY <1>3, <1>7
  <2>2. \A n \in 1 .. z : n - 1 \in G => n \in G
    BY <1>4, <1>6, <1>7
  <2>3. \A n \in 0 .. z : n \in G
    <3> HIDE DEF G
    <3> QED
      BY <2>1, <2>2, IntervalInduction
  <2>4. z \in 1 .. z /\ \A n \in 1 .. z : n \in 0 .. z
    BY <1>9
  <2>5. None \in Contents /\ disk'[k] = disk[k] \union {e[n] : n \in 1 .. z} \union {None}
    BY <1>8, <1>9 DEF Contents
  <2>6. \A n \in 1 .. z : e[n] \in Contents
    BY <2>3, <2>4
  <2>7. file'[k] \in disk'[k] /\ disk'[k] \subseteq Contents
    BY <1>3, <1>8, <2>4, <2>5, <2>6
  <2>8. PICK n \in 1 .. z : Applies(k, n)
    BY <1>9
  <2>9. Left[n] \in KeyIn(Recs(closed), k)
    BY <1>1, <1>2, <1>6, <2>8 DEF Applies, KeyIn
  <2> QED
    BY <2>7, <2>9
<1>10. CASE ~ \E n \in 1 .. z : Applies(k, n)
  <2> DEFINE G == {n \in 0 .. z : e[n] = file[k]}
  <2>1. 0 \in G
    BY <1>7
  <2>2. \A n \in 1 .. z : n - 1 \in G => n \in G
    BY <1>7, <1>10
  <2>3. \A n \in 0 .. z : n \in G
    <3> HIDE DEF G
    <3> QED
      BY <2>1, <2>2, IntervalInduction
  <2>4. e[z] = file[k]
    BY <2>3
  <2> QED
    BY <1>3, <1>8, <1>10, <2>4
<1> QED
  BY <1>9, <1>10

\* replay_apply.
LEMMA DownReplays ==
    ASSUME NEW S, LogTyped(S), ChainInv, RestartInv, CrossInv, DownInv, FilesTyped, replay_apply,
           NEW k \in Sure
    PROVE  DownKey(k)'
<1> USE DEF Sure
<1>1. DownKey(k) /\ status = "down" /\ status' = "applied" /\ closed' = closed /\ may' = may
  BY DEF DownInv, replay_apply, logVars
<1>2. PICK R, F, M : R = KeyIn(Recs(closed), k) /\ F = Final(R) /\ M = Hold(may[k])
  OBVIOUS
<1>3. /\ file'[k] \in M /\ file'[k] \in disk'[k]
      /\ \/ file'[k] = file[k] /\ \A r \in F : ~ Accepts(r, file[k])
         \/ \E r \in F : file'[k] = r.val
      /\ F = {} => disk'[k] = disk[k]
      /\ \A v \in disk'[k] : v \in Contents /\ (v \in M \/ \E r \in F : Accepts(r, v))
  BY <1>2, ReplayOutcome
<1>4. DownOK(R, M, disk'[k])
  BY <1>1, <1>2, <1>3 DEF DownKey, DownOK
<1>5. disk'[k] = {file'[k]} \/ R # {}
  <2>1. CASE F = {}
    BY <1>1, <1>3, <2>1 DEF DownKey
  <2>2. CASE F # {}
    BY <1>2, <2>2 DEF Final
  <2> QED
    BY <2>1, <2>2
<1>6. disk'[k] \subseteq Contents /\ may'[k] \in Seq(OutcomeType)
  BY <1>1, <1>3 DEF DownKey
<1> QED
  BY <1>1, <1>2, <1>3, <1>4, <1>5, <1>6 DEF DownKey

\* replay_flush.
LEMMA DownFlushes ==
    ASSUME NEW S, LogTyped(S), ChainInv, RestartInv, DownInv, FilesTyped, replay_flush, NEW k \in Sure
    PROVE  DownKey(k)'
<1> USE DEF Sure
<1> DEFINE R == KeyIn(Recs(closed), k)
           M == Hold(may[k])
<1>1. Left \in Seq(S) /\ Of(Left) = Recs(closed)
  BY LeftIs DEF replay_flush
<1>2. DownKey(k) /\ status = "applied" /\ status' = "flushed" /\ closed' = closed /\ may' = may /\ file' = file
  BY DEF DownInv, replay_flush, logVars
<1>3. DownOK(R, M, disk[k]) /\ file[k] \in disk[k] /\ disk[k] \subseteq Contents /\ file[k] \in M
  BY <1>2 DEF DownKey
<1>4. k \in Touched(Left) <=> R # {}
  <2>1. Touched(Left) = {r.key : r \in Of(Left)}
    BY <1>1 DEF Touched, Of
  <2> QED
    BY <1>1, <2>1 DEF KeyIn
<1>5. disk'[k] = IF k \in Touched(Left) THEN {file[k]} ELSE disk[k]
  BY DEF replay_flush
<1>6. disk[k] = {file[k]} \/ R # {}
  BY <1>2 DEF DownKey
<1>7. disk'[k] = {file[k]}
  BY <1>4, <1>5, <1>6
<1>8. DownOK(R, M, disk'[k])
  BY <1>3, <1>7 DEF DownOK
<1> QED
  BY <1>2, <1>3, <1>7, <1>8 DEF DownKey

\* replay_unlink.
LEMMA DownUnlinks ==
    ASSUME DownInv, FilesTyped, replay_unlink, NEW k \in Sure
    PROVE  DownKey(k)'
<1> USE DEF Sure
<1>1. /\ DownKey(k) /\ status = "flushed" /\ status' = "replayed" /\ closed' = <<>>
      /\ UNCHANGED <<may, file, disk>>
  BY DEF DownInv, replay_unlink
<1>2. disk[k] = {file[k]} /\ file[k] \in Contents /\ file[k] \in Hold(may[k])
  BY <1>1 DEF DownKey
<1>3. KeyIn(Recs(closed'), k) = {}
  BY <1>1, EmptyRecords DEF KeyIn
<1>4. DownOK({}, Hold(may[k]), {file[k]})
  BY <1>2 DEF DownOK, RecordsOK
<1> QED
  BY <1>1, <1>2, <1>3, <1>4 DEF DownKey

\* The log is open with nothing in it.
LEMMA DataFresh ==
    ASSUME TaskInv, FilesTyped, status = "up", active = <<>>, closed = <<>>, unlinked = <<>>,
           retiring = NotRetiring, \A t \in Task : task[t] = Idle,
           \A k \in Key : /\ file[k] \in Contents /\ disk[k] = {file[k]}
                          /\ may[k] = <<[seq |-> 0, val |-> file[k], op |-> None]>>
    PROVE  DataInv /\ CrossInv
<1> USE DEF Sure
<1>1. All = {} /\ Kept = {}
  BY EmptyRecords DEF All, Kept, Later, NotRetiring
<1>2. \A w \in Writer : task[w] = Idle
  BY DEF Task
<1>3. ASSUME NEW k \in Key PROVE KeyInv(k)
  <2>1. HolderIn(task, k) = Idle
    <3>1. \A w \in Writer : task[w].key # k
      BY <1>2, WalAssumption DEF Idle, Key
    <3> QED
      BY <3>1, NoHolder
  <2>2. KeyIn(All, k) = {} /\ KeyIn(Kept, k) = {}
    BY <1>1 DEF KeyIn
  <2>3. PICK f, m, d, n : f = file[k] /\ m = may[k] /\ d = durable_end /\ n = next_seq
    OBVIOUS
  <2>4. f \in Contents /\ d \in Nat /\ n \in Nat \ {0} /\ m = <<[seq |-> 0, val |-> f, op |-> None]>>
    BY <2>3 DEF TaskInv
  <2>5. KeyOK({}, {}, m, {f}, f, Idle, d, n, poisoned)
    BY <2>4, KeyFresh
  <2> QED
    BY <2>1, <2>2, <2>3, <2>5 DEF KeyInv
<1>4. BigInv
  BY <1>2 DEF BigInv, Cleared, Idle
<1>5. CrossInv
  BY <1>1 DEF CrossInv, CrossIn
<1> QED
  BY <1>3, <1>4, <1>5 DEF DataInv

LEMMA DataInitially == WalInit => DataInv /\ CrossInv /\ DownInv /\ SaneInv /\ RecInv
<1> SUFFICES ASSUME WalInit PROVE DataInv /\ CrossInv /\ DownInv /\ SaneInv /\ RecInv
  OBVIOUS
<1>1. TaskInv
  BY WalInitially
<1>2. FilesTyped
  BY DEF WalInit, FilesTyped
<1>3. \A t \in Task : task[t] = Idle
  BY DEF WalInit
<1>4. ASSUME NEW k \in Key
      PROVE  /\ file[k] \in Contents /\ disk[k] = {file[k]}
             /\ may[k] = <<[seq |-> 0, val |-> file[k], op |-> None]>>
  <2>1. file[k] \in Contents
    BY DEF WalInit, Contents, Key
  <2> QED
    BY <2>1 DEF WalInit
<1>5. DataInv /\ CrossInv
  BY <1>1, <1>2, <1>3, <1>4, DataFresh DEF WalInit
<1>6. SaneInv
  BY <1>4 DEF SaneInv, WalInit
<1>7. RecInv
  BY EmptyRecords DEF RecInv, All, WalInit, NotRetiring
<1> QED
  BY <1>5, <1>6, <1>7 DEF DownInv, WalInit

\* Reopen.
LEMMA DataReopens ==
    ASSUME TaskInv, TaskInv', RestartInv, ShapeInv, FilesTyped, SaneInv, Reopen
    PROVE  DataInv' /\ CrossInv' /\ DownInv' /\ SaneInv' /\ RecInv'
<1>1. /\ status = "replayed" /\ status' = "up"
      /\ UNCHANGED <<file, disk, active, closed, unlinked, retiring, task, poisoned>>
      /\ may' = [k \in Key |-> <<[seq |-> 0, val |-> file[k], op |-> None]>>]
  BY DEF Reopen, logVars, retireVars
<1>2. /\ active = <<>> /\ closed = <<>> /\ unlinked = <<>> /\ retiring = NotRetiring
      /\ \A t \in Task : task[t].pc = "idle"
  BY <1>1 DEF RestartInv
<1>3. \A t \in Task : task[t] = Idle
  BY <1>2 DEF ShapeInv, Shape, Task
<1>4. ASSUME NEW k \in Key PROVE file[k] \in Contents /\ disk[k] = {file[k]}
  BY <1>1 DEF SaneInv
<1>5. FilesTyped'
  BY <1>1 DEF FilesTyped
<1>6. /\ status' = "up" /\ active' = <<>> /\ closed' = <<>> /\ unlinked' = <<>>
      /\ retiring' = NotRetiring /\ \A t \in Task : task'[t] = Idle
  BY <1>1, <1>2, <1>3
<1>7. \A k \in Key : /\ file'[k] \in Contents /\ disk'[k] = {file'[k]}
                     /\ may'[k] = <<[seq |-> 0, val |-> file'[k], op |-> None]>>
  BY <1>1, <1>4
<1>8. All' = {} /\ Kept' = {}
  BY <1>6, EmptyRecords DEF All, Kept, Later, NotRetiring
<1>9. \A w \in Writer : task'[w] = Idle
  BY <1>6 DEF Task
<1>10. ASSUME NEW k \in Key PROVE KeyInv(k)'
  <2>1. HolderIn(task', k) = Idle
    <3>1. \A w \in Writer : task'[w].key # k
      BY <1>9, WalAssumption DEF Idle, Key
    <3> QED
      BY <3>1, NoHolder
  <2>2. KeyIn(All', k) = {} /\ KeyIn(Kept', k) = {}
    BY <1>8 DEF KeyIn
  <2>3. PICK f, m, d, n : f = file'[k] /\ m = may'[k] /\ d = durable_end' /\ n = next_seq'
    OBVIOUS
  <2>4. f \in Contents /\ d \in Nat /\ n \in Nat \ {0} /\ m = <<[seq |-> 0, val |-> f, op |-> None]>>
    BY <1>7, <2>3 DEF TaskInv
  <2>5. KeyOK({}, {}, m, {f}, f, Idle, d, n, poisoned')
    BY <2>4, KeyFresh
  <2> QED
    BY <1>7, <2>1, <2>2, <2>3, <2>5 DEF KeyInv
<1>11. BigInv'
  BY <1>9 DEF BigInv, Cleared, Idle
<1>12. CrossInv'
  BY <1>8 DEF CrossInv, CrossIn
<1>13. SaneInv'
  BY <1>6, <1>7 DEF SaneInv
<1>14. RecInv'
  BY <1>8 DEF RecInv
<1>15. \A k \in Sure' : k \in Key
  BY DEF Sure
<1> QED
  BY <1>5, <1>6, <1>10, <1>11, <1>12, <1>13, <1>14, <1>15 DEF DataInv, DownInv

-----------------------------------------------------------------------------
(* The power fails.                                                        *)

LEMMA NoneToSeq == SetToSeq({}) = <<>>
<1>1. Cardinality({}) = 0 /\ 1 .. 0 = {}
  BY FS_EmptySet
<1>2. PICK g : g = CHOOSE f \in [1 .. Cardinality({}) -> {}] : IsInjective(f)
  OBVIOUS
<1>3. \E f \in [1 .. Cardinality({}) -> {}] : IsInjective(f)
  <2>1. PICK f : f = [i \in {} |-> i]
    OBVIOUS
  <2>2. f \in [1 .. Cardinality({}) -> {}] /\ IsInjective(f)
    BY <1>1, <2>1 DEF IsInjective
  <2> QED
    BY <2>2
<1>4. g \in [1 .. 0 -> {}]
  BY <1>1, <1>2, <1>3
<1>5. g = <<>>
  BY <1>4
<1> QED
  BY <1>2, <1>5 DEF SetToSeq

LEMMA OneToSeq ==
    ASSUME NEW x
    PROVE  SetToSeq({x}) = <<x>>
<1>1. Cardinality({x}) = 1 /\ 1 .. 1 = {1}
  BY FS_Singleton
<1>2. PICK g : g = CHOOSE f \in [1 .. Cardinality({x}) -> {x}] : IsInjective(f)
  OBVIOUS
<1>3. \E f \in [1 .. Cardinality({x}) -> {x}] : IsInjective(f)
  <2>1. PICK f : f = [i \in {1} |-> x]
    OBVIOUS
  <2>2. f \in [1 .. Cardinality({x}) -> {x}] /\ IsInjective(f)
    BY <1>1, <2>1 DEF IsInjective
  <2> QED
    BY <2>2
<1>4. g \in [1 .. 1 -> {x}]
  BY <1>1, <1>2, <1>3
<1>5. g = <<x>>
  BY <1>4
<1> QED
  BY <1>2, <1>5 DEF SetToSeq

LEMMA HoldAppend ==
    ASSUME NEW m \in Seq(OutcomeType), NEW e \in OutcomeType
    PROVE  /\ m \o <<e>> \in Seq(OutcomeType) /\ Hold(m) \subseteq Hold(m \o <<e>>)
           /\ e.val \in Hold(m \o <<e>>)
<1>1. PICK a : a = m \o <<e>>
  OBVIOUS
<1>2. /\ a \in Seq(OutcomeType) /\ Len(a) = Len(m) + 1 /\ Len(m) \in Nat
      /\ DOMAIN m = 1 .. Len(m) /\ DOMAIN a = 1 .. Len(m) + 1
      /\ \A i \in 1 .. Len(m) : a[i] = m[i]
      /\ a[Len(m) + 1] = e
  BY <1>1
<1>3. Len(m) + 1 \in DOMAIN a /\ \A i \in 1 .. Len(m) : i \in DOMAIN a
  BY <1>2
<1>4. \A i \in 2 .. Len(m) : i \in 2 .. Len(a) /\ a[i] = m[i]
  BY <1>2
<1>5. \A v \in Hold(m) : v \in Hold(a)
  BY <1>2, <1>3, <1>4 DEF Hold
<1> QED
  BY <1>1, <1>2, <1>3, <1>5 DEF Hold

\* What was under way may have taken place.
LEMMA MayLost ==
    ASSUME TaskInv, ShapeInv, PowerLoss, NEW k \in Key, may[k] \in Seq(OutcomeType)
    PROVE  /\ may'[k] \in Seq(OutcomeType) /\ Hold(may[k]) \subseteq Hold(may'[k])
           /\ \A w \in Writer : task[w].key = k /\ Begun(w) => task[w].val \in Hold(may'[k])
<1> DEFINE cut == {w \in Writer : task[w].key = k /\ Begun(w)}
<1>1. may'[k] = may[k] \o SetToSeq({OutcomeOf(w, None) : w \in cut})
  BY DEF PowerLoss
<1>2. CASE cut = {}
  <2>1. {OutcomeOf(w, None) : w \in cut} = {}
    BY <1>2
  <2>2. may'[k] = may[k]
    BY <1>1, <2>1, NoneToSeq, ConcatEmptySeq
  <2> QED
    BY <1>2, <2>2
<1>3. CASE cut # {}
  <2>1. PICK w \in cut : TRUE
    BY <1>3
  <2>2. w \in Writer /\ task[w].key = k
    BY <2>1
  <2>3. \A u \in Writer : u # w => task[u].key # k
    BY <2>2, OneHolder
  <2>4. cut = {w}
    BY <2>1, <2>3
  <2>5. PICK e : e = OutcomeOf(w, None)
    OBVIOUS
  <2>6. {OutcomeOf(u, None) : u \in cut} = {e}
    <3> HIDE DEF cut
    <3> QED
      BY <2>4, <2>5
  <2>7. may'[k] = may[k] \o <<e>>
    BY <1>1, <2>6, OneToSeq
  <2>8. e \in OutcomeType /\ e.val = task[w].val
    <3>1. task[w] \in TaskState
      BY <2>2 DEF TaskInv, Task
    <3>2. task[w].val \in Contents /\ task[w].op \in Operation \union {None}
      BY <3>1 DEF TaskState
    <3>3. e = [seq |-> None, val |-> task[w].val, op |-> task[w].op]
      BY <2>5 DEF OutcomeOf
    <3> QED
      BY <3>2, <3>3 DEF OutcomeType
  <2>9. PICK m : m = may[k]
    OBVIOUS
  <2>10. /\ m \o <<e>> \in Seq(OutcomeType) /\ Hold(m) \subseteq Hold(m \o <<e>>)
         /\ e.val \in Hold(m \o <<e>>)
    BY <2>8, <2>9, HoldAppend
  <2> QED
    BY <2>4, <2>7, <2>8, <2>9, <2>10
<1> QED
  BY <1>2, <1>3

\* The segments a power loss leaves end the chain.
LEMMA SurvivorsSplit ==
    ASSUME NEW S, LogTyped(S), RestartInv, NEW old \in Survivors
    PROVE  /\ old \in Seq(Seq(S)) /\ \E p \in Seq(Seq(S)) : Past = p \o old
           /\ status # "flushed" => Recs(retiring.queue) \union Recs(closed) \subseteq Recs(old)
<1> DEFINE T == Seq(S)
           late == IF status = "flushed" THEN <<>> ELSE closed
           early == IF status = "flushed" THEN closed ELSE unlinked
<1>1. /\ closed \in Seq(T) /\ unlinked \in Seq(T) /\ retiring.queue \in Seq(T)
      /\ late \in Seq(T) /\ early \in Seq(T)
  BY DEF LogTyped
<1>2. PICK x \in Suffixes(early) : old = (x \o retiring.queue) \o late
  BY DEF Survivors
<1> HIDE DEF T, early, late
<1>3. x \in Seq(T) /\ \E p \in Seq(T) : early = p \o x
  BY <1>1, <1>2, SuffixSplits
<1>4. PICK p \in Seq(T) : early = p \o x
  BY <1>3
<1>5. Past = early \o (retiring.queue \o late)
  <2>1. CASE status = "flushed"
    <3>1. unlinked = <<>> /\ retiring.queue = <<>>
      BY <2>1 DEF RestartInv, NotRetiring
    <3>2. Past = closed
      BY <1>1, <3>1, ConcatEmptySeq DEF Past
    <3>3. retiring.queue \o late = <<>>
      BY <1>1, <2>1, <3>1, ConcatEmptySeq DEF late
    <3> QED
      BY <1>1, <2>1, <3>2, <3>3, ConcatEmptySeq DEF early
  <2>2. CASE status # "flushed"
    BY <2>2 DEF Past, early, late
  <2> QED
    BY <2>1, <2>2
<1>6. PICK q \in Seq(T) : q = retiring.queue
  BY <1>1
<1>7. old = x \o (q \o late) /\ q \o late \in Seq(T) /\ x \in Seq(T) /\ late \in Seq(T)
  <2>1. x \in Seq(T) /\ late \in Seq(T)
    BY <1>1, <1>3
  <2>2. (x \o q) \o late = x \o (q \o late)
    BY <2>1, ConcatAssociative
  <2> QED
    BY <1>2, <1>6, <2>1, <2>2, ConcatProperties
<1>8. old \in Seq(T)
  BY <1>7, ConcatProperties
<1>9. Past = p \o old
  <2> DEFINE z == q \o late
  <2>1. z \in Seq(T) /\ old = x \o z /\ Past = (p \o x) \o z
    BY <1>4, <1>5, <1>6, <1>7
  <2> HIDE DEF z
  <2>2. (p \o x) \o z = p \o (x \o z)
    BY <1>7, <2>1, ConcatAssociative
  <2> QED
    BY <2>1, <2>2
<1>10. Recs(old) = Recs(x) \union (Recs(q) \union Recs(late))
  <2>1. Recs(q \o late) = Recs(q) \union Recs(late)
    BY <1>7, RecsConcat
  <2>2. PICK z \in Seq(T) : z = q \o late
    BY <1>7
  <2>3. Recs(x \o z) = Recs(x) \union Recs(z)
    BY <1>7, RecsConcat
  <2> QED
    BY <1>7, <2>1, <2>2, <2>3
<1> QED
  BY <1>6, <1>8, <1>9, <1>10 DEF late, T

\* The records of what is left.
LEMMA LostRecords ==
    ASSUME NEW S, LogTyped(S), NEW old \in Seq(Seq(S)), NEW n \in 0 .. Len(active)
    PROVE  Recs(old \o Segments(SubSeq(active, 1, n))) = Recs(old) \union {active[i] : i \in 1 .. n}
<1>1. active \in Seq(S) /\ Len(active) \in Nat
  BY DEF LogTyped
<1>2. PICK a : a = SubSeq(active, 1, n)
  OBVIOUS
<1>3. a \in Seq(S) /\ Len(a) = n /\ \A i \in 1 .. n : a[i] = active[i]
  BY <1>1, <1>2, SubSeqProperties
<1>4. Of(a) = {active[i] : i \in 1 .. n}
  BY <1>3 DEF Of
<1>5. Segments(a) \in Seq(Seq(S)) /\ Recs(Segments(a)) = Of(a)
  <2>1. CASE a = <<>>
    <3>1. Segments(a) = <<>> /\ <<>> \in Seq(Seq(S))
      BY <2>1 DEF Segments
    <3> QED
      BY <2>1, <3>1, EmptyRecords
  <2>2. CASE a # <<>>
    <3>1. PICK d : d = <<a>>
      OBVIOUS
    <3>2. d \in Seq(Seq(S)) /\ Len(d) = 1 /\ d[1] = a /\ 1 .. 1 = {1}
      BY <1>3, <3>1
    <3>3. Recs(d) = Of(a)
      BY <3>2 DEF Recs
    <3> QED
      BY <2>2, <3>1, <3>2, <3>3 DEF Segments
  <2> QED
    BY <2>1, <2>2
<1>6. PICK T, s : T = Seq(S) /\ s = Segments(a)
  OBVIOUS
<1>7. Recs(old \o s) = Recs(old) \union Recs(s)
  BY <1>5, <1>6, RecsConcat
<1> QED
  BY <1>2, <1>4, <1>5, <1>6, <1>7

\* All records have been numbered.
LEMMA AllNumbered ==
    ASSUME RecInv, status = "up", NEW r \in All
    PROVE  r.seq \in Nat /\ r.seq < next_seq /\ (r.op = "Cancel" => r.val \in Nat /\ r.val < r.seq)
BY DEF RecInv, IsRecord

LEMMA AllIs ==
    ASSUME NEW S, LogTyped(S)
    PROVE  All = Recs(Past) \union Of(active)
<1>1. PICK T, q : T = Seq(S) /\ q = retiring.queue
  OBVIOUS
<1>2. q \in Seq(T) /\ closed \in Seq(T) /\ unlinked \in Seq(T) /\ q \o closed \in Seq(T)
  BY <1>1 DEF LogTyped
<1>3. Recs(q \o closed) = Recs(q) \union Recs(closed)
  BY <1>2, RecsConcat
<1>4. PICK z \in Seq(T) : z = q \o closed
  BY <1>2
<1>5. Recs(unlinked \o z) = Recs(unlinked) \union Recs(z)
  BY <1>2, RecsConcat
<1> QED
  BY <1>1, <1>3, <1>4, <1>5 DEF All, Past

\* Where the log is cut.
LEMMA LostCut ==
    ASSUME TaskInv, ShapeInv, NEW S, LogTyped(S), ChainInv, RecInv, status = "up",
           NEW n \in 0 .. Len(active), \A i \in n + 1 .. Len(active) : active[i].seq >= device_end
    PROVE  \E c \in durable_end .. next_seq :
              /\ \A i \in 1 .. Len(active) : active[i].seq \in Nat /\ (active[i].seq < c <=> i <= n)
              /\ \A r \in Recs(Past) : r.seq < c
<1>0. /\ active \in Seq(S) /\ Len(active) \in Nat /\ durable_end \in Nat /\ next_seq \in Nat
      /\ durable_end <= next_seq /\ device_end \in Nat /\ durable_end <= device_end
      /\ \A r \in S : r.seq \in Nat
  BY DEF LogTyped, TaskInv, ShapeInv
<1>1. All = Recs(Past) \union Of(active)
  BY AllIs
<1>2. \A i \in 1 .. Len(active) : active[i] \in All /\ active[i].seq \in Nat /\ active[i].seq < next_seq
  <2> TAKE i \in 1 .. Len(active)
  <2>1. active[i] \in All
    BY <1>1 DEF Of
  <2> QED
    BY <2>1, AllNumbered
<1>3. CASE n = Len(active)
  <2>1. \A r \in Recs(Past) : r.seq < next_seq
    BY <1>1, AllNumbered
  <2>2. next_seq \in durable_end .. next_seq
    BY <1>0
  <2>3. \A i \in 1 .. Len(active) : active[i].seq \in Nat /\ (active[i].seq < next_seq <=> i <= n)
    BY <1>2, <1>3
  <2> QED
    BY <2>1, <2>2, <2>3
<1>4. CASE n # Len(active)
  <2>1. PICK b : b = n + 1
    OBVIOUS
  <2>2. b \in 1 .. Len(active) /\ b \in n + 1 .. Len(active)
    BY <1>0, <1>4, <2>1
  <2>3. PICK c \in Nat : c = active[b].seq
    BY <1>2, <2>2
  <2>4. c >= device_end /\ c < next_seq
    BY <1>2, <2>2, <2>3
  <2>5. c \in durable_end .. next_seq
    BY <1>0, <2>4
  <2>6. active # <<>> /\ Consecutive(active)
    BY <2>2, <1>0 DEF ChainInv
  <2>7. \A i \in 1 .. Len(active) : active[i].seq \in Nat /\ (active[i].seq < c <=> i <= n)
    <3> TAKE i \in 1 .. Len(active)
    <3>1. 1 \in 1 .. Len(active)
      BY <1>0, <2>2
    <3>2. PICK a \in Nat : a = active[1].seq
      BY <1>2, <3>1
    <3>3. active[i].seq = a + (i - 1) /\ c = a + (b - 1)
      BY <2>2, <2>3, <2>6, <3>2 DEF Consecutive
    <3> QED
      BY <1>2, <2>1, <3>3
  <2>8. ASSUME NEW r \in Recs(Past) PROVE r.seq < c
    <3>1. active[b] \in Of(active)
      BY <2>2 DEF Of
    <3>2. PICK q, p, z : q = active[b] /\ p = Past /\ z = <<>>
      OBVIOUS
    <3>3. p \in Seq(Seq(S)) /\ z \in Seq(Seq(S)) /\ Past = p \o z
      BY <3>2, PastTyped, ConcatEmptySeq
    <3>4. r \in Recs(p) /\ q \in Recs(z) \union Of(active)
      BY <3>1, <3>2
    <3>5. r.seq < q.seq
      BY <3>3, <3>4, OrderedPast
    <3> QED
      BY <2>3, <3>2, <3>5
  <2> QED
    BY <2>5, <2>7, <2>8
<1> QED
  BY <1>3, <1>4

\* What a power loss leaves while the log is open.
LEMMA KeyLoses ==
    ASSUME TaskInv, RestartInv, ShapeInv, NEW S, LogTyped(S), ChainInv, DataInv, RecInv, status = "up",
           PowerLoss, NEW k \in Sure
    PROVE  DownOK(KeyIn(Recs(closed'), k), Hold(may'[k]), disk[k])
<1> USE DEF Sure
<1>1. PICK n \in 0 .. Len(active), old \in Survivors :
          /\ \A i \in n + 1 .. Len(active) : active[i].seq >= device_end
          /\ closed' = old \o Segments(SubSeq(active, 1, n))
  BY DEF PowerLoss
<1>2. PICK c \in durable_end .. next_seq :
          /\ \A i \in 1 .. Len(active) : active[i].seq \in Nat /\ (active[i].seq < c <=> i <= n)
          /\ \A r \in Recs(Past) : r.seq < c
  BY <1>1, LostCut
<1>3. /\ old \in Seq(Seq(S)) /\ \E p \in Seq(Seq(S)) : Past = p \o old
      /\ Recs(retiring.queue) \union Recs(closed) \subseteq Recs(old)
  BY SurvivorsSplit
<1>4. PICK p \in Seq(Seq(S)) : Past = p \o old
  BY <1>3
<1>5. Recs(Past) = Recs(p) \union Recs(old)
  BY <1>3, <1>4, RecsConcat
<1>6. Recs(closed') = Recs(old) \union {active[i] : i \in 1 .. n}
  BY <1>1, <1>3, LostRecords
<1>7. All = Recs(Past) \union Of(active)
  BY AllIs
<1>8. \A i \in 1 .. n : i \in 1 .. Len(active) /\ i <= n
  <2>1. Len(active) \in Nat
    BY DEF LogTyped
  <2> QED
    BY <2>1
<1>9. {active[i] : i \in 1 .. n} \subseteq Of(active)
  BY <1>8 DEF Of
<1>10. \A r \in Of(active) : r.seq \in Nat /\ (r.seq < c => r \in {active[i] : i \in 1 .. n})
  <2> TAKE r \in Of(active)
  <2>1. PICK i \in 1 .. Len(active) : r = active[i]
    BY DEF Of
  <2>2. r.seq < c => i \in 1 .. n
    BY <1>2, <2>1
  <2> QED
    BY <1>2, <2>1, <2>2
<1>11. Kept \subseteq Recs(retiring.queue) \union Recs(closed) \union Of(active)
  <2>1. Recs(Later) \subseteq Recs(retiring.queue)
    <3>1. CASE retiring.unlinking
      <4>1. PICK T, q : T = Seq(S) /\ q = retiring.queue
        OBVIOUS
      <4>2. q \in Seq(T) /\ q # <<>>
        BY <3>1, <4>1 DEF LogTyped, RestartInv
      <4>3. Recs(q) = Of(q[1]) \union Recs(Tail(q))
        BY <4>2, RecsTail
      <4> QED
        BY <3>1, <4>1, <4>3 DEF Later
    <3>2. CASE ~ retiring.unlinking
      BY <3>2 DEF Later
    <3> QED
      BY <3>1, <3>2
  <2> QED
    BY <2>1 DEF Kept
<1>12. PICK R, K, X, h, m, D, d, z, M :
          /\ R = KeyIn(All, k) /\ K = KeyIn(Kept, k) /\ X = KeyIn(Recs(closed'), k)
          /\ h = HolderIn(task, k) /\ m = may[k] /\ D = disk[k] /\ d = durable_end /\ z = next_seq
          /\ M = Hold(may'[k])
  OBVIOUS
<1>13. KeyOK(R, K, m, D, file[k], h, d, z, poisoned)
  BY <1>12 DEF DataInv, KeyInv
<1>14. d \in Nat /\ z \in Nat /\ c \in d .. z /\ c \in Nat
  BY <1>2, <1>12 DEF TaskInv
<1>15. X \subseteq R
  BY <1>5, <1>6, <1>7, <1>9, <1>12 DEF KeyIn
<1>16. \A r \in X : r.seq < c
  <2> TAKE r \in X
  <2>1. CASE r \in Recs(old)
    BY <1>2, <1>5, <2>1
  <2>2. ASSUME NEW i \in 1 .. n, r = active[i] PROVE r.seq < c
    BY <1>2, <1>8, <2>2
  <2> QED
    BY <1>6, <1>12, <2>1, <2>2 DEF KeyIn
<1>17. \A r \in K : r.seq < c => r \in X
  BY <1>3, <1>6, <1>10, <1>11, <1>12 DEF KeyIn
<1>18. ASSUME NEW r \in X, NEW q \in R \ X PROVE q.seq < r.seq \/ q.seq >= c
  <2>1. q \in Recs(p) \/ q \in Of(active)
    BY <1>5, <1>6, <1>7, <1>12 DEF KeyIn
  <2>2. CASE q \in Of(active)
    BY <1>6, <1>10, <1>12, <1>14, <2>2 DEF KeyIn
  <2>3. CASE q \in Recs(p)
    <3>1. r \in Recs(old) \union Of(active)
      BY <1>6, <1>9, <1>12 DEF KeyIn
    <3>2. q.seq < r.seq
      BY <1>3, <1>4, <2>3, <3>1, OrderedPast
    <3> QED
      BY <3>2
  <2> QED
    BY <2>1, <2>2, <2>3
<1>19. m \in Seq(OutcomeType)
  BY <1>13 DEF KeyOK, DataOK
<1>20. /\ Hold(m) \subseteq M
       /\ \A w \in Writer : task[w].key = k /\ Begun(w) => task[w].val \in M
  BY <1>12, <1>19, MayLost
<1>21. (h.held # {} => h.val \in M) /\ \A v : Pending(h, v) => v \in M
  <2>1. CASE \E w \in Writer : task[w].key = k
    <3>1. PICK w \in Writer : task[w].key = k
      BY <2>1
    <3>2. h = task[w]
      BY <1>12, <3>1, OneHolder
    <3>3. Shape(h)
      BY <3>2 DEF ShapeInv
    <3>4. ASSUME NEW v, Pending(h, v) PROVE Begun(w) /\ v = h.val
      BY <3>2, <3>3, <3>4 DEF Pending, Inserting, Shape, Begun
    <3>5. h.held # {} => Begun(w)
      BY <3>2 DEF Begun
    <3> QED
      BY <1>20, <3>1, <3>2, <3>4, <3>5
  <2>2. CASE ~ \E w \in Writer : task[w].key = k
    <3>1. h = Idle
      BY <1>12, <2>2, NoHolder
    <3> QED
      BY <3>1 DEF Idle, Pending, Inserting
  <2> QED
    BY <2>1, <2>2
<1>22. DownOK(X, M, D)
  BY <1>13, <1>14, <1>15, <1>16, <1>17, <1>18, <1>20, <1>21, KeyLost
<1> QED
  BY <1>12, <1>22

LEMMA DownMono ==
    ASSUME NEW R, NEW M, NEW D, DownOK(R, M, D), NEW N, M \subseteq N, NEW E, E \subseteq D
    PROVE  DownOK(R, N, E)
BY DEF DownOK

\* What is left after a power loss was there.
LEMMA LostWithin ==
    ASSUME NEW S, LogTyped(S), RestartInv, PowerLoss
    PROVE  Recs(closed') \subseteq All
<1>1. PICK n \in 0 .. Len(active), old \in Survivors : closed' = old \o Segments(SubSeq(active, 1, n))
  BY DEF PowerLoss
<1>2. old \in Seq(Seq(S)) /\ \E p \in Seq(Seq(S)) : Past = p \o old
  BY SurvivorsSplit
<1>3. PICK p \in Seq(Seq(S)) : Past = p \o old
  BY <1>2
<1>4. Recs(Past) = Recs(p) \union Recs(old)
  BY <1>2, <1>3, RecsConcat
<1>5. Recs(closed') = Recs(old) \union {active[i] : i \in 1 .. n}
  BY <1>1, <1>2, LostRecords
<1>6. Len(active) \in Nat
  BY DEF LogTyped
<1>7. {active[i] : i \in 1 .. n} \subseteq Of(active)
  BY <1>6 DEF Of
<1> QED
  BY <1>4, <1>5, <1>7, AllIs

\* The power fails again, during a restart.
LEMMA KeyLosesAgain ==
    ASSUME TaskInv, RestartInv, ShapeInv, NEW S, LogTyped(S), ChainInv, DownInv, status # "up",
           PowerLoss, NEW k \in Sure
    PROVE  DownOK(KeyIn(Recs(closed'), k), Hold(may[k]), disk[k])
<1> USE DEF Sure
<1>1. PICK n \in 0 .. Len(active), old \in Survivors : closed' = old \o Segments(SubSeq(active, 1, n))
  BY DEF PowerLoss
<1>2. /\ old \in Seq(Seq(S)) /\ \E p \in Seq(Seq(S)) : Past = p \o old
      /\ status # "flushed" => Recs(retiring.queue) \union Recs(closed) \subseteq Recs(old)
  BY SurvivorsSplit
<1>3. PICK p \in Seq(Seq(S)) : Past = p \o old
  BY <1>2
<1>4. active = <<>> /\ unlinked = <<>> /\ retiring.queue = <<>> /\ closed \in Seq(Seq(S))
  BY DEF RestartInv, NotRetiring, LogTyped
<1>5. Past = closed
  BY <1>4, ConcatEmptySeq DEF Past
<1>6. Recs(closed) = Recs(p) \union Recs(old)
  <2>1. Recs(p \o old) = Recs(p) \union Recs(old)
    BY <1>2, RecsConcat
  <2> QED
    BY <1>3, <1>5, <2>1
<1>7. Recs(closed') = Recs(old)
  <2>1. Recs(closed') = Recs(old) \union {active[i] : i \in 1 .. n}
    BY <1>1, <1>2, LostRecords
  <2>2. n = 0 /\ 1 .. 0 = {}
    BY <1>1, <1>4
  <2> QED
    BY <2>1, <2>2
<1>8. DownKey(k) /\ DownOK(KeyIn(Recs(closed), k), Hold(may[k]), disk[k])
  BY DEF DownInv, DownKey
<1>9. CASE status # "flushed"
  <2>1. Recs(closed') = Recs(closed)
    BY <1>2, <1>6, <1>7, <1>9
  <2> QED
    BY <1>8, <2>1
<1>10. CASE status = "flushed"
  <2>1. PICK R, X : R = KeyIn(Recs(closed), k) /\ X = KeyIn(Recs(old), k)
    OBVIOUS
  <2>2. X \subseteq R
    BY <1>6, <2>1 DEF KeyIn
  <2>3. ASSUME NEW r \in X, NEW q \in R \ X PROVE q.seq < r.seq
    <3>1. q \in Recs(p) /\ r \in Recs(old) \union Of(active)
      BY <1>6, <2>1 DEF KeyIn
    <3> QED
      BY <1>2, <1>3, <3>1, OrderedPast
  <2>4. disk[k] \subseteq Hold(may[k])
    BY <1>8, <1>10 DEF DownKey
  <2>5. DownOK(X, Hold(may[k]), disk[k])
    BY <1>8, <2>1, <2>2, <2>3, <2>4, DownShrinks
  <2> QED
    BY <1>7, <2>1, <2>5
<1> QED
  BY <1>9, <1>10

LEMMA DataLost ==
    ASSUME TaskInv, RestartInv, ShapeInv, NEW S, LogTyped(S), ChainInv, DataInv, CrossInv, DownInv,
           SaneInv, RecInv, PowerLoss
    PROVE  DataInv' /\ CrossInv' /\ DownInv' /\ SaneInv' /\ RecInv'
<1> USE DEF Sure
<1>1. /\ status' \in {"down", "damaged"} /\ suspect' = suspect /\ active' = <<>> /\ unlinked' = <<>> /\ retiring' = NotRetiring
      /\ poisoned' = FALSE /\ task' = [t \in Task |-> Idle]
      /\ DOMAIN file' = Key /\ DOMAIN disk' = Key /\ DOMAIN may' = Key
      /\ \A k \in Key : disk'[k] = {file'[k]}
  BY DEF PowerLoss
<1>2. DataInv'
  BY <1>1 DEF DataInv, FilesTyped
<1>3. ASSUME NEW k \in Sure
      PROVE  file[k] \in disk[k] /\ disk[k] \subseteq Contents /\ may[k] \in Seq(OutcomeType)
  <2>1. CASE status = "up"
    <3>1. KeyInv(k)
      BY <2>1 DEF DataInv
    <3> QED
      BY <3>1 DEF KeyInv, KeyOK, DataOK
  <2>2. CASE status # "up"
    BY <2>2 DEF DownInv, DownKey
  <2> QED
    BY <2>1, <2>2
<1>4. ASSUME NEW k \in Key PROVE file'[k] \in disk[k] /\ disk[k] \subseteq Contents
  <2>1. PICK f : \/ file'[k] = f[k] /\ f[k] \in disk[k]
                 \/ file'[k] = file[k]
    BY DEF PowerLoss
  <2> QED
    BY <2>1 DEF SaneInv
<1>5. ASSUME NEW k \in Sure PROVE DownKey(k)'
  <2>1. may'[k] \in Seq(OutcomeType) /\ Hold(may[k]) \subseteq Hold(may'[k])
    BY <1>3, MayLost
  <2>2. DownOK(KeyIn(Recs(closed'), k), Hold(may'[k]), disk[k])
    <3>1. CASE status = "up"
      BY <3>1, KeyLoses
    <3>2. CASE status # "up"
      <4>1. DownOK(KeyIn(Recs(closed'), k), Hold(may[k]), disk[k])
        BY <3>2, KeyLosesAgain
      <4>2. disk[k] \subseteq disk[k]
        OBVIOUS
      <4> QED
        BY <2>1, <4>1, <4>2, DownMono
    <3> QED
      BY <3>1, <3>2
  <2>3. disk'[k] \subseteq disk[k] /\ disk'[k] = {file'[k]} /\ file'[k] \in Contents
    BY <1>1, <1>3, <1>4
  <2>4. DownOK(KeyIn(Recs(closed'), k), Hold(may'[k]), disk'[k])
    <3>1. PICK R, M, D, E : /\ R = KeyIn(Recs(closed'), k) /\ M = Hold(may'[k]) /\ D = disk[k]
                            /\ E = disk'[k]
      OBVIOUS
    <3>2. DownOK(R, M, D) /\ M \subseteq M /\ E \subseteq D
      BY <2>2, <2>3, <3>1
    <3>3. DownOK(R, M, E)
      BY <3>2, DownMono
    <3> QED
      BY <3>1, <3>3
  <2> QED
    BY <1>1, <2>1, <2>3, <2>4 DEF DownKey
<1>6. CrossInv'
  <2>1. Recs(closed') \subseteq All
    BY LostWithin
  <2>2. All' = Recs(closed')
    BY <1>1, EmptyRecords DEF All, NotRetiring
  <2>3. \A w \in Writer : task'[w].held = {}
    BY <1>1 DEF Task, Idle
  <2> QED
    BY <2>1, <2>2, <2>3 DEF CrossInv, CrossIn
<1>7. SaneInv'
  BY <1>1, <1>4 DEF SaneInv
<1>8. RecInv'
  <2>1. Recs(closed') \subseteq All
    BY LostWithin
  <2>2. All' = Recs(closed')
    BY <1>1, EmptyRecords DEF All, NotRetiring
  <2> QED
    BY <1>1, <2>1, <2>2 DEF RecInv
<1> QED
  BY <1>1, <1>2, <1>5, <1>6, <1>7, <1>8 DEF DownInv

-----------------------------------------------------------------------------
(* A cancel is of a record of its key.                                     *)

\* No record but an appended one is new.
LEMMA AllShrinks ==
    ASSUME RestartInv, NEW S, LogTyped(S), ChainInv,
           \/ \E w \in Writer : begin_operation(w) \/ (WriterStep(w) /\ ~append(w))
           \/ \E t \in Task : TaskStep(t) \/ RetirementFails(t)
           \/ tick \/ WritebackFails \/ Restart \/ UNCHANGED walVars
    PROVE  All' \subseteq All
<1> USE DEF logVars, retireVars
<1>1. CASE UNCHANGED <<active, closed, unlinked, retiring>>
  BY <1>1 DEF All
<1>2. ASSUME NEW t \in Task, rotate(t) PROVE All' \subseteq All
  <2>1. \/ UNCHANGED <<active, closed, unlinked, retiring>>
        \/ active' = <<>> /\ closed' = Append(closed, active) /\ UNCHANGED <<unlinked, retiring>>
    BY <1>2 DEF rotate
  <2>2. CASE active' = <<>> /\ closed' = Append(closed, active) /\ UNCHANGED <<unlinked, retiring>>
    <3>1. closed \in Seq(Seq(S))
      BY DEF LogTyped
    <3>2. Recs(Append(closed, active)) = Recs(closed) \union Of(active)
      BY <3>1, RecsAppend
    <3> QED
      BY <2>2, <3>2, EmptyRecords DEF All
  <2> QED
    BY <1>1, <2>1, <2>2
<1>3. ASSUME NEW t \in Task, retire_closed(t) PROVE All' \subseteq All
  <2>1. \/ UNCHANGED <<active, closed, unlinked, retiring>>
        \/ retiring'.queue = closed /\ closed' = <<>> /\ UNCHANGED <<unlinked, active>>
    BY <1>3 DEF retire_closed, FlushFiles
  <2>2. CASE retiring'.queue = closed /\ closed' = <<>> /\ UNCHANGED <<unlinked, active>>
    BY <2>2, EmptyRecords DEF All
  <2> QED
    BY <1>1, <2>1, <2>2
<1>4. ASSUME NEW t \in Task, retire_flush(t) PROVE All' \subseteq All
  BY <1>4 DEF retire_flush, FlushFiles, All
<1>5. ASSUME NEW t \in Task, retire_unlink(t) PROVE All' \subseteq All
  <2>1. PICK T, q, u : T = Seq(S) /\ q = retiring.queue /\ u = unlinked
    OBVIOUS
  <2>2. q \in Seq(T) /\ u \in Seq(T) /\ q # <<>>
    BY <1>5, <2>1 DEF LogTyped, RestartInv, retire_unlink
  <2>3. Recs(q) = Of(q[1]) \union Recs(Tail(q))
    BY <2>2, RecsTail
  <2>4. Recs(Append(u, q[1])) = Recs(u) \union Of(q[1])
    BY <2>2, RecsAppend
  <2>5. /\ unlinked' = Append(u, q[1]) /\ retiring'.queue = Tail(q) /\ UNCHANGED <<active, closed>>
    BY <1>5, <2>1 DEF retire_unlink
  <2> QED
    BY <2>1, <2>3, <2>4, <2>5 DEF All
<1>6. ASSUME NEW t \in Task, retire_end(t) \/ RetirementFails(t) PROVE All' \subseteq All
  <2>1. /\ closed' = Requeued /\ retiring' = NotRetiring /\ UNCHANGED active
        /\ unlinked' = <<>> \/ unlinked' = unlinked
    BY <1>6 DEF retire_end, RetirementFails, retire_dir_fails, retire_fails, RetireFailed
  <2>2. All' \in {Queued, All} /\ Queued \subseteq All
    BY <2>1, RequeuedRecords
  <2> QED
    BY <2>2
<1>7. CASE replay_unlink
  BY <1>7, EmptyRecords DEF replay_unlink, All
<1> QED
  BY <1>1, <1>2, <1>3, <1>4, <1>5, <1>6, <1>7
     DEF begin_operation, WriterStep, write_file, write_fails, big_write, big_write_fails, append_fails,
         open_segment_fails, AppendFailed, TaskStep, wait_durable, lead_flush, flush_returns, flush_unwinds,
         tick, WritebackFails, Restart, replay_refuses, replay_apply, replay_flush, Reopen, walVars

\* A task stays with its operation or what cancels it, or is done.
Stays(h, e) ==
    \/ e = Idle
    \/ e.held = h.held /\ e.key = h.key /\ e.val = h.val /\ e.op \in {h.op, "Cancel"}

LEMMA StaysOne ==
    ASSUME TaskInv, NEW t \in Task, NEW e, task' = [task EXCEPT ![t] = e], t \in Writer => Stays(task[t], e)
    PROVE  \A w \in Writer : Stays(task[w], task'[w])
<1>1. task \in [Task -> TaskState] /\ Writer \subseteq Task
  BY DEF TaskInv, Task
<1>2. ASSUME NEW w \in Writer PROVE Stays(task[w], task'[w])
  <2>1. CASE w = t
    <3>1. task'[w] = e
      BY <1>1, <2>1
    <3> QED
      BY <2>1, <3>1
  <2>2. CASE w # t
    <3>1. task'[w] = task[w]
      BY <1>1, <2>2
    <3> QED
      BY <3>1 DEF Stays
  <2> QED
    BY <2>1, <2>2
<1> QED
  BY <1>2

LEMMA StaysGoto ==
    ASSUME TaskInv, NEW t \in Task, NEW p, Goto(t, p)
    PROVE  \A w \in Writer : Stays(task[w], task'[w])
<1>1. PICK e : e = [task[t] EXCEPT !.pc = p]
  OBVIOUS
<1>2. task[t] \in TaskState
  BY DEF TaskInv
<1>3. task' = [task EXCEPT ![t] = e] /\ Stays(task[t], e)
  BY <1>1, <1>2 DEF Goto, TaskState, Stays
<1> QED
  BY <1>3, StaysOne

LEMMA StaysFinish ==
    ASSUME TaskInv, NEW t \in Task, Finish(t)
    PROVE  \A w \in Writer : Stays(task[w], task'[w])
<1>1. PICK e : e = Idle
  OBVIOUS
<1>2. task' = [task EXCEPT ![t] = e] /\ Stays(task[t], e)
  BY <1>1 DEF Finish, Stays
<1> QED
  BY <1>2, StaysOne

LEMMA StaysStep ==
    ASSUME TaskInv,
           \/ \E w \in Writer : WriterStep(w) /\ ~append(w)
           \/ \E t \in Task : TaskStep(t) \/ RetirementFails(t)
           \/ tick \/ WritebackFails \/ Restart \/ UNCHANGED walVars
    PROVE  \A w \in Writer : Stays(task[w], task'[w])
<1> USE DEF logVars, retireVars
<1>0. Writer \subseteq Task /\ Ticker \in Task /\ Ticker \notin Writer
  BY WalAssumption DEF Task
<1>1. CASE UNCHANGED task
  BY <1>1 DEF Stays
<1>3. ASSUME NEW w \in Writer, write_fails(w) PROVE \A u \in Writer : Stays(task[u], task'[u])
  <2>1. CASE FailClean(w)
    BY <1>0, <2>1, StaysFinish DEF FailClean
  <2>2. CASE task' = [task EXCEPT ![w] = [@ EXCEPT !.pc = "append", !.op = "Cancel"]]
    <3>1. PICK e : e = [[task[w] EXCEPT !.pc = "append"] EXCEPT !.op = "Cancel"]
      OBVIOUS
    <3>2. task[w] \in TaskState
      BY <1>0 DEF TaskInv
    <3>3. task' = [task EXCEPT ![w] = e] /\ Stays(task[w], e)
      BY <1>0, <2>2, <3>1, <3>2 DEF TaskState, TaskInv, Stays
    <3> QED
      BY <1>0, <3>3, StaysOne
  <2> QED
    BY <1>3, <2>1, <2>2 DEF write_fails
<1>4. ASSUME NEW w \in Writer, write_file(w) \/ big_write(w) \/ big_write_fails(w) \/ append_fails(w) \/ open_segment_fails(w)
      PROVE  \A u \in Writer : Stays(task[u], task'[u])
  <2>1. Finish(w) \/ Goto(w, "append")
    BY <1>4 DEF write_file, big_write, big_write_fails, append_fails, open_segment_fails, AppendFailed, Succeed,
                FailClean, FailUnknown
  <2> QED
    BY <1>0, <2>1, StaysFinish, StaysGoto
<1>5. ASSUME NEW t \in Task, Finish(t) \/ \E p : Goto(t, p) PROVE \A u \in Writer : Stays(task[u], task'[u])
  BY <1>5, StaysFinish, StaysGoto
<1>6. ASSUME NEW t \in Task, Durable(t), task[t].pc # "idle" PROVE \A u \in Writer : Stays(task[u], task'[u])
  <2>1. task[t].op \in Operation
    BY <1>6 DEF TaskInv
  <2>2. Finish(t) \/ Goto(t, "file") \/ Goto(t, "retire")
    BY <1>6, <2>1 DEF Durable, Operation, Succeed, FailClean
  <2> QED
    BY <1>5, <2>2
<1>7. ASSUME NEW t \in Task, NEW n, Retired(t, n) PROVE \A u \in Writer : Stays(task[u], task'[u])
  <2>1. CASE Finish(t) \/ Goto(t, "rotate")
    BY <1>5, <2>1
  <2>2. CASE task' = [task EXCEPT ![t] = [@ EXCEPT !.pc = "big", !.seq = durable_end - 1]]
    <3>1. PICK e : e = [[task[t] EXCEPT !.pc = "big"] EXCEPT !.seq = durable_end - 1]
      OBVIOUS
    <3>2. task[t] \in TaskState
      BY DEF TaskInv
    <3>3. task' = [task EXCEPT ![t] = e] /\ Stays(task[t], e)
      BY <2>2, <3>1, <3>2 DEF TaskState, TaskInv, Stays
    <3> QED
      BY <3>3, StaysOne
  <2> QED
    BY <1>7, <2>1, <2>2 DEF Retired, FailClean
<1>8. ASSUME NEW t \in Task, TaskStep(t) \/ RetirementFails(t) PROVE \A u \in Writer : Stays(task[u], task'[u])
  <2>1. CASE wait_durable(t) \/ flush_returns(t) \/ flush_unwinds(t) \/ rotate(t)
    <3>1. task[t].pc # "idle" /\ (Durable(t) \/ Finish(t))
      BY <2>1 DEF wait_durable, flush_returns, flush_unwinds, rotate, FailUnknown
    <3> QED
      BY <1>5, <1>6, <3>1
  <2>2. CASE lead_flush(t)
    <3>1. PICK e : e = [[task[t] EXCEPT !.pc = "lead"] EXCEPT !.covered = next_seq]
      OBVIOUS
    <3>2. task[t] \in TaskState
      BY DEF TaskInv
    <3>3. task' = [task EXCEPT ![t] = e] /\ Stays(task[t], e)
      BY <2>2, <3>1, <3>2 DEF TaskState, TaskInv, lead_flush, Stays
    <3> QED
      BY <3>3, StaysOne
  <2>3. CASE retire_closed(t)
    <3>1. Retired(t, Len(closed)) \/ Goto(t, "retiring")
      BY <2>3 DEF retire_closed
    <3> QED
      BY <1>5, <1>7, <3>1
  <2>4. CASE retire_flush(t) \/ retire_unlink(t)
    BY <1>1, <2>4 DEF retire_flush, retire_unlink
  <2>5. CASE retire_end(t)
    BY <1>7, <2>5 DEF retire_end
  <2>6. CASE RetirementFails(t)
    BY <1>5, <2>6 DEF RetirementFails, retire_dir_fails, retire_fails, RetireFailed, FailClean
  <2> QED
    BY <1>8, <2>1, <2>2, <2>3, <2>4, <2>5, <2>6 DEF TaskStep
<1>9. CASE tick
  <2>1. PICK pc : task' = [task EXCEPT ![Ticker] =
                [Idle EXCEPT !.op = "Tick", !.pc = pc, !.covered = IF pc = "lead" THEN next_seq ELSE 0]]
    BY <1>9 DEF tick
  <2> QED
    BY <1>0, <2>1, StaysOne
<1>10. CASE WritebackFails \/ Restart \/ UNCHANGED walVars
  BY <1>1, <1>10 DEF WritebackFails, Restart, replay_refuses, replay_apply, replay_flush, replay_unlink, Reopen, walVars
<1> QED
  BY <1>3, <1>4, <1>8, <1>9, <1>10 DEF WriterStep

\* A new operation.
LEMMA BeginsOne ==
    ASSUME TaskInv, NEW w \in Writer, NEW op, NEW k, NEW v, Begin(w, op, k, v)
    PROVE  \E e : /\ e.op = op /\ e.key = k /\ e.val = v /\ e.held = {} /\ task'[w] = e
                  /\ \A u \in Writer : u # w => task'[u] = task[u]
<1>0. task \in [Task -> TaskState] /\ Writer \subseteq Task
  BY DEF TaskInv, Task
<1>1. PICK p : p = CASE op = "Insert" -> "file" [] op = "Big" -> "rotate" [] OTHER -> "append"
  OBVIOUS
<1>2. PICK e : e = [Idle EXCEPT !.op = op, !.key = k, !.val = v, !.pc = p]
  OBVIOUS
<1>3. e.held = {} /\ e.op = op /\ e.key = k /\ e.val = v
  BY <1>2 DEF Idle
<1>4. task' = [task EXCEPT ![w] = e]
  BY <1>1, <1>2 DEF Begin
<1>5. task'[w] = e /\ \A u \in Writer : u # w => task'[u] = task[u]
  BY <1>0, <1>4
<1> QED
  BY <1>3, <1>5

LEMMA CrossAppends ==
    ASSUME TaskInv, RestartInv, ShapeInv, RecInv, CrossInv, NEW S, LogTyped(S), NEW w \in Writer, append(w)
    PROVE  CrossInv' /\ RecInv'
<1>1. PICK x : x = Record(w)
  OBVIOUS
<1>2. All' = All \union {x}
  <2>1. active \in Seq(S) /\ active' = Append(active, x) /\ UNCHANGED <<closed, unlinked, retiring>>
    BY <1>1 DEF LogTyped, append, retireVars
  <2>2. Of(Append(active, x)) = Of(active) \union {x}
    BY <2>1, OfAppend
  <2> QED
    BY <2>1, <2>2 DEF All
<1>3. /\ task[w].pc = "append" /\ Shape(task[w]) /\ task[w] \in TaskState /\ status = "up"
      /\ task \in [Task -> TaskState] /\ w \in Task /\ next_seq \in Nat
  BY AtWork DEF append, ShapeInv, TaskInv, Task
<1>4. /\ x.seq = next_seq /\ x.key = task[w].key /\ x.key \in Key /\ x.op = task[w].op
      /\ x.op = "Cancel" => x.val = task[w].seq /\ task[w].seq \in task[w].held
  BY <1>1, <1>3 DEF Record, Shape
<1>5. \A r \in All : /\ r.seq \in Nat /\ r.seq < next_seq /\ r.key \in Key
                     /\ r.op = "Cancel" => r.val \in Nat /\ r.val < r.seq
  BY <1>3, AllNumbered DEF CrossInv, CrossIn
<1>6. \A u \in Writer : task[u].held \subseteq 1 .. next_seq - 1
  BY DEF ShapeInv, Timed
<1>7. PICK e : /\ task' = [task EXCEPT ![w] = e] /\ e.key = task[w].key
               /\ e.held = task[w].held \union {next_seq}
  <2>1. PICK pc : task' = [task EXCEPT ![w] =
                [@ EXCEPT !.pc = pc, !.seq = next_seq, !.held = Guards(w),
                          !.covered = IF pc = "lead" THEN next_seq + 1 ELSE 0]]
    BY DEF append
  <2>2. PICK e : e = [[[[task[w] EXCEPT !.pc = pc] EXCEPT !.seq = next_seq] EXCEPT !.held = Guards(w)]
                         EXCEPT !.covered = IF pc = "lead" THEN next_seq + 1 ELSE 0]
    OBVIOUS
  <2>3. task' = [task EXCEPT ![w] = e]
    BY <1>3, <2>1, <2>2
  <2>4. e.key = task[w].key /\ e.held = Guards(w)
    BY <1>3, <2>2 DEF TaskState
  <2> QED
    BY <2>3, <2>4 DEF Guards
<1>8. CrossIn(All \union {x})
  <2>1. ASSUME NEW q \in All \union {x}, NEW r \in All \union {x}, q.op = "Cancel", q.val = r.seq
        PROVE  q.key = r.key
    <3>1. CASE q \in All /\ r \in All
      BY <2>1, <3>1 DEF CrossInv, CrossIn
    <3>2. CASE q \in All /\ r = x
      BY <1>3, <1>4, <1>5, <2>1, <3>2
    <3>3. CASE q = x
      <4>1. r.seq \in task[w].held
        BY <1>4, <2>1, <3>3
      <4>2. r # x
        BY <1>3, <1>4, <1>6, <4>1
      <4> QED
        BY <1>4, <3>3, <4>1, <4>2 DEF CrossInv
    <3> QED
      BY <3>1, <3>2, <3>3
  <2> QED
    BY <1>4, <1>5, <2>1 DEF CrossIn
<1>9. ASSUME NEW u \in Writer, NEW r \in All \union {x}, r.seq \in task'[u].held PROVE r.key = task'[u].key
  <2>1. u \in Task
    BY DEF Task
  <2>2. CASE u = w
    <3>1. task'[u] = e
      BY <1>3, <1>7, <2>2
    <3>2. CASE r = x
      BY <1>4, <1>7, <3>1, <3>2
    <3>3. CASE r \in All
      BY <1>3, <1>5, <1>7, <1>9, <2>2, <3>1, <3>3 DEF CrossInv
    <3> QED
      BY <3>2, <3>3
  <2>3. CASE u # w
    <3>1. task'[u] = task[u]
      BY <1>3, <1>7, <2>1, <2>3
    <3>2. r # x
      BY <1>3, <1>4, <1>6, <1>9, <3>1
    <3> QED
      BY <1>9, <3>1, <3>2 DEF CrossInv
  <2> QED
    BY <2>2, <2>3
<1>10. IsRecord(x)
  <2>1. next_seq \in Nat \ {0} /\ Timed(task[w], durable_end, next_seq)
    BY DEF TaskInv, ShapeInv
  <2>2. x.op # "Cancel" => x.val = task[w].val
    BY <1>1, <1>4 DEF Record
  <2> QED
    BY <1>3, <1>4, <2>1, <2>2 DEF IsRecord, Shape, Timed, TaskState
<1>11. next_seq' = next_seq + 1
  BY DEF append
<1>12. RecInv'
  BY <1>2, <1>3, <1>4, <1>5, <1>10, <1>11 DEF RecInv
<1> QED
  BY <1>2, <1>8, <1>9, <1>12 DEF CrossInv

-----------------------------------------------------------------------------
(* The invariant of the records and the files.                             *)

FileInv == ShapeInv /\ DataInv /\ CrossInv /\ DownInv /\ SaneInv /\ RecInv

\* A task that appends nothing keeps its records and their key, or has none.
Holds(w) == task'[w].held = {} \/ (task'[w].held = task[w].held /\ task'[w].key = task[w].key)

LEMMA HoldsStep ==
    ASSUME TaskInv,
           \/ \E w \in Writer : begin_operation(w) \/ (WriterStep(w) /\ ~append(w))
           \/ \E t \in Task : TaskStep(t) \/ RetirementFails(t)
           \/ tick \/ WritebackFails \/ Restart \/ UNCHANGED walVars
    PROVE  \A w \in Writer : Holds(w)
<1>1. CASE \E w \in Writer : begin_operation(w)
  <2>0. PICK w \in Writer : begin_operation(w)
    BY <1>1
  <2>1. PICK op, k, v : Begin(w, op, k, v)
    BY <2>0 DEF begin_operation
  <2>2. PICK e : e.held = {} /\ task'[w] = e /\ \A u \in Writer : u # w => task'[u] = task[u]
    BY <2>1, BeginsOne
  <2> QED
    BY <2>2 DEF Holds
<1>2. CASE ~ \E w \in Writer : begin_operation(w)
  <2>1. \A w \in Writer : Stays(task[w], task'[w])
    BY <1>2, StaysStep
  <2>2. Idle.held = {}
    BY DEF Idle
  <2> QED
    BY <2>1, <2>2 DEF Stays, Holds
<1> QED
  BY <1>1, <1>2

\* A step while the log is open, but for an append.
LEMMA UpStep ==
    ASSUME TaskInv, RestartInv,
           \/ \E w \in Writer : begin_operation(w) \/ WriterStep(w)
           \/ \E t \in Task : TaskStep(t) \/ RetirementFails(t)
           \/ tick \/ WritebackFails
    PROVE  /\ status = "up" /\ status' = "up"
           /\ next_seq' = next_seq \/ \E w \in Writer : append(w)
<1> USE DEF logVars, retireVars
<1>1. ASSUME NEW w \in Writer, begin_operation(w) \/ WriterStep(w)
      PROVE  status = "up" /\ status' = status /\ (next_seq' = next_seq \/ append(w))
  <2>1. w \in Task
    BY DEF Task
  <2> QED
    BY <1>1, <2>1, AtWork DEF begin_operation, WriterStep, write_file, write_fails, big_write, big_write_fails,
                              append, append_fails, open_segment_fails, AppendFailed
<1>2. ASSUME NEW t \in Task, TaskStep(t) \/ RetirementFails(t)
      PROVE  status = "up" /\ status' = status /\ next_seq' = next_seq
  BY <1>2, AtWork DEF TaskStep, wait_durable, lead_flush, flush_returns, flush_unwinds, rotate, retire_closed,
                      retire_flush, retire_unlink, retire_end, RetirementFails, retire_dir_fails, retire_fails,
                      RetireFailed
<1> QED
  BY <1>1, <1>2 DEF tick, WritebackFails

\* What such a step does to the files and to what the device may have of them.
LEMMA SaneUp ==
    ASSUME TaskInv, FilesTyped, SaneInv, status = "up", status' = "up",
           \/ \E w \in Writer : begin_operation(w) \/ WriterStep(w)
           \/ \E t \in Task : TaskStep(t) \/ RetirementFails(t)
           \/ tick \/ WritebackFails
    PROVE  SaneInv'
<1> USE DEF logVars, retireVars
<1>1. CASE UNCHANGED <<file, disk>>
  BY <1>1 DEF SaneInv
<1>2. ASSUME NEW w \in Writer, write_file(w) \/ big_write(w) \/ big_write_fails(w) PROVE SaneInv'
  <2>1. PICK v, k : v = task[w].val /\ k = task[w].key
    OBVIOUS
  <2>2. v \in Contents
    BY <2>1 DEF TaskInv, TaskState, Task
  <2>3. None \in Contents
    BY DEF Contents
  <2>4. /\ file' = [file EXCEPT ![k] = v]
        /\ \/ disk' = [disk EXCEPT ![k] = @ \union {v, None}]
           \/ disk' = [disk EXCEPT ![k] = {v}]
           \/ disk' = [disk EXCEPT ![k] = @ \union {v}]
    BY <1>2, <2>1 DEF write_file, big_write, big_write_fails
  <2>5. ASSUME NEW j \in Key PROVE file'[j] \in disk'[j] /\ disk'[j] \subseteq Contents
    <3>1. j \in DOMAIN file /\ j \in DOMAIN disk /\ file[j] \in disk[j] /\ disk[j] \subseteq Contents
      BY DEF FilesTyped, SaneInv
    <3>2. CASE j = k
      <4>1. file'[j] = v /\ v \in disk'[j] /\ disk'[j] \subseteq disk[j] \union {v, None}
        BY <2>4, <3>1, <3>2
      <4> QED
        BY <2>2, <2>3, <3>1, <4>1
    <3>3. CASE j # k
      <4>1. file'[j] = file[j] /\ disk'[j] = disk[j]
        BY <2>4, <3>1, <3>3
      <4> QED
        BY <3>1, <4>1
    <3> QED
      BY <3>2, <3>3
  <2> QED
    BY <2>5 DEF SaneInv
<1>3. ASSUME NEW t \in Task, NEW queue, FlushFiles(t, queue), file' = file PROVE SaneInv'
  <2>1. \A k \in Key : disk'[k] \in {disk[k], {file[k]}}
    BY <1>3 DEF FlushFiles
  <2> QED
    BY <1>3, <2>1 DEF SaneInv
<1>4. ASSUME NEW w \in Writer, begin_operation(w) \/ WriterStep(w) PROVE SaneInv'
  BY <1>1, <1>2, <1>4 DEF begin_operation, WriterStep, write_fails, append, append_fails, open_segment_fails,
                          AppendFailed
<1>5. ASSUME NEW t \in Task, TaskStep(t) \/ RetirementFails(t) PROVE SaneInv'
  BY <1>1, <1>3, <1>5 DEF TaskStep, wait_durable, lead_flush, flush_returns, flush_unwinds, rotate,
                          retire_closed, retire_flush, retire_unlink, retire_end, RetirementFails,
                          retire_dir_fails, retire_fails, RetireFailed
<1> QED
  BY <1>1, <1>4, <1>5 DEF tick, WritebackFails

LEMMA FilesPreserved ==
    ASSUME TaskInv, TaskInv', RestartInv, RestartInv', LogInv, FileInv, [WalNext]_walVars
    PROVE  FileInv'
<1> USE DEF logVars, retireVars
<1>0. PICK S : LogTyped(S)
  BY DEF LogInv
<1>1. ChainInv /\ ShapeInv /\ DataInv /\ CrossInv /\ DownInv /\ SaneInv /\ RecInv /\ FilesTyped
  BY DEF LogInv, FileInv, DataInv
<1>2. ShapeInv'
  BY <1>1, ShapePreserved
<1>3. CASE PowerLoss
  BY <1>0, <1>1, <1>2, <1>3, DataLost DEF FileInv
<1>4. CASE Reopen
  BY <1>1, <1>2, <1>4, DataReopens DEF FileInv
<1>5. ASSUME All' \subseteq All, \A w \in Writer : Holds(w) PROVE CrossInv'
  <2>1. CrossIn(All')
    BY <1>1, <1>5 DEF CrossInv, CrossIn
  <2>2. ASSUME NEW w \in Writer, NEW r \in All', r.seq \in task'[w].held PROVE r.key = task'[w].key
    BY <1>1, <1>5, <2>2 DEF CrossInv, Holds
  <2> QED
    BY <2>1, <2>2 DEF CrossInv
<1>6. ASSUME All' \subseteq All, status' # "up" \/ (status' = status /\ next_seq' = next_seq) PROVE RecInv'
  BY <1>1, <1>6 DEF RecInv
<1>7. CASE replay_refuses \/ replay_apply \/ replay_flush \/ replay_unlink
  <2>1. All' \subseteq All /\ \A w \in Writer : Holds(w)
    BY <1>0, <1>1, <1>7, AllShrinks, HoldsStep DEF Restart
  <2>2. FilesTyped' /\ status' # "up" /\ suspect' = suspect
    BY <1>1, <1>7 DEF FilesTyped, replay_refuses, replay_apply, replay_flush, replay_unlink
  <2>3. ASSUME NEW k \in Sure, replay_refuses PROVE DownKey(k)'
    BY <1>1, <2>3 DEF replay_refuses, DownInv, DownKey
  <2>4. ASSUME NEW k \in Sure PROVE DownKey(k)'
    BY <1>0, <1>1, <1>7, <2>3, DownReplays, DownFlushes, DownUnlinks
  <2>5. SaneInv'
    <3>1. CASE replay_refuses
      BY <1>1, <3>1 DEF replay_refuses, SaneInv
    <3>2. CASE replay_apply
      <4>1. status' = "applied" /\ closed' = closed
        BY <3>2 DEF replay_apply
      <4> QED
        BY <1>0, <1>1, <3>2, <4>1, SaneReplays DEF SaneInv
    <3>3. CASE replay_flush
      <4>1. /\ status = "applied" /\ file' = file /\ Left \in Seq(S) /\ Of(Left) = Recs(closed)
            /\ disk' = [k \in Key |-> IF k \in Touched(Left) THEN {file[k]} ELSE disk[k]]
        BY <1>0, <1>1, <3>3, LeftIs DEF replay_flush
      <4>2. Touched(Left) = {r.key : r \in Of(Left)}
        BY <4>1 DEF Touched, Of
      <4>3. \A k \in Key : KeyIn(Recs(closed), k) # {} => k \in Touched(Left)
        BY <4>1, <4>2 DEF KeyIn
      <4>4. \A k \in Key : disk'[k] = {file[k]} /\ file[k] \in Contents
        BY <1>1, <4>1, <4>3 DEF SaneInv
      <4> QED
        BY <4>1, <4>4 DEF SaneInv
    <3>4. CASE replay_unlink
      BY <1>1, <3>4 DEF replay_unlink, SaneInv
    <3> QED
      BY <1>7, <3>1, <3>2, <3>3, <3>4
  <2>6. Sure' = Sure
    BY <2>2 DEF Sure
  <2> QED
    BY <1>2, <1>5, <1>6, <2>1, <2>2, <2>4, <2>5, <2>6 DEF FileInv, DataInv, DownInv
<1>8. CASE UNCHANGED walVars
  <2>1. All' \subseteq All /\ \A w \in Writer : Holds(w)
    BY <1>0, <1>1, <1>8, AllShrinks, HoldsStep
  <2>2. All' = All /\ Kept' = Kept /\ Queued' = Queued
    BY <1>8, SameRecords DEF walVars
  <2>3. FilesTyped' /\ status' = status /\ next_seq' = next_seq /\ Sure' = Sure
    BY <1>1, <1>8 DEF FilesTyped, walVars, Sure
  <2>4. ASSUME NEW k \in Key, KeyInv(k) PROVE KeyInv(k)'
    BY <1>8, <2>2, <2>4 DEF walVars, KeyInv
  <2>5. BigInv => BigInv'
    BY <1>8, <2>2 DEF walVars, BigInv
  <2>6. ASSUME NEW k \in Key, DownKey(k) PROVE DownKey(k)'
    BY <1>8, <2>6 DEF walVars, DownKey
  <2>7. SaneInv'
    BY <1>1, <1>8 DEF walVars, SaneInv
  <2>8. RecInv'
    BY <1>6, <2>1, <2>3
  <2>9. \A k \in Sure : k \in Key
    BY DEF Sure
  <2> QED
    BY <1>1, <1>2, <1>5, <2>1, <2>3, <2>4, <2>5, <2>6, <2>7, <2>8, <2>9 DEF FileInv, DataInv, DownInv
<1>9. CASE \/ \E w \in Writer : begin_operation(w) \/ WriterStep(w)
           \/ \E t \in Task : TaskStep(t) \/ RetirementFails(t)
           \/ tick \/ WritebackFails
  <2>1. DataInv'
    BY <1>0, <1>1, <1>9, DataUp
  <2>2. /\ status = "up" /\ status' = "up"
        /\ next_seq' = next_seq \/ \E w \in Writer : append(w)
    BY <1>9, UpStep
  <2>3. CrossInv' /\ RecInv'
    <3>1. CASE \E w \in Writer : append(w)
      BY <1>0, <1>1, <3>1, CrossAppends
    <3>2. CASE ~ \E w \in Writer : append(w)
      <4>1. \/ \E w \in Writer : begin_operation(w) \/ (WriterStep(w) /\ ~append(w))
            \/ \E t \in Task : TaskStep(t) \/ RetirementFails(t)
            \/ tick \/ WritebackFails
        BY <1>9, <3>2
      <4>2. All' \subseteq All /\ \A w \in Writer : Holds(w)
        BY <1>0, <1>1, <4>1, AllShrinks, HoldsStep
      <4> QED
        BY <1>5, <1>6, <2>2, <3>2, <4>2
    <3> QED
      BY <3>1, <3>2
  <2>4. SaneInv'
    BY <1>1, <1>9, <2>2, SaneUp
  <2> QED
    BY <1>2, <2>1, <2>2, <2>3, <2>4 DEF FileInv, DownInv
<1> QED
  BY <1>3, <1>4, <1>7, <1>8, <1>9 DEF WalNext, Restart

\* The inductive invariant of the records and the files: wherever the power cuts
\* the log, and whatever the device has of a file then, replay ends in an outcome
\* that the key may have, also when it is itself cut short.
THEOREM FilesInvariant == WalSpec => []FileInv
<1>1. WalInit => FileInv
  BY ShapeInitially, DataInitially DEF FileInv
<1>2. TaskInv /\ TaskInv' /\ RestartInv /\ RestartInv' /\ LogInv /\ FileInv /\ [WalNext]_walVars => FileInv'
  BY FilesPreserved
<1> QED
  BY <1>1, <1>2, WalInvariant, PTL DEF WalSpec

\* A restart brings every key back to the outcome of its last durable operation
\* or of a later one, whatever the tasks were doing when the power failed and
\* however often it fails during the restart (replay and apply in wal.rs, and the
\* order of flush and removal in retire_closed).
THEOREM DurableOutcomesSurvive == WalSpec => []DurableSurvives
<1>1. FileInv => DurableSurvives
  <2> SUFFICES ASSUME FileInv, status = "replayed", NEW k \in Key \ suspect PROVE file[k] \in MayHold(k)
    BY DEF DurableSurvives
  <2>1. file[k] \in Hold(may[k])
    BY DEF FileInv, DownInv, DownKey, Sure
  <2> QED
    BY <2>1 DEF Hold, MayHold, Torn
<1> QED
  BY <1>1, FilesInvariant, PTL

-----------------------------------------------------------------------------
(* Segments that no queue knows.                                           *)

\* A log that was replayed was not refused, and stays as it is until the files are
\* flushed.
OrphanInv == status = "applied" => ~Refused

LEMMA NoSurvivorElse ==
    ASSUME NEW S, LogTyped(S), RestartInv, status # "up", status # "flushed", NEW old \in Survivors
    PROVE  old = closed
<1>1. unlinked = <<>> /\ retiring.queue = <<>> /\ closed \in Seq(Seq(S))
  BY DEF RestartInv, NotRetiring, LogTyped
<1>2. PICK x \in Suffixes(unlinked) : old = (x \o retiring.queue) \o closed
  BY DEF Survivors
<1>3. PICK T, u : T = Seq(S) /\ u = unlinked
  OBVIOUS
<1>4. u \in Seq(T) /\ x \in Suffixes(u) /\ u = <<>>
  BY <1>1, <1>2, <1>3
<1>5. x \in Seq(T) /\ \E p \in Seq(T) : u = p \o x
  BY <1>4, SuffixSplits
<1>6. PICK p \in Seq(T) : u = p \o x
  BY <1>5
<1>7. x = <<>>
  <2>1. Len(p \o x) = Len(p) + Len(x) /\ Len(p) \in Nat /\ Len(x) \in Nat
    BY <1>5, <1>6
  <2>2. Len(u) = 0
    BY <1>4
  <2>3. Len(p) + Len(x) = 0
    BY <1>6, <2>1, <2>2
  <2>4. Len(x) = 0
    BY <2>1, <2>3
  <2> QED
    BY <1>5, <2>4
<1> QED
  BY <1>1, <1>2, <1>7, ConcatEmptySeq

\* The power fails.  The one empty segment that may be new, the active one without
\* its records, is at the end of the chain.
LEMMA OrphansLost ==
    ASSUME NEW S, LogTyped(S), ChainInv, RestartInv, OrphanInv, status = "up" => orphans = {}, PowerLoss
    PROVE  ~Refused'
<1>1. PICK n \in 0 .. Len(active), old \in Survivors :
          /\ closed' = old \o Segments(SubSeq(active, 1, n))
          /\ orphans' = IF status = "flushed" THEN {}
                        ELSE orphans \union (IF n = 0 /\ active # <<>> THEN {active[1].seq} ELSE {})
  BY DEF PowerLoss
<1>2. old \in Seq(Seq(S)) /\ \E p \in Seq(Seq(S)) : Past = p \o old
  BY SurvivorsSplit
<1>3. SubSeq(active, 1, 0) = <<>> /\ Segments(<<>>) = <<>>
  BY DEF Segments, LogTyped
<1>4. n = 0 => closed' = old
  BY <1>1, <1>2, <1>3, ConcatEmptySeq
<1>5. CASE orphans' = {}
  <2>1. Cardinality({}) = 0
    BY FS_EmptySet
  <2>2. ~(Cardinality(orphans') > 1) /\ ~ \E s \in orphans' : s < Left'[1].seq
    BY <1>5, <2>1
  <2> QED
    BY <2>2 DEF Refused
<1>6. CASE status = "applied"
  <2>1. active = <<>> /\ n = 0
    BY <1>6 DEF RestartInv
  <2>2. old = closed
    BY <1>6, NoSurvivorElse
  <2>3. closed' = closed /\ orphans' = orphans
    BY <1>1, <1>4, <1>6, <2>1, <2>2
  <2>4. ~Refused
    BY <1>6 DEF OrphanInv
  <2> QED
    BY <2>3, <2>4 DEF Refused, Left
<1>7. CASE status = "up" /\ orphans' # {}
  <2>1. n = 0 /\ active # <<>> /\ orphans' = {active[1].seq}
    BY <1>1, <1>7
  <2>2. PICK p \in Seq(Seq(S)) : Past = p \o old
    BY <1>2
  <2>3. Linked(old)
    <3>1. PICK T : T = Seq(S)
      OBVIOUS
    <3>2. p \in Seq(T) /\ old \in Seq(T) /\ Linked(p \o old)
      BY <1>2, <2>2, <3>1 DEF ChainInv
    <3> QED
      BY <3>2, LinkedConcat
  <2>4. PICK L : L = FlattenSeq(old)
    OBVIOUS
  <2>5. L \in Seq(S) /\ Of(L) = Recs(old)
    <3>1. \A r \in S : r.seq \in Nat
      BY DEF LogTyped
    <3> QED
      BY <1>2, <2>3, <2>4, <3>1, FlatChain
  <2>6. Left' = L
    BY <1>4, <2>1, <2>4 DEF Left
  <2>7. PICK a : a = active[1] /\ a \in Of(active) /\ a.seq \in Nat
    BY <2>1 DEF Of, LogTyped
  <2>8. CASE L = <<>>
    <3>1. Cardinality({a.seq}) = 1
      BY FS_Singleton
    <3>2. ~(Cardinality(orphans') > 1)
      BY <2>1, <2>7, <3>1
    <3> QED
      BY <2>6, <2>8, <3>2 DEF Refused
  <2>9. CASE L # <<>>
    <3>1. PICK q : q = L[1] /\ q \in Recs(old)
      BY <2>5, <2>9 DEF Of
    <3>2. PICK c, d : c = Past /\ d = <<>>
      OBVIOUS
    <3>3. c \in Seq(Seq(S)) /\ d \in Seq(Seq(S)) /\ Past = c \o d
      BY <3>2, PastTyped, ConcatEmptySeq
    <3>4. Recs(p \o old) = Recs(p) \union Recs(old)
      BY <1>2, <2>2, RecsConcat
    <3>5. q \in Recs(c) /\ a \in Recs(d) \union Of(active)
      BY <2>2, <2>7, <3>1, <3>2, <3>4
    <3>6. q.seq < a.seq
      BY <3>3, <3>5, OrderedPast
    <3>7. q.seq \in Nat
      BY <2>5, <2>9, <3>1 DEF LogTyped
    <3>8. ~ \E s \in orphans' : s < q.seq
      BY <2>1, <2>7, <3>6, <3>7
    <3> QED
      BY <2>6, <2>9, <3>1, <3>8 DEF Refused
  <2> QED
    BY <2>8, <2>9
<1> QED
  BY <1>1, <1>5, <1>6, <1>7 DEF PowerLoss

LEMMA OrphansPreserved ==
    ASSUME TaskInv, RestartInv, OrphanInv, [WalNext]_walVars
    PROVE  OrphanInv'
<1> USE DEF logVars, retireVars
<1>1. CASE PowerLoss
  BY <1>1 DEF PowerLoss, OrphanInv
<1>2. CASE replay_apply
  <2>1. ~Refused /\ UNCHANGED <<closed, orphans>>
    BY <1>2 DEF replay_apply
  <2>2. ~Refused'
    BY <2>1 DEF Refused, Left
  <2> QED
    BY <2>2 DEF OrphanInv
<1>3. CASE replay_refuses \/ replay_flush \/ replay_unlink \/ Reopen
  BY <1>3 DEF replay_refuses, replay_flush, replay_unlink, Reopen, OrphanInv
<1>4. CASE UNCHANGED walVars
  <2>1. UNCHANGED <<status, closed, orphans>>
    BY <1>4 DEF walVars
  <2>2. Refused' <=> Refused
    BY <2>1 DEF Refused, Left
  <2> QED
    BY <2>1, <2>2 DEF OrphanInv
<1>5. CASE \/ \E w \in Writer : begin_operation(w) \/ WriterStep(w)
           \/ \E t \in Task : TaskStep(t) \/ RetirementFails(t)
           \/ tick \/ WritebackFails
  <2>1. status' = "up"
    BY <1>5, UpStep
  <2> QED
    BY <2>1 DEF OrphanInv
<1> QED
  BY <1>1, <1>2, <1>3, <1>4, <1>5 DEF WalNext, Restart

\* A power loss leaves a log that replay takes, unless a segment that no queue knows
\* was in the directory when the power failed.
RefusalNeedsOrphan ==
    [][status' = "down" /\ (status = "up" => orphans = {}) => ~Refused']_walVars

\* Whatever is written, closed, removed, put back and lost, the one thing that makes
\* replay refuse a log for its segments is one that open_segment created and could
\* not open, and no restart that is cut short adds another (walk_segments and
\* open_segment in wal.rs).
THEOREM OnlyOrphansRefused == WalSpec => RefusalNeedsOrphan
<1>1. WalInit => OrphanInv
  BY DEF WalInit, OrphanInv
<1>2. TaskInv /\ RestartInv /\ OrphanInv /\ [WalNext]_walVars => OrphanInv'
  BY OrphansPreserved
<1>3. ASSUME TaskInv, RestartInv, LogInv, OrphanInv, [WalNext]_walVars
      PROVE  [status' = "down" /\ (status = "up" => orphans = {}) => ~Refused']_walVars
  <2>1. SUFFICES ASSUME ~ UNCHANGED walVars, status' = "down", status = "up" => orphans = {}
                 PROVE  ~Refused'
    OBVIOUS
  <2>2. ASSUME \/ \E w \in Writer : begin_operation(w) \/ WriterStep(w)
               \/ \E t \in Task : TaskStep(t) \/ RetirementFails(t)
               \/ tick \/ WritebackFails
        PROVE  FALSE
    BY <1>3, <2>1, <2>2, UpStep
  <2>3. ASSUME Restart PROVE FALSE
    BY <2>1, <2>3 DEF Restart, replay_refuses, replay_apply, replay_flush, replay_unlink, Reopen
  <2>4. PowerLoss
    BY <1>3, <2>1, <2>2, <2>3 DEF WalNext
  <2>5. PICK S : LogTyped(S) /\ ChainInv
    BY <1>3 DEF LogInv
  <2> QED
    BY <1>3, <2>1, <2>4, <2>5, OrphansLost
<1> QED
  BY <1>1, <1>2, <1>3, WalInvariant, PTL DEF WalSpec, RefusalNeedsOrphan

\* What a power loss at any point leaves of the log, removals that were not
\* flushed included, is a chain of segments without a hole, also after segments
\* could not be opened (open_segment in wal.rs), flushed or removed
\* (retire_closed).
THEOREM LogNeverHoled == WalSpec => []NoHoleInLog
<1>1. LogInv => NoHoleInLog
  <2> SUFFICES ASSUME LogInv PROVE NoHoleInLog
    OBVIOUS
  <2>1. PICK S : LogTyped(S)
    BY DEF LogInv
  <2> DEFINE T == Seq(S)
  <2>2. /\ \A r \in S : r.seq \in Nat
        /\ active \in T /\ closed \in Seq(T) /\ unlinked \in Seq(T) /\ retiring.queue \in Seq(T)
        /\ Past \in Seq(T)
    BY <2>1, PastTyped DEF LogTyped
  <2> DEFINE left == ((unlinked \o retiring.queue) \o closed) \o Segments(active)
  <2>3. (unlinked \o retiring.queue) \o closed = Past
    <3> HIDE DEF T
    <3>1. PICK q \in Seq(T) : q = retiring.queue
      BY <2>2
    <3>2. unlinked \in Seq(T) /\ closed \in Seq(T)
      BY <2>2
    <3>3. (unlinked \o q) \o closed = unlinked \o (q \o closed)
      BY <3>2, ConcatAssociative
    <3> QED
      BY <3>1, <3>3 DEF Past
  <2>4. Linked(left) /\ left \in Seq(T)
    <3>1. CASE active = <<>>
      <4> HIDE DEF T
      <4>1. left = Past
        BY <2>2, <2>3, <3>1, ConcatEmptySeq DEF Segments
      <4> HIDE DEF left
      <4> QED
        BY <2>2, <4>1 DEF LogInv, ChainInv
    <3>2. CASE active # <<>>
      <4> HIDE DEF T
      <4>1. left = Append(Past, active)
        BY <2>2, <2>3, <3>2, AppendIsConcat DEF Segments
      <4> HIDE DEF left
      <4> QED
        BY <2>2, <3>2, <4>1, LinkedAppend, AppendProperties DEF LogInv, ChainInv
    <3> QED
      BY <3>1, <3>2
  <2> HIDE DEF left
  <2>5. ASSUME NEW i \in DOMAIN left
        PROVE  /\ left[i] # <<>>
               /\ \A j \in 1 .. Len(left[i]) - 1 : left[i][j + 1].seq = left[i][j].seq + 1
    <3>0. DOMAIN left = 1 .. Len(left) /\ left[i] \in Seq(S)
      BY <2>4
    <3>1. PICK s \in Seq(S) : s = left[i] /\ Consecutive(s)
      BY <2>4, <3>0 DEF Linked
    <3>2. ASSUME NEW j \in 1 .. Len(s) - 1 PROVE s[j + 1].seq = s[j].seq + 1
      <4>1. s[1].seq \in Nat /\ j \in 1 .. Len(s) /\ j + 1 \in 1 .. Len(s)
        BY <2>2
      <4>2. s[j].seq = s[1].seq + (j - 1) /\ s[j + 1].seq = s[1].seq + (j + 1 - 1)
        BY <3>1, <4>1 DEF Consecutive
      <4> QED
        BY <4>1, <4>2
    <3> QED
      BY <3>1, <3>2 DEF Consecutive
  <2> QED
    BY <2>4, <2>5 DEF NoHoleInLog, Linked, left
<1> QED
  BY <1>1, WalInvariant, PTL

=============================================================================
