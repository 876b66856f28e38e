-------------------------------- MODULE Wal --------------------------------
(***************************************************************************)
(* The write-ahead log under a storage root (fluree-db-core storage/wal.rs)*)
(* and the FileStorage operations that journal in it (storage/file.rs).    *)
(*                                                                         *)
(* Files are written in the page cache only; the log is what survives a    *)
(* power loss until the flusher has flushed the files and removed the      *)
(* segment that covers them.  Writers share device flushes: the first to   *)
(* wait leads one with the log's mutex released.                           *)
(*                                                                         *)
(* Blobs are content addressed, so a blob's contents are its key.  A head  *)
(* names a blob.  Frames, lengths and ages are abstracted: a segment is a  *)
(* sequence of records, and it fills up or ages whenever that matters.     *)
(***************************************************************************)
EXTENDS Naturals, Sequences, SequencesExt, FiniteSets

CONSTANTS
    Writer,      \* client tasks
    Ticker,      \* the background thread
    HeadKey,        \* keys replaced by compare-and-swap
    BlobKey,        \* content-addressed keys
    Genesis,     \* what a head is created with, naming no blob
    BigBlob,     \* the blobs larger than MAX_RECORD_BYTES
    Preloaded,   \* keys an earlier, cleanly closed run left
    Deletable,   \* keys the clients delete
    WalFault,    \* what may go wrong
    MaxWalFaults,\* bound: how many times
    MaxOps,      \* bound: client operations
    None

ASSUME WalAssumption ==
    /\ BigBlob \subseteq BlobKey /\ Deletable \union Preloaded \subseteq HeadKey \union BlobKey
    /\ HeadKey \intersect BlobKey = {} /\ None \notin HeadKey \union BlobKey \union Nat
    /\ Genesis \notin BlobKey \union {None}
    /\ Ticker \notin Writer /\ None \notin Writer \union {Ticker}
    /\ WalFault \subseteq {"power", "writeback", "full_disk", "panic", "key_flush", "dir_flush", "open_segment"}
    /\ MaxWalFaults \in Nat /\ MaxOps \in Nat

Key == HeadKey \union BlobKey
Task == Writer \union {Ticker}

VARIABLES
    status,      \* "up", or where a restart stands: "down", "applied", "flushed", "replayed";
                 \* "refused" and "damaged" when replay refuses the log
    file,        \* file[k]: contents in the page cache, None when absent or empty
    disk,        \* disk[k]: the contents a power loss may leave, k being unflushed if many
    active,      \* records of the active segment, <<>> without one
    closed,      \* closed segments, oldest first (on restart: all that is left)
    unlinked,    \* segments removed since the last flush of the log directory
    orphans,     \* first numbers of segments in the directory that no queue knows, all empty
    suspect,     \* keys whose flush failed, or whose oversized file an old segment may undo
    next_seq, durable_end,
    device_end,  \* first sequence that no flush has brought to the device
    flushing,    \* the task inside the device flush, None without one
    poisoned,
    badblocks,   \* the log has frames the device dropped and no flush reported yet
    dropped,     \* first sequence the device dropped, None without
    inflight,    \* records whose guard is held: their file may not be written yet
    retiring,    \* who retires segments, and the segments taken from the queue
    task,        \* task[t]: what t is doing
    may,         \* may[k]: outcomes k may have after a power loss, the durable one first
    ops, walFaults

logVars == <<active, closed, next_seq, durable_end, device_end, flushing, poisoned, badblocks,
             dropped>>
retireVars == <<unlinked, retiring, orphans, suspect>>
walVars == <<status, file, disk, logVars, retireVars, inflight, task, may, ops, walFaults>>

Contents == BlobKey \union {Genesis, None}

Idle == [pc |-> "idle", op |-> None, key |-> None, val |-> None, seq |-> 0, covered |-> 0,
         held |-> {}]

NotRetiring == [by |-> None, queue |-> <<>>, unlinking |-> FALSE]

WalInit ==
    /\ status = "up"
    /\ file = [k \in Key |-> IF k \notin Preloaded THEN None ELSE IF k \in HeadKey THEN Genesis ELSE k]
    /\ disk = [k \in Key |-> {file[k]}]
    /\ active = <<>> /\ closed = <<>> /\ unlinked = <<>> /\ orphans = {} /\ suspect = {}
    /\ next_seq = 1 /\ durable_end = 1 /\ device_end = 1 /\ flushing = None
    /\ poisoned = FALSE /\ badblocks = FALSE /\ dropped = None
    /\ inflight = {} /\ retiring = NotRetiring
    /\ task = [t \in Task |-> Idle]
    /\ may = [k \in Key |-> <<[seq |-> 0, val |-> file[k], op |-> None]>>]
    /\ ops = 0 /\ walFaults = 0

Mishap(kind) == kind \in WalFault /\ walFaults < MaxWalFaults /\ walFaults' = walFaults + 1

Goto(t, pc) == task' = [task EXCEPT ![t].pc = pc]

\* The key stripe: one logged operation on a key at a time.
Held(k) == \E w \in Writer : task[w].key = k

\* Mutant: the head's record is not flushed.
Syncs_NoCas(op) == op \in {"Insert", "Cancel"}

\* The operations whose append returns once the record is on the device.
Syncs(op) == op \in {"Cas", "Insert", "Cancel"}

-----------------------------------------------------------------------------
(* What the caller may count on, kept for the properties.                  *)

\* An operation on k took place, or may have: its outcome comes after those of
\* the earlier ones.  seq is that of its record, None if nobody can tell whether
\* it took place.
OutcomeOf(t, seq) == [seq |-> seq, val |-> task[t].val, op |-> task[t].op]

Outcome(m, t, seq) == [m EXCEPT ![task[t].key] = Append(@, OutcomeOf(t, seq))]

\* What record seq's flush covers is durable: of the outcomes before it only the
\* last is left.
Settle(outcomes, seq) ==
    LET covered == {i \in DOMAIN outcomes : outcomes[i].seq # None /\ outcomes[i].seq < seq} IN
    IF covered = {} THEN outcomes
    ELSE SubSeq(outcomes, CHOOSE i \in covered : \A j \in covered : j <= i, Len(outcomes))

Settled(m, seq) == [k \in Key |-> Settle(m[k], seq)]

\* An unflushed replacement may be on the device without its contents.
Torn(k) == \E i \in 2 .. Len(may[k]) : may[k][i].op = "Write"

MayHold(k) == {may[k][i].val : i \in DOMAIN may[k]} \union (IF Torn(k) THEN {None} ELSE {})

-----------------------------------------------------------------------------
(* The ends of an operation.  Its guard, and with it its hold on the       *)
(* segment, is dropped; so is the key stripe.                              *)

Finish(t) ==
    /\ task' = [task EXCEPT ![t] = Idle]
    /\ inflight' = inflight \ task[t].held

Succeed(t) ==
    /\ Finish(t)
    /\ may' = IF Syncs(task[t].op) \/ task[t].op = "Big"
              THEN Settled(Outcome(may, t, task[t].seq), task[t].seq + 1)
              ELSE Outcome(may, t, task[t].seq)

FailClean(t) == Finish(t) /\ UNCHANGED may

\* The error leaves open whether a restart brings the outcome of a record, or of
\* an insert that could not be logged, about.
FailUnknown(t) ==
    /\ Finish(t)
    /\ may' = IF task[t].op \in {"Tick", "Big"} THEN may ELSE Outcome(may, t, None)

-----------------------------------------------------------------------------
(* Operations of FileStorage.  A client takes the key stripe and goes      *)
(* through the steps of its operation: a write, a compare-and-swap and a   *)
(* delete are logged before the file changes, an insert after it.          *)

Begin(w, op, k, v) ==
    task' = [task EXCEPT ![w] =
       [Idle EXCEPT !.op = op, !.key = k, !.val = v,
           !.pc = CASE op = "Insert" -> "file" [] op = "Big" -> "rotate" [] OTHER -> "append"]]

begin_operation(w) ==
    /\ status = "up" /\ task[w] = Idle /\ ops < MaxOps
    /\ \E k \in Key :
          /\ ~Held(k)
          /\ \/ k \in BlobKey /\ Begin(w, IF k \in BigBlob THEN "Big" ELSE "Write", k, k)
             \/ k \in HeadKey /\ file[k] = None /\ Begin(w, "Insert", k, Genesis)
             \/ k \in HeadKey /\ \E v \in BlobKey \ {file[k]} : file[v] # None /\ Begin(w, "Cas", k, v)
             \/ k \in Deletable /\ file[k] # None /\ Begin(w, "Delete", k, None)
    /\ ops' = ops + 1
    /\ UNCHANGED <<status, file, disk, logVars, retireVars, inflight, may, walFaults>>

\* The file is staged and renamed (linked, unlinked) in the page cache.
write_file(w) ==
    /\ task[w].pc = "file"
    /\ file' = [file EXCEPT ![task[w].key] = task[w].val]
    /\ disk' = [disk EXCEPT ![task[w].key] = @ \union {task[w].val, None}]
    /\ IF task[w].op = "Insert" THEN Goto(w, "append") /\ UNCHANGED <<inflight, may>>
       ELSE Succeed(w)
    /\ UNCHANGED <<status, logVars, retireVars, ops, walFaults>>

\* It cannot be: a record that says otherwise is cancelled.
write_fails(w) ==
    /\ task[w].pc \in {"file", "big"} /\ Mishap("full_disk")
    /\ IF task[w].op \in {"Insert", "Big"} THEN FailClean(w)
       ELSE /\ task' = [task EXCEPT ![w] = [@ EXCEPT !.pc = "append", !.op = "Cancel"]]
            /\ UNCHANGED <<inflight, may>>
    /\ UNCHANGED <<status, file, disk, logVars, retireVars, ops>>

\* The oversized file is in place when the flush of its directory fails.
big_write_fails(w) ==
    /\ task[w].pc = "big" /\ Mishap("full_disk")
    /\ file' = [file EXCEPT ![task[w].key] = task[w].val]
    /\ disk' = [disk EXCEPT ![task[w].key] = @ \union {task[w].val}]
    /\ suspect' = suspect \union {task[w].key}
    /\ Finish(w) /\ may' = Outcome(may, w, None)
    /\ UNCHANGED <<status, logVars, unlinked, retiring, orphans, ops>>

Touched(segment) == {segment[i].key : i \in DOMAIN segment}

\* Some segment has a record of k.
Covers(segments, k) == \E i \in DOMAIN segments : k \in Touched(segments[i])

\* Oversized contents go to the device without a record, once the checkpoint
\* has left nothing to replay, unless a removed segment may reappear.
big_write(w) ==
    /\ task[w].pc = "big"
    /\ file' = [file EXCEPT ![task[w].key] = task[w].val]
    /\ disk' = [disk EXCEPT ![task[w].key] = {task[w].val}]
    /\ suspect' = suspect \union {k \in {task[w].key} : Covers(unlinked, k)}
    /\ Succeed(w)
    /\ UNCHANGED <<status, logVars, unlinked, retiring, orphans, ops, walFaults>>

-----------------------------------------------------------------------------
(* Appending.                                                              *)

Record(w) ==
    [seq |-> next_seq, op |-> task[w].op, key |-> task[w].key, exp |-> file[task[w].key],
     val |-> IF task[w].op = "Cancel" THEN task[w].seq ELSE task[w].val]

\* The guards an operation holds with its new record's.
Guards(w) == task[w].held \union {next_seq}

\* The frame goes to the active segment.  If that is full now it is rotated.  A
\* record to be flushed waits for a flush in progress, or leads one (lead_flush)
\* before the mutex is released.
append(w) ==
    /\ task[w].pc = "append" /\ ~poisoned
    /\ active' = Append(active, Record(w))
    /\ next_seq' = next_seq + 1
    /\ inflight' = inflight \union {next_seq}
    /\ \E pc \in {"rotate", IF ~Syncs(task[w].op) THEN "file"
                            ELSE IF flushing = None THEN "lead" ELSE "wait"} :
          /\ task' = [task EXCEPT ![w] =
                [@ EXCEPT !.pc = pc, !.seq = next_seq, !.held = Guards(w),
                          !.covered = IF pc = "lead" THEN next_seq + 1 ELSE 0]]
          /\ flushing' = IF pc = "lead" THEN w ELSE flushing
    /\ UNCHANGED <<status, file, disk, closed, durable_end, device_end, poisoned, badblocks, dropped,
                   retireVars, may, ops, walFaults>>

AppendFailed(w) ==
    /\ task[w].pc = "append"
    /\ IF task[w].op \in {"Insert", "Cancel"} THEN FailUnknown(w) ELSE FailClean(w)
    /\ UNCHANGED <<status, file, disk, active, closed, next_seq, durable_end, device_end, flushing, badblocks,
                   dropped, unlinked, retiring, suspect, ops>>

\* A poisoned log takes nothing; a frame that cannot be written is cut off again,
\* or poisons the log if it cannot be.  So does a record that cannot be cancelled.
append_fails(w) ==
    /\ AppendFailed(w)
    /\ IF poisoned THEN UNCHANGED <<poisoned, walFaults>>
       ELSE /\ Mishap("full_disk")
            /\ poisoned' \in {task[w].op = "Cancel", TRUE}
    /\ UNCHANGED orphans

\* A segment is created and cannot be opened: it stays in the directory, unknown
\* to the log, and the next append creates another one that begins with the same
\* number.
open_segment_fails(w) ==
    /\ AppendFailed(w)
    /\ ~poisoned /\ active = <<>> /\ Mishap("open_segment")
    /\ poisoned' = (task[w].op = "Cancel")
    /\ orphans' = orphans \union {next_seq}

-----------------------------------------------------------------------------
(* Flushing the log.                                                       *)

\* The records t waited for are on the device.
Durable(t) ==
    CASE task[t].op \in {"Cas", "Write", "Delete"} -> Goto(t, "file") /\ UNCHANGED <<inflight, may>>
      [] task[t].op \in {"Tick", "Big"} -> Goto(t, "retire") /\ UNCHANGED <<inflight, may>>
      [] task[t].op = "Insert" -> Succeed(t)
      [] task[t].op = "Cancel" -> FailClean(t)

wait_durable(t) ==
    /\ task[t].pc = "wait" /\ (poisoned \/ durable_end > task[t].seq)
    /\ IF poisoned THEN FailUnknown(t) ELSE Durable(t)
    /\ UNCHANGED <<status, file, disk, logVars, retireVars, ops, walFaults>>

\* No flush is in progress: t leads one, for all frames written so far, and
\* releases the mutex.
lead_flush(t) ==
    /\ task[t].pc = "wait" /\ ~poisoned /\ durable_end <= task[t].seq /\ flushing = None
    /\ flushing' = t
    /\ task' = [task EXCEPT ![t] = [@ EXCEPT !.pc = "lead", !.covered = next_seq]]
    /\ UNCHANGED <<status, file, disk, active, closed, next_seq, durable_end, device_end, poisoned, badblocks,
                   dropped, retireVars, inflight, may, ops, walFaults>>

\* Mutant: the leader publishes what is written when its flush returns.
Covered_Late(t) == next_seq

\* Sampled before the mutex was released.
Covered(t) == task[t].covered

\* Mutant: a leader whose flush failed leaves the flag set.
Released_Stuck(t) == IF poisoned' THEN t ELSE None

Released(t) == None

\* The device flush returns: the leader publishes what it covered, or poisons
\* the log, and wakes the others.
flush_returns(t) ==
    /\ task[t].pc = "lead"
    /\ badblocks' = FALSE
    /\ poisoned' = (poisoned \/ badblocks)
    /\ flushing' = Released(t)
    /\ device_end' = IF badblocks THEN device_end ELSE task[t].covered
    /\ IF poisoned' THEN FailUnknown(t) /\ UNCHANGED durable_end
       ELSE durable_end' = Covered(t) /\ Durable(t)
    /\ UNCHANGED <<status, file, disk, active, closed, next_seq, dropped, retireVars, ops, walFaults>>

\* It unwinds: the leader's guard clears the flag and poisons the log.
flush_unwinds(t) ==
    /\ task[t].pc = "lead" /\ Mishap("panic")
    /\ poisoned' = TRUE
    /\ flushing' = Released(t)
    /\ FailUnknown(t)
    /\ UNCHANGED <<status, file, disk, active, closed, next_seq, durable_end, device_end, badblocks, dropped,
                   retireVars, ops>>

\* Write-back fails: the device never gets the unflushed frames, and the next
\* flush to return reports it.
WritebackFails ==
    /\ status = "up" /\ durable_end < next_seq /\ dropped = None /\ Mishap("writeback")
    /\ badblocks' = TRUE /\ dropped' = device_end
    /\ UNCHANGED <<status, file, disk, active, closed, next_seq, durable_end, device_end, flushing, poisoned,
                   retireVars, inflight, task, may, ops>>

\* Mutant: a rotation closes the segment without flushing its tail.
FlushedByRotation_None == durable_end

FlushedByRotation == next_seq

\* The active segment is flushed and closed.
rotate(t) ==
    /\ task[t].pc = "rotate" /\ flushing = None
    /\ IF poisoned \/ (badblocks /\ durable_end < next_seq)
       THEN /\ FailUnknown(t)
            /\ poisoned' = TRUE /\ badblocks' = FALSE
            /\ UNCHANGED <<active, closed, durable_end, device_end>>
       ELSE /\ Durable(t)
            /\ active' = <<>>
            /\ closed' = IF active = <<>> THEN closed ELSE Append(closed, active)
            /\ durable_end' = FlushedByRotation /\ device_end' = FlushedByRotation
            /\ UNCHANGED <<poisoned, badblocks>>
    /\ UNCHANGED <<status, file, disk, next_seq, flushing, dropped, retireVars, ops, walFaults>>

-----------------------------------------------------------------------------
(* Retiring segments: the background thread, and a checkpoint.             *)

\* A tick closes an aged segment, leads a flush of appends nobody flushed, or
\* goes straight to the closed segments.
tick ==
    /\ status = "up" /\ task[Ticker] = Idle /\ ~poisoned
    /\ \E pc \in {"rotate", "lead", "retire"} :
          /\ pc = "rotate" => flushing = None /\ active # <<>>
          /\ pc = "lead" => flushing = None /\ durable_end < next_seq
          /\ pc = "retire" => closed # <<>>
          /\ task' = [task EXCEPT ![Ticker] =
                [Idle EXCEPT !.op = "Tick", !.pc = pc, !.covered = IF pc = "lead" THEN next_seq ELSE 0]]
          /\ flushing' = IF pc = "lead" THEN Ticker ELSE flushing
    /\ UNCHANGED <<status, file, disk, active, closed, next_seq, durable_end, device_end, poisoned, badblocks,
                   dropped, retireVars, inflight, may, ops, walFaults>>

\* Retirement is over with so many segments still queued: the tick ends; a
\* checkpoint goes on when there is none, with every record below the watermark
\* durable, and otherwise tries again or gives up.
Retired(t, waiting) ==
    IF t = Ticker THEN FailClean(t)
    ELSE IF waiting = 0
    THEN /\ task' = [task EXCEPT ![t] = [@ EXCEPT !.pc = "big", !.seq = durable_end - 1]]
         /\ UNCHANGED <<inflight, may>>
    ELSE (Goto(t, "rotate") /\ UNCHANGED <<inflight, may>>) \/ FailClean(t)

Outstanding(segment) == \E i \in DOMAIN segment : segment[i].seq \in inflight

\* The files of the oldest segment of the queue are flushed ...
FlushFiles(t, queue) ==
    /\ retiring' = [by |-> t, queue |-> queue, unlinking |-> TRUE]
    /\ disk' = [k \in Key |-> IF k \in Touched(queue[1]) \ suspect THEN {file[k]} ELSE disk[k]]

\* The queue is taken.
retire_closed(t) ==
    /\ task[t].pc = "retire" /\ retiring.by = None
    /\ IF closed = <<>> \/ Outstanding(closed[1])
       THEN Retired(t, Len(closed)) /\ UNCHANGED <<disk, closed, retiring>>
       ELSE /\ Goto(t, "retiring") /\ UNCHANGED <<inflight, may>>
            /\ FlushFiles(t, closed) /\ closed' = <<>>
    /\ UNCHANGED <<status, file, active, next_seq, durable_end, device_end, flushing, poisoned, badblocks,
                   dropped, unlinked, orphans, suspect, ops, walFaults>>

retire_flush(t) ==
    /\ retiring.by = t /\ ~retiring.unlinking /\ retiring.queue # <<>>
    /\ ~Outstanding(retiring.queue[1])
    /\ FlushFiles(t, retiring.queue)
    /\ UNCHANGED <<status, file, logVars, unlinked, orphans, suspect, inflight, task, may, ops, walFaults>>

\* ... and then it is removed.
retire_unlink(t) ==
    /\ retiring.by = t /\ retiring.unlinking
    /\ unlinked' = Append(unlinked, retiring.queue[1])
    /\ retiring' = [by |-> t, queue |-> Tail(retiring.queue), unlinking |-> FALSE]
    /\ UNCHANGED <<status, file, disk, logVars, orphans, suspect, inflight, task, may, ops, walFaults>>

\* Mutant: what is left goes back behind the segments closed meanwhile.
Requeued_Behind == closed \o retiring.queue

Requeued == retiring.queue \o closed

\* The log directory is flushed, and what could not be retired goes back.
retire_end(t) ==
    /\ retiring.by = t /\ ~retiring.unlinking
    /\ retiring.queue # <<>> => Outstanding(retiring.queue[1])
    /\ Retired(t, Len(retiring.queue))
    /\ closed' = Requeued /\ retiring' = NotRetiring /\ unlinked' = <<>>
    /\ UNCHANGED <<status, file, disk, active, next_seq, durable_end, device_end, flushing, poisoned, badblocks,
                   dropped, orphans, suspect, ops, walFaults>>

\* The tick or the oversized write fails.  The retirement is over, and no later one
\* looks at the segments it has removed: they are off the queue.
RetireFailed(t) ==
    /\ FailClean(t)
    /\ closed' = Requeued /\ retiring' = NotRetiring
    /\ UNCHANGED <<status, file, disk, active, next_seq, durable_end, device_end, flushing, poisoned, badblocks,
                   dropped, orphans, ops>>

\* The log directory cannot be flushed.
retire_dir_fails(t) ==
    /\ retiring.by = t /\ ~retiring.unlinking
    /\ retiring.queue # <<>> => Outstanding(retiring.queue[1])
    /\ Mishap("dir_flush")
    /\ RetireFailed(t)
    /\ UNCHANGED <<unlinked, suspect>>

\* A flush of a segment's files that fails.  The error is reported once: whatever
\* it was about may stay off the device although the next flush succeeds.
FlushFails(segment) ==
    \E keys \in SUBSET Touched(segment) : suspect' = suspect \union keys

\* A file could not be flushed, or the segment not be removed.  What was removed
\* before it is flushed, if it can be.
retire_fails(t) ==
    /\ \/ /\ task[t].pc = "retire" /\ retiring.by = None
          /\ closed # <<>> /\ ~Outstanding(closed[1])
          /\ FlushFails(closed[1]) /\ UNCHANGED unlinked
       \/ /\ retiring.by = t
          /\ IF retiring.unlinking THEN UNCHANGED suspect
             ELSE retiring.queue # <<>> /\ ~Outstanding(retiring.queue[1]) /\ FlushFails(retiring.queue[1])
          /\ \/ unlinked' = <<>>
             \/ "dir_flush" \in WalFault /\ UNCHANGED unlinked
    /\ Mishap("key_flush")
    /\ RetireFailed(t)

-----------------------------------------------------------------------------
(* Power loss and restart.                                                 *)

\* Whether w's operation can have left something behind.
Begun(w) == task[w].held # {} \/ (task[w].op = "Insert" /\ task[w].pc = "append")

\* A segment that has records, as the list of segments it is.
Segments(segment) == IF segment = <<>> THEN <<>> ELSE <<segment>>

\* The closed segments that a power loss may leave.
Survivors ==
    {old \o retiring.queue \o (IF status = "flushed" THEN <<>> ELSE closed) :
        old \in Suffixes(IF status = "flushed" THEN closed ELSE unlinked)}

\* Every file comes back as one of the contents it may have on the device.  Of
\* the log, removals that were not flushed come undone (the latest first), and
\* of the unflushed frames those before the first one that was lost survive.  A
\* later one that does, too, is damage to replay.
PowerLoss ==
    /\ status \in {"up", "applied", "flushed"} /\ Mishap("power")
    /\ LET dirty == {k \in Key : disk[k] # {file[k]}} IN
       \E f \in [dirty -> Contents] :
          /\ \A k \in dirty : f[k] \in disk[k]
          /\ file' = [k \in Key |-> IF k \in dirty THEN f[k] ELSE file[k]]
          /\ disk' = [k \in Key |-> {file'[k]}]
    /\ \E n \in 0 .. Len(active) :
          /\ \A i \in 1 .. n : dropped # None => active[i].seq < dropped
          /\ \A i \in n + 1 .. Len(active) : active[i].seq >= device_end
          /\ \E old \in Survivors : closed' = old \o Segments(SubSeq(active, 1, n))
          /\ orphans' = IF status = "flushed" THEN {}
                        ELSE orphans \union (IF n = 0 /\ active # <<>> THEN {active[1].seq} ELSE {})
          /\ status' \in {"down"} \union (IF n + 2 <= Len(active) THEN {"damaged"} ELSE {})
    /\ may' = [k \in Key |->
          LET cut == {w \in Writer : task[w].key = k /\ Begun(w)} IN
          may[k] \o SetToSeq({OutcomeOf(w, None) : w \in cut})]
    /\ active' = <<>> /\ unlinked' = <<>> /\ retiring' = NotRetiring
    /\ flushing' = None /\ poisoned' = FALSE /\ badblocks' = FALSE /\ dropped' = None
    /\ inflight' = {} /\ task' = [t \in Task |-> Idle]
    /\ next_seq' = 1 /\ durable_end' = 1 /\ device_end' = 1   \* in memory: replay sets them
    /\ UNCHANGED <<suspect, ops>>

Left == FlattenSeq(closed)

\* Mutant: cancelled records are applied too.
Cancelled_None == {}

Cancelled == {Left[i].val : i \in {j \in DOMAIN Left : Left[j].op = "Cancel"}}

\* What record r makes of a file.
apply(current, r) ==
    CASE r.op = "Write" -> r.val
      [] r.op = "Insert" -> IF current = None THEN r.val ELSE current
      [] r.op = "Cas" -> IF current \in {None, r.exp} THEN r.val ELSE current
      [] r.op = "Delete" -> None

\* The n-th record is one of k's, and applies.
Applies(k, n) ==
    Left[n].key = k /\ Left[n].op # "Cancel" /\ Left[n].seq \notin Cancelled

\* The contents of k after the first n records.
Replayed(k) ==
    LET after[n \in 0 .. Len(Left)] ==
            IF n = 0 THEN file[k]
            ELSE IF Applies(k, n) THEN apply(after[n - 1], Left[n]) ELSE after[n - 1] IN
    after

\* An empty segment that the next one does not continue.
Refused ==
    IF Left = <<>> THEN Cardinality(orphans) > 1 ELSE \E s \in orphans : s < Left[1].seq

replay_refuses ==
    /\ status = "down" /\ Refused
    /\ status' = "refused"
    /\ UNCHANGED <<file, disk, logVars, retireVars, inflight, task, may, ops, walFaults>>

\* replay: the records in order, the cancelled ones left out.
replay_apply ==
    /\ status = "down" /\ ~Refused
    /\ file' = [k \in Key |-> Replayed(k)[Len(Left)]]
    /\ disk' = [k \in Key |->
          IF \E n \in DOMAIN Left : Applies(k, n)
          THEN disk[k] \union {Replayed(k)[n] : n \in DOMAIN Left} \union {None}
          ELSE disk[k]]
    /\ status' = "applied"
    /\ UNCHANGED <<logVars, retireVars, inflight, task, may, ops, walFaults>>

\* What it touched is flushed.
replay_flush ==
    /\ status = "applied"
    /\ disk' = [k \in Key |-> IF k \in Touched(Left) THEN {file[k]} ELSE disk[k]]
    /\ status' = "flushed"
    /\ UNCHANGED <<file, logVars, retireVars, inflight, task, may, ops, walFaults>>

\* The segments are removed, and numbering goes on.
replay_unlink ==
    /\ status = "flushed"
    /\ next_seq' = IF closed # <<>> THEN Last(Last(closed)).seq + 1
                   ELSE IF orphans # {} THEN CHOOSE s \in orphans : TRUE ELSE 1
    /\ durable_end' = next_seq' /\ device_end' = next_seq'
    /\ closed' = <<>> /\ orphans' = {}
    /\ status' = "replayed"
    /\ UNCHANGED <<file, disk, active, flushing, poisoned, badblocks, dropped, unlinked, retiring, suspect,
                   inflight, task, may, ops, walFaults>>

\* The root is used again.
Reopen ==
    /\ status = "replayed"
    /\ status' = "up"
    /\ may' = [k \in Key |-> <<[seq |-> 0, val |-> file[k], op |-> None]>>]
    /\ suspect' = {}
    /\ UNCHANGED <<file, disk, logVars, unlinked, retiring, orphans, inflight, task, ops, walFaults>>

-----------------------------------------------------------------------------
TaskStep(t) ==
    \/ wait_durable(t) \/ lead_flush(t) \/ flush_returns(t) \/ flush_unwinds(t) \/ rotate(t)
    \/ retire_closed(t) \/ retire_flush(t) \/ retire_unlink(t) \/ retire_end(t)

RetirementFails(t) == retire_dir_fails(t) \/ retire_fails(t)

WriterStep(w) ==
    \/ write_file(w) \/ write_fails(w) \/ big_write(w) \/ big_write_fails(w)
    \/ append(w) \/ append_fails(w) \/ open_segment_fails(w)

Restart == replay_refuses \/ replay_apply \/ replay_flush \/ replay_unlink \/ Reopen

WalNext ==
    \/ \E w \in Writer : begin_operation(w) \/ WriterStep(w)
    \/ \E t \in Task : TaskStep(t) \/ RetirementFails(t)
    \/ tick \/ WritebackFails \/ PowerLoss \/ Restart

WalSpec == WalInit /\ [][WalNext]_walVars

-----------------------------------------------------------------------------
(* Properties.                                                             *)

\* Every variable has its type; the watermark does not overtake the log, and a
\* guard is held only on a record that was written.
WalTypeOK ==
    /\ status \in {"up", "down", "applied", "flushed", "replayed", "refused", "damaged"}
    /\ file \in [Key -> Contents]
    /\ \A k \in Key : disk[k] \subseteq Contents /\ file[k] \in disk[k] /\ may[k] # <<>>
    /\ next_seq \in Nat /\ durable_end \in 1 .. next_seq
    /\ flushing \in Task \union {None} /\ retiring.by \in Task \union {None}
    /\ poisoned \in BOOLEAN /\ badblocks \in BOOLEAN
    /\ inflight \subseteq 1 .. next_seq - 1 /\ orphans \subseteq Nat \ {0} /\ suspect \subseteq Key

\* Replay brings every key back to the outcome of its last durable operation or
\* of a later one: what was acknowledged as durable survives (a compare-and-swap
\* and an insert, and every record before them), nothing rolls it back, and a
\* cancelled record does not come to life.  (A blob whose replacement was not
\* durable may come back empty: MayHold.)  Excepted are the keys of a failed
\* flush, and an oversized file that a removed segment may reappear for.
DurableSurvives == status = "replayed" => \A k \in Key \ suspect : file[k] \in MayHold(k)

\* "nothing left to replay may touch the key the write lands on, or a crash would
\* undo a write the caller was told is durable" (write_plan, file.rs).
OversizedNotUndone == status = "replayed" => \A k \in BigBlob : file[k] \in MayHold(k)

\* "Flush the files each closed segment covered, then remove the segment"
\* (retire_closed, wal.rs): no durable outcome is lost with the segment.
RemovedIsFlushed == status = "replayed" => \A k \in Key : file[k] \in MayHold(k)

\* A write of a blob that was there already is not durable yet.
Rewritten(b) == \E i \in 2 .. Len(may[b]) : may[b][i].op = "Write" /\ may[b][i - 1].val # None

\* h named b already when the root was opened, and b was empty then.
LostBefore(h, b) == may[h][1].op = None /\ may[h][1].val = b /\ may[b][1].val = None

\* "A head on disk always has its log record - and every content append before
\* it - on disk too": after a restart the blob a head names is there, also when
\* the head's publication was never acknowledged, unless somebody deleted it, was
\* writing it once more, an earlier restart had lost it that way, or it is one of
\* the files whose flush had failed.
HeadHasContent ==
    status = "replayed" =>
        \A h \in HeadKey : file[h] \in BlobKey \ (Deletable \union suspect) =>
            file[file[h]] # None \/ Rewritten(file[h]) \/ LostBefore(h, file[h])

\* "a crash before then leaves an unreferenced file at worst" (write_bytes_durable,
\* file.rs): no head names a file that is empty or absent.
HeadNeverEmpty ==
    status = "replayed" =>
        \A h \in HeadKey : file[h] \in BlobKey \ Deletable => file[file[h]] # None

\* "An unflushed frame is always in the active segment": what the leader's
\* expect() relies on, and why flushing that one file covers every append.
UnflushedInActive ==
    status = "up" =>
        \A s \in durable_end .. next_seq - 1 :
            \E i \in DOMAIN active : active[i].seq = s

\* A power loss at any point leaves segments that continue one another, oldest
\* first, removals that come undone included: the chain of first numbers that
\* replay follows is not broken.  (A segment whose opening failed is not of the
\* chain, and may make replay refuse it; nor is this about a tail whose frames
\* reached the device out of order, which replay refuses on purpose.)
NoHoleInLog ==
    LET left == unlinked \o retiring.queue \o closed \o Segments(active) IN
    /\ \A i \in DOMAIN left : /\ left[i] # <<>>
                              /\ \A j \in 1 .. Len(left[i]) - 1 :
                                    left[i][j + 1].seq = left[i][j].seq + 1
    /\ \A i \in 1 .. Len(left) - 1 : left[i + 1][1].seq = Last(left[i]).seq + 1

\* "no later segment is ever removed ahead of an earlier one and replay never
\* meets a hole" (retire_closed, wal.rs).
ReplayMeetsNoHole == status # "refused"

\* Nobody waits for somebody who is gone: while the flushing flag is set its
\* leader is inside the device flush, and while the queue of closed segments is
\* taken its taker is at work, also after a flush failed.
NobodyParkedForGood ==
    /\ flushing # None => task[flushing].pc = "lead"
    /\ retiring.by # None => task[retiring.by].pc = "retiring"

=============================================================================
