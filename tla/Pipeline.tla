------------------------------ MODULE Pipeline ------------------------------
(***************************************************************************)
(* The data path of one engine (moat-engine, pipeline/): a bounded I/O     *)
(* queue, the in-memory index, and the order in which writes are           *)
(* published, all owned by one thread.  API calls (Write, Read, Flush) put *)
(* a pending operation in a slot; Poll, modelled phase by phase because    *)
(* the device completes requests while it runs, retires them.  The         *)
(* lifecycle job of the engine shares the queue through one control        *)
(* request that has no slot.                                               *)
(*                                                                         *)
(* A frame is the sequence of its index entries; payload bytes, extents    *)
(* and buffers are abstracted away.  `outcome' and `restored' are history: *)
(* what was accepted under each ticket and which completion it received.   *)
(***************************************************************************)
EXTENDS Index, Integers, Sequences, FiniteSets, FiniteSetsExt

CONSTANTS
    Slots,          \* one per request of queue.depth()
    CONTROL,        \* CONTROL_TOKEN, the token of the lifecycle request
    None,
    Keys,
    Frames,         \* the frames callers may write: sequences of entries
    SegmentFrames,  \* frames that fit in one segment
    IndexEntries, PendingRecords,   \* ResourceLimits
    OpsBudget, BytesBudget, RecordsBudget,  \* PollBudget
    TicketLimit,    \* u64::MAX in the code
    SyncEnabled     \* SyncMode::Enabled

Depth == Cardinality(Slots)
Tokens == Slots \cup {CONTROL}
Entry == [key : Keys, lsn : Nat, kind : {"data", "tombstone"}]

Ops == {"write", "read", "verified", "empty", "flush"}
Stages == {"io", "ok", "err", "metadata", "value", "inline", "queued", "submitted"}
Pending == [op : Ops, ticket : Nat, stage : Stages, entries : Seq(Entry), reserved : Nat]

ASSUME PipelineAssumption ==
    /\ IsFiniteSet(Slots) /\ Slots # {} /\ CONTROL \notin Slots
    /\ None \notin Slots /\ None \notin Nat /\ None \notin Pending
    /\ IsFiniteSet(Keys)
    /\ Frames \subseteq Seq(Entry) /\ \A f \in Frames : f # <<>>
    /\ SegmentFrames \in Nat \ {0}
    /\ IndexEntries \in Nat \ {0} /\ PendingRecords \in Nat \ {0}
    /\ OpsBudget \in Nat \ {0} /\ BytesBudget \in Nat \ {0} /\ RecordsBudget \in Nat \ {0}
    /\ TicketLimit \in Nat \ {0}
    /\ SyncEnabled \in BOOLEAN

VARIABLES
    slots,          \* what each slot holds: a Pending record or None
    io,             \* the queue: each token is idle, busy, or completed ok / err
    writes,         \* slots of accepted writes, in submission order
    ready_reads,    \* slots of empty reads, which need no I/O
    flush,          \* the slot of the pending flush, or None
    next_ticket,
    serving,        \* set by the first admission; ends restore
    failed_at,      \* smallest ticket whose write or sync failed; 0 for none
    queue_failed,
    failed_seen,    \* slots already visited by retire_failed (failed_cursor)
    control,        \* the lifecycle request: none, queued, active, or done ok / err
    maintenance,    \* a lifecycle job is present
    segment,        \* frames appended to the active segment, or None
    index,          \* newest published entry of each indexed key
    pending_entries, pending_new,
    pc, emitted, work,          \* local state of poll
    outcome, restored           \* history

queueVars == <<slots, io, writes, ready_reads, flush>>
ticketVars == <<next_ticket, serving, outcome>>
failVars == <<failed_at, queue_failed, failed_seen>>
ownerVars == <<control, maintenance, segment>>
indexVars == <<index, pending_entries, pending_new, restored>>
pollVars == <<pc, emitted, work>>
vars == <<queueVars, ticketVars, failVars, ownerVars, indexVars, pollVars>>

Phases == {"idle", "retire1", "flush1", "control1", "reads", "poll", "reap",
           "retire2", "flush2", "control2", "failing"}

NoWork == [operations |-> 0, bytes |-> 0, records |-> 0]

Init ==
    /\ slots = [s \in Slots |-> None]
    /\ io = [t \in Tokens |-> "idle"]
    /\ writes = <<>> /\ ready_reads = <<>> /\ flush = None
    /\ next_ticket = 1 /\ serving = FALSE
    /\ failed_at = 0 /\ queue_failed = FALSE /\ failed_seen = {}
    /\ control = "none" /\ maintenance = FALSE /\ segment = None
    /\ index = <<>> /\ pending_entries = 0 /\ pending_new = 0
    /\ pc = "idle" /\ emitted = FALSE /\ work = NoWork
    /\ outcome = <<>> /\ restored = {}

(***************************************************************************)
(* The queue and the index                                                 *)
(***************************************************************************)
InQueue == {t \in Tokens : io[t] # "idle"}
Vacant == Depth - Cardinality(InQueue)
Free == {s \in Slots : slots[s] = None}
InFlight == Slots \ Free
WritesPending == writes # <<>> \/ flush # None

\* The reservation is the record count while that fits, otherwise the number of
\* distinct keys the index does not hold yet.
ReservedNew(entries) ==
    IF Cardinality(DOMAIN index) + pending_new + Len(entries) > IndexEntries
    THEN Cardinality(KeysOf(entries) \ DOMAIN index)
    ELSE Len(entries)
IndexFits(entries) ==
    Cardinality(DOMAIN index) + pending_new + ReservedNew(entries) <= IndexEntries

(***************************************************************************)
(* Admission of API calls.  A rejected call changes nothing.               *)
(***************************************************************************)
RoomUnchecked == TRUE           \* mutant: the queue's vacancy is not checked
RoomNoReserve == Vacant > 0     \* mutant: no place is kept for the lifecycle job
Room == Vacant > (IF maintenance THEN 1 ELSE 0)

Admission(write) ==
    /\ pc = "idle"
    /\ ~queue_failed
    /\ write => segment # None /\ failed_at = 0 /\ flush = None
    /\ Free # {}
    /\ Room
    /\ next_ticket < TicketLimit

TakeSlotSameTicket(s, p) ==     \* mutant: the ticket counter is not advanced
    /\ slots[s] = None
    /\ slots' = [slots EXCEPT ![s] = p]
    /\ serving' = TRUE
    /\ next_ticket' = next_ticket
    /\ outcome' = Append(outcome, [op |-> p.op, entries |-> p.entries, result |-> "pending"])

TakeSlot(s, p) ==
    /\ slots[s] = None
    /\ slots' = [slots EXCEPT ![s] = p]
    /\ serving' = TRUE
    /\ next_ticket' = next_ticket + 1
    /\ outcome' = Append(outcome, [op |-> p.op, entries |-> p.entries, result |-> "pending"])

\* The queue accepts unconditionally: the code panics if it is full.
Submit(t) == io' = [io EXCEPT ![t] = "busy"]

SegmentFits == segment < SegmentFrames

Queued(s) == Append(writes, s)

Write(frame, s) ==
    /\ Admission(TRUE)
    /\ SegmentFits
    /\ pending_entries + Len(frame) <= PendingRecords
    /\ IndexFits(frame)
    /\ TakeSlot(s, [op |-> "write", ticket |-> next_ticket, stage |-> "io",
                    entries |-> frame, reserved |-> ReservedNew(frame)])
    /\ segment' = segment + 1
    /\ pending_entries' = pending_entries + Len(frame)
    /\ pending_new' = pending_new + ReservedNew(frame)
    /\ writes' = Queued(s)
    /\ Submit(s)
    /\ UNCHANGED <<ready_reads, flush, failVars, control, maintenance, index, restored, pollVars>>

\* A write that passes admission but finds the active segment full.
WriteFull == Admission(TRUE) /\ ~SegmentFits

\* The newest published version is captured at admission.
ReadOf(k, op, stage) == [op |-> op, ticket |-> next_ticket, stage |-> stage,
                         entries |-> <<index[k]>>, reserved |-> 0]

Read(k, s) ==
    /\ Admission(FALSE)
    /\ Located(index, k)
    /\ TakeSlot(s, ReadOf(k, "read", "io"))
    /\ Submit(s)
    /\ UNCHANGED <<writes, ready_reads, flush, failVars, ownerVars, indexVars, pollVars>>

ReadEmpty(k, s) ==
    /\ Admission(FALSE)
    /\ Located(index, k)
    /\ TakeSlot(s, ReadOf(k, "empty", "queued"))
    /\ ready_reads' = Append(ready_reads, s)
    /\ UNCHANGED <<io, writes, flush, failVars, ownerVars, indexVars, pollVars>>

\* A verified read first fetches metadata; "inline" when that already covers the value.
ReadVerified(k, inline, s) ==
    /\ Admission(FALSE)
    /\ Located(index, k)
    /\ TakeSlot(s, ReadOf(k, "verified", IF inline THEN "inline" ELSE "metadata"))
    /\ Submit(s)
    /\ UNCHANGED <<writes, ready_reads, flush, failVars, ownerVars, indexVars, pollVars>>

\* A flush takes a slot now and a queue request only once every write has retired.
Flush(s) ==
    /\ Admission(FALSE)
    /\ failed_at = 0
    /\ flush = None
    /\ TakeSlot(s, [op |-> "flush", ticket |-> next_ticket, stage |-> "queued",
                    entries |-> <<>>, reserved |-> 0])
    /\ flush' = s
    /\ UNCHANGED <<io, writes, ready_reads, failVars, ownerVars, indexVars, pollVars>>

(***************************************************************************)
(* The owner's lifecycle interface                                         *)
(***************************************************************************)
\* A lifecycle completion takes its number from the same counter.
IssueTicket ==
    /\ next_ticket < TicketLimit
    /\ next_ticket' = next_ticket + 1
    /\ outcome' = Append(outcome, [op |-> "lifecycle", entries |-> <<>>, result |-> "pending"])
    /\ UNCHANGED serving

\* A job starts, with a ticket unless the engine started it by itself.
BeginMaintenance(ticketed) ==
    /\ pc = "idle"
    /\ IF ticketed THEN IssueTicket ELSE UNCHANGED ticketVars
    /\ maintenance' = TRUE
    /\ UNCHANGED <<queueVars, failVars, control, segment, indexVars, pollVars>>

\* A ticket is taken for a job that then cannot start.
WasteTicket ==
    /\ pc = "idle"
    /\ IssueTicket
    /\ UNCHANGED <<queueVars, failVars, ownerVars, indexVars, pollVars>>

EndMaintenance ==
    /\ pc = "idle"
    /\ maintenance' = FALSE
    /\ UNCHANGED <<queueVars, ticketVars, failVars, control, segment, indexVars, pollVars>>

ControlIo ==
    /\ pc = "idle"
    /\ ~queue_failed
    /\ control = "none"
    /\ control' = "queued"
    /\ UNCHANGED <<queueVars, ticketVars, failVars, maintenance, segment, indexVars, pollVars>>

TakeControl ==
    /\ pc = "idle"
    /\ control \in {"ok", "err"}
    /\ control' = "none"
    /\ UNCHANGED <<queueVars, ticketVars, failVars, maintenance, segment, indexVars, pollVars>>

\* Attaching a recovered segment read-only has the same guard and adds only a route.
Attach ==
    /\ pc = "idle"
    /\ ~WritesPending
    /\ segment = None
    /\ ~queue_failed
    /\ failed_at = 0
    /\ segment' = 0
    /\ UNCHANGED <<queueVars, ticketVars, failVars, control, maintenance, indexVars, pollVars>>

TakeFailedSegment ==    \* mutant: a failed write does not stop sealing
    /\ pc = "idle"
    /\ ~WritesPending
    /\ ~queue_failed
    /\ segment' = None
    /\ UNCHANGED <<queueVars, ticketVars, failVars, control, maintenance, indexVars, pollVars>>

TakeSegment ==
    /\ pc = "idle"
    /\ ~WritesPending
    /\ ~queue_failed
    /\ failed_at = 0
    /\ segment' = None
    /\ UNCHANGED <<queueVars, ticketVars, failVars, control, maintenance, indexVars, pollVars>>

Restore(frame) ==
    /\ pc = "idle"
    /\ segment = None
    /\ ~serving
    /\ IndexFits(frame)
    /\ index' = Apply(index, frame)
    /\ restored' = restored \cup EntriesOf(frame)
    /\ UNCHANGED <<queueVars, ticketVars, failVars, ownerVars, pending_entries, pending_new, pollVars>>

(***************************************************************************)
(* The device completes submitted requests in any order; a short transfer  *)
(* counts as an error.  A completion can be seen once queue.poll collects  *)
(* it (or while a synchronous queue is being popped), so it is placed      *)
(* there; after a queue failure nothing is popped any more.                *)
(***************************************************************************)
DeviceComplete(t, result) ==
    /\ pc \in {"poll", "reap"}
    /\ io[t] = "busy"
    /\ io' = [io EXCEPT ![t] = result]
    /\ UNCHANGED <<slots, writes, ready_reads, flush, ticketVars, failVars, ownerVars, indexVars, pollVars>>

(***************************************************************************)
(* Poll                                                                    *)
(***************************************************************************)
Exhausted ==
    \/ work.operations >= OpsBudget
    \/ work.bytes >= BytesBudget
    \/ work.records >= RecordsBudget

FrontCompleted == writes # <<>> /\ slots[Head(writes)].stage \in {"ok", "err"}

HasReadyNoWrites ==     \* mutant: a completed write left by the budget is forgotten
    IF queue_failed THEN InFlight # {}
    ELSE \/ \E t \in Tokens : io[t] \in {"ok", "err"}
         \/ control = "queued" /\ Vacant # 0
         \/ ready_reads # <<>>
         \/ control \in {"ok", "err"}

HasReady ==
    IF queue_failed THEN InFlight # {}
    ELSE \/ \E t \in Tokens : io[t] \in {"ok", "err"}
         \/ control = "queued" /\ Vacant # 0
         \/ ready_reads # <<>>
         \/ control \in {"ok", "err"}
         \/ FrontCompleted

Goto(phase) == pc' = phase /\ UNCHANGED <<emitted, work>>
Return == pc' = "idle" /\ emitted' = FALSE /\ work' = NoWork

Emit(t, result) ==
    /\ outcome' = [outcome EXCEPT ![t].result = result]
    /\ emitted' = TRUE

Worked(operations, bytes, records) ==
    work' = [operations |-> work.operations + operations,
             bytes |-> work.bytes + bytes,
             records |-> work.records + records]

PollNothingFailed ==    \* mutant: poll returns at once after a queue failure
    /\ pc = "idle"
    /\ pc' = IF queue_failed THEN "idle" ELSE "retire1"
    /\ emitted' = FALSE /\ work' = NoWork
    /\ UNCHANGED <<queueVars, ticketVars, failVars, ownerVars, indexVars>>

PollBegin ==
    /\ pc = "idle"
    /\ pc' = IF queue_failed THEN "failing" ELSE "retire1"
    /\ emitted' = FALSE /\ work' = NoWork
    /\ UNCHANGED <<queueVars, ticketVars, failVars, ownerVars, indexVars>>

RetireOwnResult(write) == write.stage   \* mutant: an earlier failure is ignored

\* A write after a failed one fails too, whatever the device said.
RetireResult(write) ==
    IF failed_at # 0 /\ write.ticket > failed_at THEN "err" ELSE write.stage

ReleaseEntries(p) ==    \* mutant: the index reservation is not returned
    /\ pending_entries' = pending_entries - (IF p.op = "write" THEN Len(p.entries) ELSE 0)
    /\ UNCHANGED pending_new

Release(p) ==
    /\ pending_entries' = pending_entries - (IF p.op = "write" THEN Len(p.entries) ELSE 0)
    /\ pending_new' = pending_new - p.reserved

\* One iteration of retire_writes.

RetireWrite ==
    LET slot == Head(writes)
        write == slots[slot]
    IN  /\ pc \in {"retire1", "retire2"}
        /\ ~Exhausted
        /\ FrontCompleted
        /\ writes' = Tail(writes)
        /\ slots' = [slots EXCEPT ![slot] = None]
        /\ Release(write)
        /\ Worked(1, 0, Len(write.entries))
        /\ index' = IF RetireResult(write) = "ok" THEN Apply(index, write.entries) ELSE index
        /\ Emit(write.ticket, RetireResult(write))
        /\ UNCHANGED <<io, ready_reads, flush, next_ticket, serving, failVars, ownerVars,
                       restored, pc>>

AfterRetire == IF pc = "retire1" THEN "flush1" ELSE "flush2"

RetireEnd ==
    /\ pc \in {"retire1", "retire2"}
    /\ Exhausted \/ ~FrontCompleted
    /\ Goto(AfterRetire)
    /\ UNCHANGED <<queueVars, ticketVars, failVars, ownerVars, indexVars>>

FlushAnyTime == flush # None /\ slots[flush].stage = "queued"  \* mutant: writes not awaited
FlushRunnable == flush # None /\ writes = <<>> /\ slots[flush].stage = "queued"
AfterFlush == IF pc = "flush1" THEN "control1" ELSE "control2"

FlushSkip ==
    /\ pc \in {"flush1", "flush2"}
    /\ ~FlushRunnable
    /\ Goto(AfterFlush)
    /\ UNCHANGED <<queueVars, ticketVars, failVars, ownerVars, indexVars>>

\* A failed write fails the flush; with sync disabled it succeeds at once.
FlushFinish ==
    /\ pc \in {"flush1", "flush2"}
    /\ FlushRunnable
    /\ failed_at # 0 \/ ~SyncEnabled
    /\ slots' = [slots EXCEPT ![flush] = None]
    /\ flush' = None
    /\ Emit(slots[flush].ticket, IF failed_at # 0 THEN "err" ELSE "ok")
    /\ pc' = AfterFlush
    /\ UNCHANGED <<io, writes, ready_reads, next_ticket, serving, failVars, ownerVars,
                   indexVars, work>>

FlushSubmit ==
    /\ pc \in {"flush1", "flush2"}
    /\ FlushRunnable
    /\ failed_at = 0 /\ SyncEnabled
    /\ slots' = [slots EXCEPT ![flush].stage = "submitted"]
    /\ Submit(flush)
    /\ Goto(AfterFlush)
    /\ UNCHANGED <<writes, ready_reads, flush, ticketVars, failVars, ownerVars, indexVars>>

StartControl ==
    /\ pc \in {"control1", "control2"}
    /\ IF control = "queued" /\ Vacant > 0
       THEN control' = "active" /\ Submit(CONTROL)
       ELSE UNCHANGED <<control, io>>
    /\ IF pc = "control1" THEN Goto("reads") ELSE Return
    /\ UNCHANGED <<slots, writes, ready_reads, flush, ticketVars, failVars, maintenance,
                   segment, indexVars>>

CompleteEmptyRead ==
    LET slot == Head(ready_reads)
    IN  /\ pc = "reads"
        /\ ~Exhausted
        /\ ready_reads # <<>>
        /\ ready_reads' = Tail(ready_reads)
        /\ slots' = [slots EXCEPT ![slot] = None]
        /\ Emit(slots[slot].ticket, "ok")
        /\ Worked(1, 0, 0)
        /\ UNCHANGED <<io, writes, flush, next_ticket, serving, failVars, ownerVars,
                       indexVars, pc>>

ReadsEnd ==
    /\ pc = "reads"
    /\ Exhausted \/ ready_reads = <<>>
    /\ Goto("poll")
    /\ UNCHANGED <<queueVars, ticketVars, failVars, ownerVars, indexVars>>

\* The argument of queue.poll when the caller asks to wait: it then sleeps until some
\* request completes.
MaySleep == ~emitted /\ ~HasReady

QueuePoll ==
    /\ pc = "poll"
    /\ Goto("reap")
    /\ UNCHANGED <<queueVars, ticketVars, failVars, ownerVars, indexVars>>

QueueError ==
    /\ pc = "poll"
    /\ queue_failed' = TRUE
    /\ Goto("failing")
    /\ UNCHANGED <<queueVars, ticketVars, failed_at, failed_seen, ownerVars, indexVars>>

\* queue.pop and `complete', one action per kind of pending operation.
Pop(t) ==
    /\ pc = "reap"
    /\ ~Exhausted
    /\ io[t] \in {"ok", "err"}

ReapControlLost(bytes) ==   \* mutant: the control completion is dropped
    /\ Pop(CONTROL)
    /\ io' = [io EXCEPT ![CONTROL] = "idle"]
    /\ Worked(1, bytes, 0)
    /\ UNCHANGED <<slots, writes, ready_reads, flush, ticketVars, failVars, ownerVars,
                   indexVars, pc, emitted>>

ReapControl(bytes) ==
    /\ Pop(CONTROL)
    /\ io' = [io EXCEPT ![CONTROL] = "idle"]
    /\ control' = io[CONTROL]
    /\ Worked(1, bytes, 0)
    /\ UNCHANGED <<slots, writes, ready_reads, flush, ticketVars, failVars, maintenance,
                   segment, indexVars, pc, emitted>>

ReapWrite(s) ==
    /\ Pop(s)
    /\ slots[s].op = "write"
    /\ io' = [io EXCEPT ![s] = "idle"]
    /\ slots' = [slots EXCEPT ![s].stage = io[s]]
    /\ failed_at' = IF io[s] = "err" /\ (failed_at = 0 \/ slots[s].ticket < failed_at)
                    THEN slots[s].ticket ELSE failed_at
    /\ Worked(1, 0, 0)
    /\ UNCHANGED <<writes, ready_reads, flush, ticketVars, queue_failed, failed_seen,
                   ownerVars, indexVars, pc, emitted>>

\* A read that ends here: a direct read, a failed or corrupt verified read, or one whose
\* value is already in hand.
ReapRead(s, result) ==
    /\ Pop(s)
    /\ \/ slots[s].op = "read" /\ result = io[s]
       \/ slots[s].op = "verified" /\ result = "err"
       \/ slots[s].op = "verified" /\ result = "ok"
          /\ io[s] = "ok" /\ slots[s].stage \in {"inline", "value"}
    /\ io' = [io EXCEPT ![s] = "idle"]
    /\ slots' = [slots EXCEPT ![s] = None]
    /\ Emit(slots[s].ticket, result)
    /\ Worked(1, 1, 0)
    /\ UNCHANGED <<writes, ready_reads, flush, next_ticket, serving, failVars, ownerVars,
                   indexVars, pc>>

\* The metadata is good and the value is elsewhere: the request is reused for the value.
ReapMetadata(s) ==
    /\ Pop(s)
    /\ slots[s].op = "verified" /\ slots[s].stage = "metadata" /\ io[s] = "ok"
    /\ slots' = [slots EXCEPT ![s].stage = "value"]
    /\ Submit(s)
    /\ Worked(1, 1, 0)
    /\ UNCHANGED <<writes, ready_reads, flush, ticketVars, failVars, ownerVars, indexVars,
                   pc, emitted>>

ReapFlush(s) ==
    /\ Pop(s)
    /\ slots[s].op = "flush"
    /\ io' = [io EXCEPT ![s] = "idle"]
    /\ failed_at' = IF io[s] = "err" THEN slots[s].ticket ELSE failed_at
    /\ slots' = [slots EXCEPT ![s] = None]
    /\ flush' = None
    /\ Emit(slots[s].ticket, io[s])
    /\ Worked(1, 0, 0)
    /\ UNCHANGED <<writes, ready_reads, next_ticket, serving, queue_failed, failed_seen,
                   ownerVars, indexVars, pc>>

ReapEnd ==
    /\ pc = "reap"
    /\ Exhausted \/ \A t \in Tokens : io[t] \notin {"ok", "err"}
    /\ Goto("retire2")
    /\ UNCHANGED <<queueVars, ticketVars, failVars, ownerVars, indexVars>>

\* One iteration of retire_failed; slot numbers are arbitrary, so is the order.
RetireFailed(s) ==
    /\ pc = "failing"
    /\ ~Exhausted
    /\ s \notin failed_seen
    /\ failed_seen' = failed_seen \cup {s}
    /\ Worked(1, 0, 0)
    /\ IF slots[s] = None
       THEN UNCHANGED <<slots, pending_entries, pending_new, outcome, emitted>>
       ELSE /\ slots' = [slots EXCEPT ![s] = None]
            /\ Release(slots[s])
            /\ Emit(slots[s].ticket, "failed")
    /\ UNCHANGED <<io, writes, ready_reads, flush, next_ticket, serving, failed_at,
                   queue_failed, ownerVars, index, restored, pc>>

RetireFailedEnd ==
    /\ pc = "failing"
    /\ Exhausted \/ failed_seen = Slots
    /\ ready_reads' = <<>> /\ writes' = <<>> /\ flush' = None
    /\ Return
    /\ UNCHANGED <<slots, io, ticketVars, failVars, ownerVars, indexVars>>

Reap(s) ==
    \/ ReapWrite(s) \/ ReapMetadata(s) \/ ReapFlush(s)
    \/ \E result \in {"ok", "err"} : ReapRead(s, result)

PollStep ==
    \/ RetireWrite \/ RetireEnd
    \/ FlushSkip \/ FlushFinish \/ FlushSubmit
    \/ StartControl
    \/ CompleteEmptyRead \/ ReadsEnd
    \/ QueuePoll \/ QueueError
    \/ \E bytes \in 0..1 : ReapControl(bytes)
    \/ \E s \in Slots : Reap(s) \/ RetireFailed(s)
    \/ ReapEnd \/ RetireFailedEnd

(***************************************************************************)
(* The pipeline with an owner that keeps the contract of Engine: writes    *)
(* and flushes are refused while a lifecycle job is present, and the job   *)
(* issues control I/O only after the writes before it have drained.        *)
(***************************************************************************)
Api ==
    \E s \in Slots :
        \/ ~maintenance /\ \E frame \in Frames : Write(frame, s)
        \/ ~maintenance /\ Flush(s)
        \/ \E k \in Keys : \/ Read(k, s) \/ ReadEmpty(k, s)
                           \/ \E inline \in BOOLEAN : ReadVerified(k, inline, s)

Owner ==
    \/ ~maintenance /\ \E ticketed \in BOOLEAN : BeginMaintenance(ticketed)
    \/ ~maintenance /\ WasteTicket
    \/ maintenance /\
          \/ (control = "none" \/ queue_failed) /\ EndMaintenance
          \/ ~WritesPending /\ ControlIo
          \/ TakeControl
          \/ Attach
          \/ TakeSegment
          \/ \E frame \in Frames : Restore(frame)

Device == \E t \in Tokens, result \in {"ok", "err"} : DeviceComplete(t, result)

Next == Api \/ Owner \/ Device \/ PollStep \/ PollBegin

Spec == Init /\ [][Next]_vars

(***************************************************************************)
(* Properties                                                              *)
(***************************************************************************)
Results == {"pending", "ok", "err", "failed"}
Issued == [op : Ops \cup {"lifecycle"}, entries : Seq(Entry), result : Results]

QueueType ==
    /\ slots \in [Slots -> Pending \cup {None}]
    /\ io \in [Tokens -> {"idle", "busy", "ok", "err"}]
    /\ writes \in Seq(Slots) /\ ready_reads \in Seq(Slots) /\ flush \in Slots \cup {None}
TicketType ==
    /\ next_ticket \in 1..TicketLimit /\ serving \in BOOLEAN /\ outcome \in Seq(Issued)
FailType ==
    /\ failed_at \in Nat /\ queue_failed \in BOOLEAN /\ failed_seen \subseteq Slots
OwnerType ==
    /\ control \in {"none", "queued", "active", "ok", "err"} /\ maintenance \in BOOLEAN
    /\ segment \in 0..SegmentFrames \cup {None}
IndexType ==
    /\ DOMAIN index \subseteq Keys /\ index \in [DOMAIN index -> Entry]
    /\ pending_entries \in Int /\ pending_new \in Int /\ restored \subseteq Entry
PollType ==
    /\ pc \in Phases /\ emitted \in BOOLEAN
    /\ work \in [operations : Nat, bytes : Nat, records : Nat]
TypeOK == QueueType /\ TicketType /\ FailType /\ OwnerType /\ IndexType /\ PollType

WriteTickets == {t \in DOMAIN outcome : outcome[t].op = "write"}
Published == {t \in WriteTickets : outcome[t].result = "ok"}

\* Every accepted operation is owed exactly one completion: it is pending in exactly one
\* slot, or it has been completed and holds none (take_slot, complete, retire_*).
TicketAccounting ==
    /\ next_ticket = Len(outcome) + 1
    /\ \A s \in InFlight : /\ slots[s].ticket \in DOMAIN outcome
                            /\ outcome[slots[s].ticket].op = slots[s].op
                            /\ outcome[slots[s].ticket].result = "pending"
    /\ \A s, r \in InFlight : slots[s].ticket = slots[r].ticket => s = r
    /\ \A t \in DOMAIN outcome :
          outcome[t].op # "lifecycle" /\ outcome[t].result = "pending"
              => \E s \in InFlight : slots[s].ticket = t

\* Writes become visible as a prefix of submission order: a write succeeds only if every
\* earlier write succeeded, whatever order the device finished them in (retire_writes).
PrefixPublication ==
    \A t \in Published, u \in WriteTickets : u < t => u \in Published

\* A flush succeeds only when every write accepted before it was published (start_flush).
FlushCoversWrites ==
    \A t \in DOMAIN outcome :
        outcome[t].op = "flush" /\ outcome[t].result = "ok"
            => \A u \in WriteTickets : u < t => u \in Published

\* The sync of a flush is in the queue only when no write is pending: a sync persists only
\* the writes completed before it (start_flush).
PendingWrites == {s \in InFlight : slots[s].op = "write"}
SyncAfterWrites == flush # None /\ io[flush] # "idle" => PendingWrites = {}

\* The index holds, for each key, an entry of the greatest LSN ever published or restored,
\* a tombstone included (index::apply).
IndexNewest ==
    LET known == restored \cup UNION {EntriesOf(outcome[t].entries) : t \in Published}
    IN  /\ DOMAIN index = {e.key : e \in known}
        /\ \A k \in DOMAIN index :
              /\ index[k] \in known
              /\ index[k].key = k
              /\ \A e \in known : e.key = k => e.lsn <= index[k].lsn

\* The index with every reservation stays within its bound (reserve_entries).
IndexBounded == Cardinality(DOMAIN index) + pending_new <= IndexEntries

\* The counters are the sums over the pending writes, so releasing one never underflows
\* and none leaks (submit_frame, retire_writes, retire_failed).
ReservationsBalanced ==
    /\ pending_entries = MapThenSumSet(LAMBDA s : Len(slots[s].entries), PendingWrites)
    /\ pending_new = MapThenSumSet(LAMBDA s : slots[s].reserved, PendingWrites)

\* No submission meets a full queue: Pipeline::submit expects acceptance, and a flush takes
\* its request long after it was admitted, next to reads and a control request.
QueueWithinDepth == Cardinality(InQueue) <= Depth

\* Every request in the queue belongs to a live operation that waits for it, so no popped
\* token is dead (complete).
LiveTokens ==
    /\ \A s \in Slots :
          io[s] # "idle" /\ ~queue_failed
              => s \in InFlight
                 /\ slots[s].stage \in {"io", "metadata", "value", "inline", "submitted"}
    /\ io[CONTROL] # "idle" <=> control = "active"

\* Write completions are delivered in submission order (the doc of poll).
NotificationsInOrder ==
    \A t, u \in WriteTickets :
        u < t /\ outcome[t].result \in {"ok", "err"} => outcome[u].result \in {"ok", "err"}

\* The two halves of what the queue relies on: it never overflows, and what it returns
\* finds the operation that waits for it.
QueueSound == QueueWithinDepth /\ LiveTokens

\* What is reserved when a write is accepted is exactly what is released when it retires, on
\* every path, and never more than the index can take (reserve_entries, release).
ReservationsHold == ReservationsBalanced /\ IndexBounded

\* What poll could do now without any device completion.
LocalWork ==
    IF queue_failed THEN InFlight # {}
    ELSE \/ \E t \in Tokens : io[t] \in {"ok", "err"}
         \/ control = "queued" /\ Cardinality(InQueue) < Depth
         \/ ready_reads # <<>>
         \/ writes # <<>> /\ io[Head(writes)] = "idle"
         \/ flush # None /\ writes = <<>> /\ io[flush] = "idle"

\* poll never blocks in the queue while it has local work (the argument of queue.poll).
NoSleepWithWork == pc = "poll" /\ MaySleep => ~LocalWork

\* When poll returns with work left, has_ready says so: a caller that sleeps on the
\* notification descriptor only if it is false misses nothing (has_ready).
NoLostWakeup == [][pc # "idle" /\ pc' = "idle" => (LocalWork => HasReady)']_vars

\* An owner that sleeps, in the queue or on its descriptor, never sleeps on work that only
\* another poll could do.
NeverIdleWithWork == []NoSleepWithWork /\ NoLostWakeup

\* Once there is room for the queued control request, nothing else takes the last place,
\* so reads cannot starve a lifecycle job (the reserve in admission).
ControlNotStarved ==
    [][control = "queued" /\ Vacant > 0 => Vacant' > 0 \/ control' = "active"]_vars

\* The pipeline keeps the promise of OrderedStore.
Store == INSTANCE OrderedStore WITH ops <- outcome, view <- index
ImplementsOrderedStore == Store!StoreSpec

\* Every accepted operation is completed, also after a queue failure.
EveryTicketCompletes ==
    \A t \in 1..TicketLimit - 1 :
        (t \in DOMAIN outcome /\ outcome[t].op # "lifecycle")
            ~> (t \in DOMAIN outcome /\ outcome[t].result # "pending")
=============================================================================
