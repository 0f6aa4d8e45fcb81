----------------------------- MODULE StoreWorker -----------------------------
(***************************************************************************)
(* The cache store of one disk (moat-cache-store): clients submit commands *)
(* through an admission gate and a credit budget into a channel; one       *)
(* worker thread turns them into per-key chains, starts the head of each   *)
(* chain on the storage session, and answers them.  Flush, inventory and   *)
(* close are fences: nothing behind them is accepted until every chain is  *)
(* empty.                                                                  *)
(*                                                                         *)
(* A request is its position in `sent'.  Rejected submissions (Busy,       *)
(* Closed) leave no trace in the store and are the negated guards of       *)
(* Submit.  The session is used as Pipeline and Engine promise: writes     *)
(* complete in order, a failed write fails all later ones.                 *)
(***************************************************************************)
EXTENDS Naturals, Sequences, FiniteSets, FiniteSetsExt, SequencesExt

CONSTANTS
    Keys, NoKey,
    Commands,       \* what clients may ask for: subset of Command
    Recovered,      \* LSN of each key's live record when the session opens, 0 for none
    MaxSent,        \* bound: requests admitted in one behaviour
    MaxRequests,    \* options.max_requests
    MaxBytes,       \* options.max_bytes
    ReadBytes,      \* half of the pool: bytes of pending and retained reads
    ReadClass,      \* queue.pool.max_class, charged when a read starts
    BufLen,         \* allocation of a finished read, at most ReadClass
    ValueLen,       \* length of the value of a put
    Window,         \* commands accepted in one turn of the worker (128)
    PollErrors      \* whether Session::poll may return an error

Command == [op : {"read", "put", "delete", "flush", "inventory", "close"}, key : Keys \cup {NoKey}, arg : Nat]

ASSUME StoreAssumption ==
    /\ Commands \subseteq Command
    /\ Recovered \in [Keys -> Nat]
    /\ BufLen <= ReadClass /\ ReadClass <= MaxBytes /\ ReadClass <= ReadBytes
    /\ {MaxRequests, MaxBytes, ReadBytes, Window} \subseteq Nat \ {0}

VARIABLES
    sent,           \* every admitted command, in admission order
    reply,          \* what was answered, "none" before
    permit,         \* credits each request holds
    cancelled,      \* requests whose future was dropped
    holds,          \* the leader of the read whose Chunk this request's caller holds, or 0
    retained,       \* leaders of the reads whose Chunk reserved retention
    handles,        \* whether a Store handle is left
    closed,         \* the admission gate
    channel
clientVars == <<sent, cancelled, holds, retained, handles, closed>>

VARIABLES
    active, pending, ready,     \* chains
    fence,                      \* the fence being served, or NoFence
    close_reply, write_error,
    result,                     \* what run() returned
    pc, turns, progress,        \* where run() is
    outbox                      \* deliveries pushed and not yet run
chainVars == <<active, pending, ready>>
closeVars == <<close_reply, result>>

VARIABLES
    version,        \* Session::stat: LSN of the live record, 0 for none
    next_lsn,
    reads, writes,  \* keys with a read in flight; keys with a write in flight, oldest first
    failed,         \* a write or a sync failed
    queue_failed
sessionVars == <<version, next_lsn, reads, writes, failed, queue_failed>>

vars == <<clientVars, reply, permit, channel, chainVars, fence, closeVars, write_error,
          pc, turns, progress, outbox, sessionVars>>

Requests == 1..Len(sent)
NoFence == [req |-> 0, op |-> "none", ticket |-> FALSE]
NoPermit == [request |-> 0, bytes |-> 0, read |-> FALSE]
NoOp == [cmd |-> [op |-> "none", key |-> NoKey, arg |-> 0], waiters |-> <<>>, lsn |-> 0]
NoList == [k \in Keys |-> 0]
Reply(tag, lsn) == [tag |-> tag, lsn |-> lsn, range |-> 0, list |-> NoList]
NoReply == Reply("none", 0)
Fences == {"flush", "inventory", "close"}

Init ==
    /\ sent = <<>> /\ reply = <<>> /\ permit = <<>> /\ holds = <<>>
    /\ cancelled = {} /\ retained = {} /\ handles = TRUE /\ closed = FALSE /\ channel = <<>>
    /\ active = [k \in Keys |-> NoOp] /\ pending = [k \in Keys |-> <<>>] /\ ready = <<>>
    /\ fence = NoFence /\ close_reply = 0 /\ result = "ok"
    /\ write_error = FALSE
    /\ pc = "recv" /\ turns = Window /\ progress = FALSE /\ outbox = <<>>
    /\ version = Recovered /\ next_lsn = Max({Recovered[k] : k \in Keys}) + 1
    /\ reads = {} /\ writes = <<>> /\ failed = FALSE /\ queue_failed = FALSE

(***************************************************************************)
(* The budget.  Its counters are the sums of the credits handed out.       *)
(***************************************************************************)
UsedRequests == Cardinality({r \in Requests : permit[r].request = 1})
UsedBytes(permits) ==
    LET sum[n \in 0..Len(permits)] == IF n = 0 THEN 0 ELSE sum[n - 1] + permits[n].bytes
    IN sum[Len(permits)]
UsedReads(permits) == UsedBytes([r \in DOMAIN permits |-> IF permits[r].read THEN permits[r] ELSE NoPermit])

\* Used::reserve on the byte counters: all of them or none.
Reserve(permits, bytes, read) ==
    /\ UsedBytes(permits) + bytes <= MaxBytes
    /\ read => UsedReads(permits) + bytes <= ReadBytes

\* Permit::drop for every request of rs.
Dropped(permits, rs) == [r \in DOMAIN permits |-> IF r \in rs THEN NoPermit ELSE permits[r]]

RetainedBytes == BufLen * Cardinality(retained)

(***************************************************************************)
(* Clients.  Admission, reservation and the send happen under the gate's   *)
(* read lock; a fence takes it for writing.                                *)
(***************************************************************************)
NewPermit(c) ==
    [request |-> IF c.op = "close" THEN 0 ELSE 1,
     bytes   |-> IF c.op = "put" THEN ValueLen ELSE 0,
     read    |-> c.op = "read"]

Submit(c) ==
    /\ handles /\ ~closed /\ pc # "gone"
    /\ Len(sent) < MaxSent
    /\ c.op # "close" => UsedRequests < MaxRequests /\ Reserve(permit, NewPermit(c).bytes, c.op = "read")
    /\ sent' = Append(sent, c)
    /\ reply' = Append(reply, NoReply)
    /\ permit' = Append(permit, NewPermit(c))
    /\ holds' = Append(holds, 0)
    /\ closed' = (c.op = "close")
    /\ channel' = Append(channel, Len(sent) + 1)
    /\ UNCHANGED <<cancelled, retained, handles, chainVars, fence, closeVars, write_error,
                   pc, turns, progress, outbox, sessionVars>>

\* Dropping the future of an unanswered read; that of any other request only discards the reply.
Cancel(r) ==
    /\ sent[r].op = "read" /\ reply[r] = NoReply /\ r \notin cancelled
    /\ cancelled' = cancelled \cup {r}
    /\ UNCHANGED <<sent, holds, retained, handles, closed, reply, permit, channel, chainVars, fence,
                   closeVars, write_error, pc, turns, progress, outbox, sessionVars>>

\* Chunk::try_reserve_retention.
Retain(r) ==
    LET leader == holds[r] IN
    /\ leader # 0 /\ leader \notin retained
    /\ RetainedBytes + BufLen + ReadClass <= MaxBytes
    /\ RetainedBytes + BufLen + ReadClass <= ReadBytes
    /\ retained' = retained \cup {leader}
    /\ UNCHANGED <<sent, cancelled, holds, handles, closed, reply, permit, channel, chainVars, fence,
                   closeVars, write_error, pc, turns, progress, outbox, sessionVars>>

\* A caller drops its Arc<Chunk>; the last one drops the permit and the retention.
DropChunk(r) ==
    LET leader == holds[r]
        last == \A q \in Requests \ {r} : holds[q] # leader
    IN
    /\ leader # 0
    /\ holds' = [holds EXCEPT ![r] = 0]
    /\ permit' = IF last THEN Dropped(permit, {leader}) ELSE permit
    /\ retained' = IF last THEN retained \ {leader} ELSE retained
    /\ UNCHANGED <<sent, cancelled, handles, closed, reply, channel, chainVars, fence, closeVars,
                   write_error, pc, turns, progress, outbox, sessionVars>>

\* The last Store handle goes: the channel is disconnected.  The worker notices once the channel
\* is empty and nobody can submit any more, so the step is taken no earlier than that.
DropStore ==
    /\ handles /\ channel = <<>>
    /\ handles' = FALSE
    /\ UNCHANGED <<sent, cancelled, holds, retained, closed, reply, permit, channel, chainVars, fence,
                   closeVars, write_error, pc, turns, progress, outbox, sessionVars>>

\* Mutant: requests that joined a read keep their request slots.
ChunkPermitsLeaderOnly(waiters, kept) ==
    [r \in Requests |->
        IF r = Head(waiters)
        THEN IF kept # {} THEN [request |-> 0, bytes |-> BufLen, read |-> TRUE] ELSE NoPermit
        ELSE permit[r]]

\* Operation::read_done of a successful read: the leader's permit moves into the Chunk.
ChunkPermits(waiters, kept) ==
    [r \in Requests |->
        IF r = Head(waiters) /\ kept # {} THEN [request |-> 0, bytes |-> BufLen, read |-> TRUE]
        ELSE IF r \in ToSet(waiters) THEN NoPermit ELSE permit[r]]

\* The executor (or the worker itself) runs the oldest delivery.
Deliver ==
    /\ outbox # <<>>
    /\ outbox' = Tail(outbox)
    /\ LET done == Head(outbox)
           kept == IF done.reply.tag = "chunk" THEN ToSet(done.waiters) \ cancelled ELSE {}
       IN /\ reply' = [r \in Requests |-> IF r \in ToSet(done.waiters) THEN done.reply ELSE reply[r]]
          /\ permit' = ChunkPermits(done.waiters, kept)
          /\ holds' = [r \in Requests |-> IF r \in kept THEN Head(done.waiters) ELSE holds[r]]
    /\ UNCHANGED <<sent, cancelled, retained, handles, closed, channel, chainVars, fence, closeVars,
                   write_error, pc, turns, progress, sessionVars>>

(***************************************************************************)
(* Receiving: Worker::accept and the intake at the top of run().           *)
(***************************************************************************)
LastOf(k) == IF pending[k] = <<>> THEN active[k] ELSE Last(pending[k])

\* Mutant: the ranges are not compared.
JoinsAnyRange(c) == c.op = "read" /\ LastOf(c.key).cmd.op = "read"

\* A read joins the last operation of its chain if that is a read of the same range.
Joins(c) == c.op = "read" /\ LastOf(c.key).cmd = c

Join(r, k) ==
    /\ permit' = [permit EXCEPT ![r].bytes = 0]
    /\ IF pending[k] = <<>>
       THEN active' = [active EXCEPT ![k].waiters = Append(@, r)] /\ UNCHANGED pending
       ELSE pending' = [pending EXCEPT ![k][Len(pending[k])].waiters = Append(@, r)] /\ UNCHANGED active
    /\ UNCHANGED <<ready, fence>>

Accept(r) ==
    LET c == sent[r]
        k == c.key
    IN
    IF c.op \in Fences
    THEN /\ fence' = [req |-> r, op |-> c.op, ticket |-> FALSE]
         /\ UNCHANGED <<chainVars, permit>>
    ELSE IF Joins(c) THEN Join(r, k)
    ELSE /\ ready' = IF active[k] = NoOp /\ pending[k] = <<>> THEN Append(ready, k) ELSE ready
         /\ pending' = [pending EXCEPT ![k] = Append(@, [cmd |-> c, waiters |-> <<r>>, lsn |-> 0])]
         /\ UNCHANGED <<active, fence, permit>>

Intake == fence = NoFence

Receive ==
    /\ pc = "recv" /\ Intake /\ turns > 0 /\ channel # <<>>
    /\ Accept(Head(channel))
    /\ channel' = Tail(channel)
    /\ turns' = turns - 1 /\ progress' = TRUE
    /\ UNCHANGED <<clientVars, reply, closeVars, write_error, pc, outbox, sessionVars>>

Disconnected == channel = <<>> /\ ~handles
CloseNone == [req |-> 0, op |-> "close", ticket |-> FALSE]

ReceiveEnd ==
    /\ pc = "recv"
    /\ ~Intake \/ turns = 0 \/ channel = <<>>
    /\ fence' = IF Intake /\ turns > 0 /\ Disconnected THEN CloseNone ELSE fence
    /\ pc' = "start" /\ turns' = Len(ready)
    /\ UNCHANGED <<clientVars, reply, permit, channel, chainVars, closeVars, write_error, progress,
                   outbox, sessionVars>>

(***************************************************************************)
(* Starting: one operation of each chain that was ready, Worker::start.    *)
(***************************************************************************)
Op(k) == Head(pending[k])
Starting(k) == pc = "start" /\ turns > 0 /\ k = Head(ready)

\* The operation is gone; the chain is ready again if it has another one.
Done(k) ==
    /\ pending' = [pending EXCEPT ![k] = Tail(@)]
    /\ ready' = IF Len(pending[k]) > 1 THEN Append(Tail(ready), k) ELSE Tail(ready)
    /\ turns' = turns - 1 /\ progress' = TRUE
    /\ UNCHANGED <<clientVars, channel, active, fence, closeVars, pc, outbox>>

Activate(k, op) ==
    /\ pending' = [pending EXCEPT ![k] = Tail(@)]
    /\ active' = [active EXCEPT ![k] = op]
    /\ ready' = Tail(ready)
    /\ turns' = turns - 1 /\ progress' = TRUE
    /\ UNCHANGED <<clientVars, reply, channel, fence, closeVars, write_error, pc, outbox>>

Retry(k, op) ==
    /\ pending' = [pending EXCEPT ![k] = <<op>> \o Tail(@)]
    /\ ready' = Append(Tail(ready), k)
    /\ turns' = turns - 1
    /\ UNCHANGED <<clientVars, reply, channel, active, fence, closeVars, write_error, pc, progress,
                   outbox, sessionVars>>

\* Replies sent by the worker itself, permits dropped first.
Answer(waiters, answer) ==
    reply' = [r \in Requests |-> IF r \in ToSet(waiters) THEN answer ELSE reply[r]]

Waiting(op) == SelectSeq(op.waiters, LAMBDA r : r \notin cancelled)
Gone(op) == ToSet(op.waiters) \cap cancelled

\* No caller is left, or the key has no live record.
StartReadDone(k) ==
    LET op == Op(k) IN
    /\ Starting(k) /\ op.cmd.op = "read"
    /\ Waiting(op) = <<>> \/ version[k] = 0
    /\ Answer(Waiting(op), Reply("miss", 0))
    /\ permit' = Dropped(permit, ToSet(op.waiters))
    /\ Done(k)
    /\ UNCHANGED <<write_error, sessionVars>>

Live(k) == Op(k).cmd.op = "read" /\ Waiting(Op(k)) # <<>> /\ version[k] # 0

Kept(k) == [Op(k) EXCEPT !.waiters = Waiting(Op(k)), !.lsn = version[k]]

\* Permit::grow of the leader.
Leader(k) == Head(Waiting(Op(k)))
Left(k) == Dropped(permit, Gone(Op(k)))
CanGrow(k) ==
    \/ ReadClass <= permit[Leader(k)].bytes
    \/ Reserve(Left(k), ReadClass - permit[Leader(k)].bytes, TRUE)
Grown(k) == [Left(k) EXCEPT ![Leader(k)].bytes = ReadClass]

ReadNoCredit(k) ==
    /\ Starting(k) /\ Live(k) /\ ~CanGrow(k)
    /\ permit' = Left(k)
    /\ Retry(k, Kept(k))

ReadBusy(k) ==
    /\ Starting(k) /\ Live(k) /\ CanGrow(k) /\ ~queue_failed
    /\ permit' = Grown(k)
    /\ Retry(k, Kept(k))

StartRead(k) ==
    /\ Starting(k) /\ Live(k) /\ CanGrow(k) /\ ~queue_failed
    /\ permit' = Grown(k)
    /\ reads' = reads \cup {k}
    /\ Activate(k, Kept(k))
    /\ UNCHANGED <<version, next_lsn, writes, failed, queue_failed>>

ReadRefused(k) ==
    /\ Starting(k) /\ Live(k) /\ CanGrow(k)
    /\ Answer(Waiting(Op(k)), Reply("error", 0))
    /\ permit' = Dropped(permit, ToSet(Op(k).waiters))
    /\ Done(k)
    /\ UNCHANGED <<write_error, sessionVars>>

\* A delete answered without writing.
Unwanted(k) ==
    LET c == Op(k).cmd IN
    c.op = "delete" /\ (version[k] = 0 \/ c.arg \notin {0, version[k]})

StartDeleteDone(k) ==
    /\ Starting(k) /\ Unwanted(k)
    /\ Answer(Op(k).waiters, Reply(IF version[k] = 0 THEN "missing" ELSE "changed", 0))
    /\ permit' = Dropped(permit, ToSet(Op(k).waiters))
    /\ Done(k)
    /\ UNCHANGED <<write_error, sessionVars>>

Mutates(k) == Op(k).cmd.op \in {"put", "delete"} /\ ~Unwanted(k)

\* Session::write takes the next LSN.
StartWrite(k) ==
    /\ Starting(k) /\ Mutates(k) /\ ~failed /\ ~queue_failed
    /\ writes' = Append(writes, k)
    /\ next_lsn' = next_lsn + 1
    /\ Activate(k, [Op(k) EXCEPT !.lsn = next_lsn])
    /\ UNCHANGED <<permit, version, reads, failed, queue_failed>>

\* No slot, no buffer, or a rollover in progress.
WriteBusy(k) ==
    /\ Starting(k) /\ Mutates(k) /\ ~failed /\ ~queue_failed
    /\ Retry(k, Op(k))
    /\ UNCHANGED permit

\* Mutant: the error is not recorded for the next flush.
WriteRefusedUnrecorded(k) ==
    /\ Starting(k) /\ Mutates(k)
    /\ Answer(Op(k).waiters, Reply("error", 0))
    /\ permit' = Dropped(permit, ToSet(Op(k).waiters))
    /\ Done(k)
    /\ UNCHANGED <<write_error, sessionVars>>

\* The write path has failed, or the device is full.
WriteRefused(k) ==
    /\ Starting(k) /\ Mutates(k)
    /\ write_error' = TRUE
    /\ Answer(Op(k).waiters, Reply("error", 0))
    /\ permit' = Dropped(permit, ToSet(Op(k).waiters))
    /\ Done(k)
    /\ UNCHANGED sessionVars

(***************************************************************************)
(* Polling the session and handling its completions, once every ready      *)
(* chain had its turn.                                                     *)
(***************************************************************************)
InFlight == reads # {} \/ writes # <<>> \/ fence.ticket
Polling == pc = "start" /\ turns = 0

\* Mutant: the chain is not made ready again.
CompleteNotReady(k) ==
    /\ active' = [active EXCEPT ![k] = NoOp]
    /\ progress' = TRUE
    /\ UNCHANGED <<clientVars, channel, pending, ready, fence, closeVars, pc, turns>>

\* Worker::complete: the chain goes on with its next operation.
Complete(k) ==
    /\ active' = [active EXCEPT ![k] = NoOp]
    /\ ready' = IF pending[k] = <<>> THEN ready ELSE Append(ready, k)
    /\ progress' = TRUE
    /\ UNCHANGED <<clientVars, channel, pending, fence, closeVars, pc, turns>>

Push(waiters, answer) == outbox' = Append(outbox, [waiters |-> waiters, reply |-> answer])

\* A finished read is answered through the delivery queue, with its data or its error.
CompleteRead(k, tag) ==
    /\ Polling /\ k \in reads /\ ~queue_failed
    /\ reads' = reads \ {k}
    /\ Push(active[k].waiters, [Reply(tag, active[k].lsn) EXCEPT !.range = active[k].cmd.arg])
    /\ Complete(k)
    /\ UNCHANGED <<reply, permit, write_error, version, next_lsn, writes, failed, queue_failed>>

AnswerDirectly(k, answer) ==
    /\ permit' = Dropped(permit, ToSet(active[k].waiters))
    /\ Answer(active[k].waiters, answer)
    /\ UNCHANGED outbox

\* The oldest write is published.
CompleteWrite(k) ==
    LET op == active[k] IN
    /\ Polling /\ writes # <<>> /\ k = Head(writes) /\ ~failed /\ ~queue_failed
    /\ writes' = Tail(writes)
    /\ version' = [version EXCEPT ![k] = IF op.cmd.op = "put" THEN op.lsn ELSE 0]
    /\ AnswerDirectly(k, Reply(IF op.cmd.op = "put" THEN "ok" ELSE "deleted", op.lsn))
    /\ Complete(k)
    /\ UNCHANGED <<write_error, next_lsn, reads, failed, queue_failed>>

CompleteWriteError(k) ==
    /\ Polling /\ writes # <<>> /\ k = Head(writes) /\ ~queue_failed
    /\ writes' = Tail(writes)
    /\ failed' = TRUE /\ write_error' = TRUE
    /\ AnswerDirectly(k, Reply("error", 0))
    /\ Complete(k)
    /\ UNCHANGED <<version, next_lsn, reads, queue_failed>>

\* The queue fails: every operation in flight is completed as Failed.
QueueFails ==
    /\ Polling /\ InFlight /\ ~queue_failed
    /\ queue_failed' = TRUE
    /\ UNCHANGED <<clientVars, reply, permit, channel, chainVars, fence, closeVars, write_error,
                   pc, turns, progress, outbox, version, next_lsn, reads, writes, failed>>

CompleteFailed(k) ==
    /\ Polling /\ queue_failed /\ k \in reads \cup ToSet(writes)
    /\ reads' = reads \ {k}
    /\ writes' = SelectSeq(writes, LAMBDA w : w # k)
    /\ write_error' = TRUE
    /\ AnswerDirectly(k, Reply("error", 0))
    /\ Complete(k)
    /\ UNCHANGED <<version, next_lsn, failed, queue_failed>>

\* Worker::finish_fence of a flush: a recorded write error is reported once.
FinishFlush(ok) ==
    /\ Push(<<fence.req>>, Reply(IF ok /\ ~write_error THEN "ok" ELSE "error", 0))
    /\ write_error' = FALSE
    /\ fence' = NoFence

CompleteFlush(ok) ==
    /\ Polling /\ fence.ticket
    /\ ok => ~failed /\ ~queue_failed
    /\ FinishFlush(ok)
    /\ progress' = TRUE
    /\ failed' = (failed \/ ~ok)
    /\ UNCHANGED <<clientVars, reply, permit, channel, chainVars, closeVars, pc, turns,
                   version, next_lsn, reads, writes, queue_failed>>

(***************************************************************************)
(* Ending: Worker::finish fails what is left, then the receiver goes.      *)
(***************************************************************************)
OpsOf(k) == IF active[k] = NoOp THEN pending[k] ELSE <<active[k]>> \o pending[k]
FailureOf(outcome) == Reply(IF outcome = "ok" THEN "closed" ELSE "error", 0)

\* The session, and with it what is in flight, is dropped first; so is the rest of the worker.
Finish(outcome) ==
    LET ops == FlattenSeq([i \in 1..Cardinality(Keys) |-> OpsOf(SetToSeq(Keys)[i])])
        fail(waiters) == [waiters |-> waiters, reply |-> FailureOf(outcome)]
    IN
    /\ result' = outcome
    /\ outbox' = outbox \o [i \in DOMAIN ops |-> fail(ops[i].waiters)]
                        \o (IF fence'.req = 0 THEN <<>> ELSE <<fail(<<fence'.req>>)>>)
    /\ active' = [k \in Keys |-> NoOp] /\ pending' = [k \in Keys |-> <<>>] /\ ready' = <<>>
    /\ version' = NoList /\ next_lsn' = 0 /\ reads' = {} /\ writes' = <<>>
    /\ failed' = FALSE /\ queue_failed' = FALSE /\ write_error' = FALSE
    /\ pc' = "drain" /\ turns' = 0 /\ progress' = FALSE
    /\ UNCHANGED <<clientVars, reply, permit, channel>>

PollError ==
    /\ Polling /\ PollErrors
    /\ fence' = fence
    /\ Finish("error")
    /\ UNCHANGED close_reply

Drain ==
    /\ pc = "drain" /\ channel # <<>>
    /\ Push(<<Head(channel)>>, FailureOf(result))
    /\ channel' = Tail(channel)
    /\ UNCHANGED <<clientVars, reply, permit, chainVars, fence, closeVars, write_error,
                   pc, turns, progress, sessionVars>>

DrainEnd ==
    /\ pc = "drain" /\ channel = <<>>
    /\ outbox' = IF close_reply = 0 THEN outbox
                 ELSE Append(outbox, [waiters |-> <<close_reply>>, reply |-> Reply(result, 0)])
    /\ pc' = "drop"
    /\ UNCHANGED <<clientVars, reply, permit, channel, chainVars, fence, closeVars, write_error,
                   turns, progress, sessionVars>>

\* Commands that arrived after the last try_recv are dropped: their futures see Closed.
DropReceiver ==
    /\ pc = "drop"
    /\ Answer(channel, Reply("closed", 0))
    /\ permit' = Dropped(permit, ToSet(channel))
    /\ channel' = <<>>
    /\ pc' = "gone"
    /\ UNCHANGED <<clientVars, chainVars, fence, closeVars, write_error, turns, progress, outbox,
                   sessionVars>>

(***************************************************************************)
(* After the poll: the fence advances if it can, and the turn ends.        *)
(***************************************************************************)
\* Mutant: operations that wait in a chain are overlooked.
ChainsInactive == \A k \in Keys : active[k] = NoOp

ChainsEmpty == \A k \in Keys : active[k] = NoOp /\ pending[k] = <<>>
FenceDue == fence # NoFence /\ ChainsEmpty /\ ~fence.ticket
Advancing(op) == Polling /\ FenceDue /\ fence.op = op
NextTurn == pc' = "recv" /\ turns' = Window /\ progress' = FALSE

FenceInventory ==
    /\ Advancing("inventory")
    /\ Push(<<fence.req>>, [Reply("inventory", 0) EXCEPT !.list = version])
    /\ fence' = NoFence
    /\ NextTurn
    /\ UNCHANGED <<clientVars, reply, permit, channel, chainVars, closeVars, write_error, sessionVars>>

FenceFlush ==
    /\ Advancing("flush") /\ ~failed /\ ~queue_failed
    /\ fence' = [fence EXCEPT !.ticket = TRUE]
    /\ NextTurn
    /\ UNCHANGED <<clientVars, reply, permit, channel, chainVars, closeVars, write_error, outbox, sessionVars>>

FenceFlushRefused ==
    /\ Advancing("flush") /\ (failed \/ queue_failed)
    /\ FinishFlush(FALSE)
    /\ NextTurn
    /\ UNCHANGED <<clientVars, reply, permit, channel, chainVars, closeVars, sessionVars>>

\* Session::seal.  With empty chains nothing is in flight, so run() returns in this turn.
FenceClose(sealed) ==
    /\ Advancing("close")
    /\ sealed => ~failed /\ ~queue_failed
    /\ fence' = NoFence
    /\ close_reply' = fence.req
    /\ Finish(IF sealed /\ ~write_error THEN "ok" ELSE "error")

\* Without progress the worker waits for a command, at most idle_wait.
IdleReceive ==
    /\ Polling /\ ~FenceDue /\ ~progress /\ Intake /\ channel # <<>>
    /\ Accept(Head(channel))
    /\ channel' = Tail(channel)
    /\ NextTurn
    /\ UNCHANGED <<clientVars, reply, closeVars, write_error, outbox, sessionVars>>

\* Nothing to advance, or a flush finds the session busy.
TurnEnd ==
    /\ Polling /\ (FenceDue => fence.op = "flush" /\ ~failed /\ ~queue_failed)
    /\ NextTurn
    /\ fence' = IF ~progress /\ Intake /\ Disconnected THEN CloseNone ELSE fence
    /\ UNCHANGED <<clientVars, reply, permit, channel, chainVars, closeVars, write_error, outbox,
                   sessionVars>>

(***************************************************************************)
(* The specification                                                       *)
(***************************************************************************)
Client ==
    \/ \E c \in Commands : Submit(c)
    \/ \E r \in Requests : Cancel(r) \/ Retain(r) \/ DropChunk(r)
    \/ DropStore

Started(k) == StartRead(k) \/ ReadRefused(k) \/ StartWrite(k) \/ WriteRefused(k)
Finished(k) ==
    \/ \E tag \in {"chunk", "error"} : CompleteRead(k, tag)
    \/ CompleteWrite(k) \/ CompleteWriteError(k) \/ CompleteFailed(k)

Worker ==
    \/ Receive \/ ReceiveEnd
    \/ \E k \in Keys : \/ StartReadDone(k) \/ ReadNoCredit(k) \/ ReadBusy(k)
                       \/ StartDeleteDone(k) \/ WriteBusy(k) \/ Started(k) \/ Finished(k)
    \/ PollError
    \/ \E ok \in BOOLEAN : CompleteFlush(ok) \/ FenceClose(ok)
    \/ FenceInventory \/ FenceFlush \/ FenceFlushRefused
    \/ IdleReceive \/ TurnEnd
    \/ Drain \/ DrainEnd \/ DropReceiver

Next == Client \/ Worker \/ Deliver \/ QueueFails

\* What the session must do eventually: accept, complete.
Progress ==
    \/ \E k \in Keys : Started(k) \/ Finished(k)
    \/ FenceFlush
    \/ \E ok \in BOOLEAN : CompleteFlush(ok)

\* What other threads owe: deliveries are run, and chunks without a retention are dropped.
Others == Deliver \/ \E r \in Requests : holds[r] \notin retained /\ DropChunk(r)

\* The worker thread runs, and the session is neither busy nor silent forever (Engine's liveness).
\* Requests are finitely many, so one condition for each group of actions is enough.
Fairness == WF_vars(Worker) /\ WF_vars(Others) /\ SF_vars(Progress)

Spec == Init /\ [][Next]_vars
LiveSpec == Spec /\ Fairness

(***************************************************************************)
(* Properties                                                              *)
(***************************************************************************)
Mutations == {"put", "delete"}

\* LSN of key k's record after the mutations admitted before r that took effect.
VersionBefore(k, r) ==
    LET effective == {q \in 1..r - 1 : sent[q].key = k /\ reply[q].tag \in {"ok", "deleted"}}
        last == Max(effective)
    IN IF effective = {} THEN Recovered[k] ELSE IF reply[last].tag = "deleted" THEN 0 ELSE reply[last].lsn

\* Every reply to a keyed command is the one of a sequential run of that key's commands in
\* admission order, failed ones left out: reads joined to an earlier read (accept), conditional
\* deletes (start) and retries keep that order.
RepliesSequential ==
    \A r \in Requests :
        LET k == sent[r].key
            v == VersionBefore(k, r)
            given == reply[r]
        IN k # NoKey /\ given.tag \notin {"none", "error", "closed"} =>
            /\ \A q \in 1..r - 1 : sent[q].key = k /\ sent[q].op \in Mutations => reply[q] # NoReply
            /\ given.tag \in {"miss", "missing"} => v = 0
            /\ given.tag = "chunk" => v # 0 /\ given.lsn = v /\ given.range = sent[r].arg
            /\ given.tag = "changed" => v \notin {0, sent[r].arg}
            /\ given.tag = "deleted" => v # 0 /\ sent[r].arg \in {0, v} /\ given.lsn > v
            /\ given.tag = "ok" => given.lsn > v

\* A fence is answered after everything admitted before it, unless its caller has gone, and an
\* inventory lists exactly what was admitted before it (advance_fence waits for empty chains).
FenceIsBarrier ==
    \A f \in Requests :
        sent[f].op \in Fences /\ reply[f].tag \in {"ok", "inventory", "error"} =>
            /\ \A q \in 1..f - 1 : reply[q] # NoReply \/ q \in cancelled
            /\ reply[f].tag = "inventory" => \A k \in Keys : reply[f].list[k] = VersionBefore(k, f)

\* A mutation that failed is reported by the first flush or close answered after it: one that
\* answers ok has another flush before it that already reported the failure (write_error).
FlushReportsFailures ==
    \A f \in Requests : sent[f].op \in {"flush", "close"} /\ reply[f].tag = "ok" =>
        \A q \in 1..f - 1 : sent[q].op \in Mutations /\ reply[q].tag = "error" =>
            \E g \in q + 1..f - 1 : sent[g].op = "flush" /\ reply[g].tag = "error"

\* Requests that the store, a delivery or a caller's chunk still keeps alive.
Held ==
    ToSet(channel) \cup {fence.req}
    \cup UNION {ToSet(op.waiters) : op \in UNION {{active[k]} \cup ToSet(pending[k]) : k \in Keys}}
    \cup UNION {ToSet(d.waiters) : d \in ToSet(outbox)}
    \cup {holds[r] : r \in Requests}

\* Credits are neither lost nor spent twice: only requests still held have any, an unanswered one
\* keeps its request slot, a read in flight has paid for its buffer, and no limit is exceeded.
CreditsBalanced ==
    /\ \A r \in Requests :
          /\ permit[r].request + permit[r].bytes > 0 => r \in Held
          /\ reply[r] = NoReply /\ r \notin cancelled /\ sent[r].op # "close" => permit[r].request = 1
    /\ \A k \in reads : permit[Head(active[k].waiters)].bytes = ReadClass
    /\ UsedRequests <= MaxRequests /\ UsedBytes(permit) <= MaxBytes /\ UsedReads(permit) <= ReadBytes

\* Every admitted request is answered, also when the worker fails or the store is closed; only a
\* read whose caller dropped its future may go unanswered, a mutation is carried out regardless.
EveryRequestAnswered ==
    \A r \in 1..MaxSent :
        r \in Requests ~> (r \in Requests /\ (reply[r] # NoReply \/ r \in cancelled))
=============================================================================
