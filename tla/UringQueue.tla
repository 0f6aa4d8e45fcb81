----------------------------- MODULE UringQueue -----------------------------
(***************************************************************************)
(* The io_uring queue (moat-engine/src/io/uring.rs, uring/transfer.rs) and *)
(* the kernel side of its ring, with the pool that its buffers are from.   *)
(* A request is cut into parts of at most MaxIoLen pages that share its    *)
(* buffer; a part is [slot, buffer, from, len].  The owner of both takes   *)
(* buffers from the pool, hands them to the queue with a request, gets     *)
(* them back with the completion and drops them or sends them to other     *)
(* threads; it may drop the queue at any time.                             *)
(***************************************************************************)
EXTENDS BufferPool

CONSTANTS
    Depth,          \* slots, and the limit on parts in flight
    MaxIoLen,       \* max_io_len
    MaxRequests     \* bound

VARIABLES
    queue,          \* slots, free, ready, completed, pending and sq, the parts that are
                    \* staged but not submitted
    live,           \* parts that the kernel works on
    cq,             \* completions of parts that have not been reaped
    deferred,       \* the ring runs completions only when it is entered
    phase,          \* of the owner: "idle", "enter", "wait", "failed"; then "closed"
    closing,        \* the queue is being dropped
    leaked,         \* blocks that Drop forgets because the kernel may still use them
    requests,       \* how many requests were made
    work            \* what the kernel did for the request in each slot: parts with results

ringVars == <<queue, live, cq, deferred, phase, closing, leaked, requests, work>>
vars == <<poolVars, ringVars>>

Slots == 1..Depth
Error == -1

NewQueue ==
    [slots |-> [s \in Slots |-> None], free |-> Reverse([s \in Slots |-> s]), ready |-> <<>>,
     completed |-> <<>>, pending |-> 0, sq |-> <<>>]

RingInit ==
    /\ queue = NewQueue /\ live = {} /\ cq = <<>>
    /\ deferred \in BOOLEAN /\ phase = "idle" /\ closing = FALSE
    /\ leaked = {} /\ requests = 0 /\ work = [s \in Slots |-> {}]

(***************************************************************************)
(* A transfer                                                              *)
(***************************************************************************)
NewTransfer(request) ==
    [request |-> request, submitted |-> 0, in_flight |-> 0, result |-> 0]

has_remaining(t) == t.submitted < t.request.len

PartLen(t) == Min({MaxIoLen, t.request.len - t.submitted})

\* The transfer after next.
Scheduled(t) == [t EXCEPT !.submitted = @ + PartLen(t), !.in_flight = @ + 1]

\* The transfer after complete: the first error is kept.
Completed(t, actual) ==
    [t EXCEPT !.in_flight = @ - 1,
              !.result = IF @ = Error \/ actual = Error THEN Error ELSE @ + actual]

FinishedEarly(t) == ~has_remaining(t)

\* What complete returns.
Finished(t) == ~has_remaining(t) /\ t.in_flight = 0

(***************************************************************************)
(* The owner's operations                                                  *)
(***************************************************************************)
\* validate; a synchronisation has neither length nor buffer.  buffer_index turns away a
\* buffer of another pool in the same way.
Valid(request) ==
    IF request.op = "sync" THEN request.buffer = None /\ request.len = 0
    ELSE request.buffer # None /\ request.len \in 1..Size(request.buffer.order)

\* The buffer goes from the owner to the queue.
try_submit(request) ==
    LET slot == Last(queue.free)
        taken == [queue EXCEPT !.free = Front(@)]
    IN  /\ phase = "idle" /\ ~closing /\ queue.free # <<>>
        /\ requests < MaxRequests
        /\ requests' = requests + 1
        /\ queue' = IF Valid(request)
                    THEN [taken EXCEPT !.slots[slot] = NewTransfer(request),
                                       !.ready = Append(@, slot)]
                    ELSE [taken EXCEPT !.completed =
                             Append(@, [slot |-> slot, request |-> request, result |-> Error])]
        /\ work' = [work EXCEPT ![slot] = {}]
        /\ held' = held \ {request.buffer}
        /\ refused' = None
        /\ UNCHANGED <<buddies, returned, pushing, inUse, abroad, capacity, allocs>>
        /\ UNCHANGED <<live, cq, deferred, phase, closing, leaked>>

\* Parts are taken from the requests in turn, until as many are in flight as there are slots.
RECURSIVE stage(_)
stage(q) ==
    IF q.pending >= Depth \/ q.ready = <<>> THEN q
    ELSE LET slot == Head(q.ready)
             t == q.slots[slot]
             after == Scheduled(t)
         IN  stage([q EXCEPT
                 !.sq = Append(@, [slot |-> slot, buffer |-> t.request.buffer,
                                   from |-> t.submitted, len |-> PartLen(t)]),
                 !.slots[slot] = after,
                 !.pending = @ + 1,
                 !.ready = IF has_remaining(after) THEN Append(Tail(@), slot) ELSE Tail(@)])

reap(q, arrived) ==
    FoldLeft(LAMBDA acc, cqe :
        LET t == Completed(acc.slots[cqe.slot], cqe.result)
            less == [acc EXCEPT !.pending = @ - 1, !.slots[cqe.slot] = t]
        IN  IF Finished(t)
            THEN [less EXCEPT !.slots[cqe.slot] = None,
                              !.completed = Append(@, [slot |-> cqe.slot, request |-> t.request,
                                                       result |-> t.result])]
            ELSE less, q, arrived)

Unfinished == queue.pending # 0 \/ queue.ready # <<>>

\* poll up to the system call, which it spares when nothing is in flight.  Whether it is to
\* wait decides only how long the kernel may keep it.  Drop polls while work is left.
PollBegin ==
    LET staged == stage(IF deferred THEN queue ELSE reap(queue, cq))
    IN  /\ phase = "idle" /\ (closing => Unfinished)
        /\ queue' = staged
        /\ cq' = IF deferred THEN cq ELSE <<>>
        /\ phase' = IF staged.pending = 0 THEN "idle" ELSE "enter"
        /\ UNCHANGED <<live, deferred, closing, leaked, requests, work>>

\* The notification descriptor cannot be read: poll returns before it reaps or stages.
PollUnread ==
    /\ phase = "idle" /\ (closing => Unfinished)
    /\ phase' = IF closing THEN "failed" ELSE "idle"
    /\ UNCHANGED <<queue, live, cq, deferred, closing, leaked, requests, work>>

\* The kernel takes parts from the submission queue: all, or less when it meets an error.
Enter(n) ==
    /\ phase = "enter"
    /\ live' = live \cup ToSet(SubSeq(queue.sq, 1, n))
    /\ queue' = [queue EXCEPT !.sq = SubSeq(@, n + 1, Len(@))]
    /\ phase' = "wait"
    /\ UNCHANGED <<cq, deferred, closing, leaked, requests, work>>

\* The kernel is done with a part: all of it, less, or an error.
Finish(part, result) ==
    /\ part \in live
    /\ live' = live \ {part}
    /\ IF phase = "closed" THEN UNCHANGED <<cq, work>>
       ELSE /\ cq' = Append(cq, [slot |-> part.slot, result |-> result])
            /\ work' = [work EXCEPT ![part.slot] =
                           @ \cup {[from |-> part.from, len |-> part.len, result |-> result]}]
    /\ UNCHANGED <<queue, deferred, phase, closing, leaked, requests>>

\* The call succeeded or was interrupted.
PollReturn ==
    /\ phase = "wait"
    /\ queue' = reap(queue, cq) /\ cq' = <<>>
    /\ phase' = "idle"
    /\ UNCHANGED <<live, deferred, closing, leaked, requests, work>>

PollError ==
    /\ phase = "wait" /\ ~closing
    /\ phase' = "idle"
    /\ UNCHANGED <<queue, live, cq, deferred, closing, leaked, requests, work>>

BufferOf(request) == {request.buffer} \ {None}

pop ==
    LET done == Head(queue.completed)
    IN  /\ phase = "idle" /\ ~closing /\ queue.completed # <<>>
        /\ queue' = [queue EXCEPT !.completed = Tail(@), !.free = Append(@, done.slot)]
        /\ held' = held \cup BufferOf(done.request)
        /\ refused' = None
        /\ UNCHANGED <<buddies, returned, pushing, inUse, abroad, capacity, allocs>>
        /\ UNCHANGED <<live, cq, deferred, phase, closing, leaked, requests, work>>

(***************************************************************************)
(* Drop                                                                    *)
(***************************************************************************)
Occupied == {s \in Slots : queue.slots[s] # None}
InSlots == UNION {BufferOf(queue.slots[s].request) : s \in Occupied}
InCompleted == UNION {BufferOf(queue.completed[n].request) : n \in DOMAIN queue.completed}
Weight(blocks) == MapThenSumSet(LAMBDA block : Size(block.order), blocks)

DropBegin ==
    /\ phase = "idle" /\ ~closing
    /\ closing' = TRUE
    /\ UNCHANGED <<queue, live, cq, deferred, phase, leaked, requests, work>>

\* The fields are dropped, and with them the buffers that are not forgotten.
DropFields(forgotten) ==
    LET inOrder == [s \in Slots |-> IF s \in Occupied THEN queue.slots[s].request.buffer ELSE None]
                       \o [n \in DOMAIN queue.completed |-> queue.completed[n].request.buffer]
        dropped == (InSlots \cup InCompleted) \ forgotten
    IN  /\ buddies' = drain_returned(buddies, SelectSeq(inOrder, LAMBDA b : b \in dropped))
        /\ inUse' = inUse - Weight(dropped)
        /\ leaked' = forgotten
        /\ queue' = NewQueue /\ cq' = <<>> /\ work' = [s \in Slots |-> {}]
        /\ phase' = "closed" /\ refused' = None
        /\ UNCHANGED <<returned, pushing, held, abroad, capacity, allocs>>
        /\ UNCHANGED <<deferred, closing, requests>>

DropDrained ==
    /\ closing /\ phase = "idle" /\ ~Unfinished
    /\ DropFields({}) /\ UNCHANGED live

\* A poll failed: the kernel cancels what it has before the buffers go.
DropCancelled ==
    /\ closing /\ phase \in {"wait", "failed"}
    /\ DropFields({}) /\ live' = {}

ForgottenNone == {}

Forgotten == InSlots

\* It cannot cancel.
DropLeaking ==
    /\ closing /\ phase \in {"wait", "failed"}
    /\ DropFields(Forgotten) /\ UNCHANGED live

(***************************************************************************)
(* The whole                                                               *)
(***************************************************************************)
Requests ==
    {[op |-> "sync", buffer |-> None, len |-> 0]} \cup
    {[op |-> "transfer", buffer |-> block, len |-> len] :
        block \in held, len \in Lens}

Init == PoolInit /\ RingInit

Next ==
    \/ PoolNext /\ UNCHANGED ringVars
    \/ \E request \in Requests : try_submit(request)
    \/ pop \/ DropDrained \/ DropCancelled \/ DropLeaking
    \/ /\ \/ PollBegin \/ PollUnread \/ PollReturn \/ PollError \/ DropBegin
          \/ \E n \in 0..Len(queue.sq) : Enter(n)
          \/ \E part \in live : \E result \in {part.len, 0, Error} : Finish(part, result)
       /\ UNCHANGED poolVars

Spec == Init /\ [][Next]_vars

\* Every page of the pool is in one place: free, on its way back, or in one buffer that the
\* owner, another thread or the queue holds; in_use counts the buffers.  A part that the
\* kernel may still work on belongs to the buffer that its request holds in the queue, or
\* that was forgotten when the queue was dropped, so that no device writes to memory that
\* somebody else has (alloc and release, the return stack, Transfer::complete, Drop).
BuffersDisjoint ==
    LET back == FreeBlocks \cup ToSet(returned) \cup Pushed
        out == held \cup abroad \cup InSlots \cup InCompleted \cup leaked
        sending == {s \in Occupied : queue.slots[s].request.buffer # None}
        sent == {n \in DOMAIN queue.completed : queue.completed[n].request.buffer # None}
    IN  /\ Cardinality(UNION {PagesOf(block) : block \in back \cup out}) = capacity
        /\ inUse = Weight(out) /\ Weight(back) + inUse = capacity
        /\ Cardinality(back) = FreeEntries + Len(returned) + Cardinality(Pushed)
        /\ Cardinality(out) = Cardinality(held) + Cardinality(abroad) + Cardinality(sending)
                                 + Cardinality(sent) + Cardinality(leaked)
        /\ \A part \in live \cup ToSet(queue.sq) :
             BufferOf(part) \subseteq
                 IF phase = "closed" THEN leaked ELSE BufferOf(queue.slots[part.slot].request)

\* A request comes back once, after the kernel is done with all of its parts, and the parts
\* are the whole request, none of it twice; its result is the sum of theirs, or an error if
\* any of them failed, although parts of several requests take turns and finish in any
\* order.  Parts in flight never exceed the depth (stage, reap, Transfer).
RequestsExact ==
    /\ queue.pending = Len(queue.sq) + Cardinality(live) + Len(cq) \/ phase = "closed"
    /\ queue.pending <= Depth
    /\ Len(queue.free) + Cardinality(Occupied) + Len(queue.completed) = Depth
    /\ \A n \in DOMAIN queue.completed :
         LET done == queue.completed[n]
             parts == work[done.slot]
         IN  /\ \A part \in live \cup ToSet(queue.sq) : part.slot # done.slot
             /\ IF Valid(done.request)
                THEN /\ UNION {p.from..p.from + p.len - 1 : p \in parts} = 0..done.request.len - 1
                     /\ MapThenSumSet(LAMBDA p : p.len, parts) = done.request.len
                     /\ parts # {}
                     /\ done.result = IF \E p \in parts : p.result = Error THEN Error
                                      ELSE MapThenSumSet(LAMBDA p : p.result, parts)
                ELSE parts = {} /\ done.result = Error
=============================================================================
