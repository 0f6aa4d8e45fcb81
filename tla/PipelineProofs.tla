--------------------------- MODULE PipelineProofs ---------------------------
(***************************************************************************)
(* Proofs about Pipeline.  Its properties are not inductive by themselves: *)
(* that writes are published as a prefix depends on how the slots, the     *)
(* FIFO of pending writes and failed_at agree with what was accepted.      *)
(* First the inductive invariant, the initial states, and that every step  *)
(* preserves it, whether it leaves the operations alone, accepts one, or   *)
(* completes one, in its order or because the queue failed.  Then the      *)
(* theorems: every operation is accounted for, writes are published in     *)
(* order, the index holds the newest entries, and the pipeline implements  *)
(* OrderedStore.                                                           *)
(***************************************************************************)
EXTENDS Pipeline, FiniteSetTheorems, TLAPS

USE Zenon

Holds(s, op) == slots[s] # None /\ slots[s].op = op

\* A slot remembers what was accepted under its ticket.
EntriesOwed == \A s \in InFlight : outcome[slots[s].ticket].entries = slots[s].entries

\* Until the queue fails, the FIFO holds exactly the pending writes, in ticket order.
WriteQueue ==
    ~queue_failed =>
        /\ \A i \in DOMAIN writes : Holds(writes[i], "write")
        /\ \A s \in Slots : Holds(s, "write") => \E i \in DOMAIN writes : writes[i] = s
        /\ \A i, j \in DOMAIN writes : i < j => slots[writes[i]].ticket < slots[writes[j]].ticket

WriteStages == \A s \in Slots : Holds(s, "write") => slots[s].stage \in {"io", "ok", "err"}

\* Completed writes precede every pending one.
CompletedFirst ==
    \A s \in Slots, u \in WriteTickets :
        Holds(s, "write") /\ outcome[u].result \in {"ok", "err"} => u < slots[s].ticket

\* failed_at is a lower bound of the failed writes, known before any of them is reported.
FailureKnown ==
    /\ \A s \in Slots : Holds(s, "write") /\ slots[s].stage = "err"
                            => failed_at # 0 /\ failed_at <= slots[s].ticket
    /\ \A u \in WriteTickets : outcome[u].result = "err" => failed_at # 0 /\ failed_at <= u
    /\ \A u \in DOMAIN outcome :
          outcome[u].op = "flush" /\ outcome[u].result = "err" => failed_at # 0
    /\ \A u \in DOMAIN outcome : outcome[u].result = "failed" => queue_failed

\* Until the queue fails there is one flush slot; its sync is submitted after all writes.
FlushSlot ==
    /\ ~queue_failed =>
        /\ flush # None => Holds(flush, "flush")
        /\ \A s \in Slots : Holds(s, "flush") => flush = s
        /\ flush # None /\ slots[flush].stage # "queued" => writes = <<>> /\ failed_at = 0
        /\ flush # None /\ slots[flush].stage = "queued" => io[flush] = "idle"
    /\ flush # None /\ io[flush] # "idle" => \A s \in Slots : ~Holds(s, "write")

EmptyReads ==
    ~queue_failed =>
        /\ \A i \in DOMAIN ready_reads : Holds(ready_reads[i], "empty")
        /\ \A i, j \in DOMAIN ready_reads : ready_reads[i] = ready_reads[j] => i = j

Running ==
    /\ pc \notin {"idle", "failing"} => ~queue_failed
    /\ pc = "failing" => queue_failed

Unserved == ~serving => \A t \in DOMAIN outcome : outcome[t].op = "lifecycle"

\* Slots of the queue that are free hold no request, until the queue fails.
IdleSlots ==
    /\ \A s \in Slots : slots[s] = None /\ ~queue_failed => io[s] = "idle"
    /\ \A s \in Slots : Holds(s, "write") /\ ~queue_failed =>
          (slots[s].stage = "io" <=> io[s] # "idle")
    /\ \A s \in Slots : Holds(s, "empty") /\ ~queue_failed => io[s] = "idle"

IndexKeyed == \A k \in DOMAIN index : index[k].key = k

\* What a frame of a caller is, and what applying one to the index yields.
FrameTyped(frame) == frame \in Seq(Entry) /\ Len(frame) \in Nat /\ ReservedNew(frame) \in Nat

AppliedTyped(entries) ==
    /\ DOMAIN Apply(index, entries) \subseteq Keys
    /\ Apply(index, entries) \in [DOMAIN Apply(index, entries) -> Entry]
    /\ \A k \in DOMAIN Apply(index, entries) : Apply(index, entries)[k].key = k

OrderInv == PrefixPublication /\ FlushCoversWrites /\ NotificationsInOrder

Inv ==
    /\ TypeOK /\ IndexKeyed
    /\ TicketAccounting /\ EntriesOwed
    /\ WriteQueue /\ WriteStages /\ CompletedFirst
    /\ FailureKnown /\ FlushSlot /\ EmptyReads /\ IdleSlots
    /\ Running /\ Unserved
    /\ OrderInv

(***************************************************************************)
(* Initial states                                                          *)
(***************************************************************************)
\* A fresh pipeline satisfies the invariant.
LEMMA InitInv == Init => Inv
<1> SUFFICES ASSUME Init PROVE Inv
  OBVIOUS
<1> USE PipelineAssumption DEF Init
<1>1. TypeOK
  <2>1. QueueType
    BY SMT DEF QueueType, Tokens
  <2>4. TicketType
    <3>1. next_ticket \in 1..TicketLimit /\ outcome \in Seq(Issued)
      BY SMT
    <3>2. serving \in BOOLEAN
      BY ZenonT(30)
    <3> QED
      BY <3>1, <3>2 DEF TicketType
  <2>5. FailType
    BY ZenonT(30) DEF FailType
  <2>2. OwnerType /\ PollType
    BY ZenonT(30) DEF OwnerType, PollType, Phases, NoWork
  <2>3. IndexType
    <3>1. DOMAIN index = {}
      BY SMT
    <3> QED
      BY <3>1, SMT DEF IndexType
  <2> QED
    BY <2>1, <2>2, <2>3, <2>4, <2>5 DEF TypeOK
<1>2. IndexKeyed /\ TicketAccounting /\ EntriesOwed
  BY SMT DEF IndexKeyed, TicketAccounting, EntriesOwed, InFlight, Free
<1>3. WriteQueue /\ WriteStages /\ CompletedFirst /\ EmptyReads
  BY SMT DEF WriteQueue, WriteStages, CompletedFirst, EmptyReads, Holds
<1>4. FailureKnown /\ FlushSlot /\ IdleSlots /\ Running /\ Unserved
  BY SMT DEF FailureKnown, FlushSlot, IdleSlots, Running, Unserved, Holds, WriteTickets, Tokens
<1>5. OrderInv
  BY SMT DEF OrderInv, PrefixPublication, FlushCoversWrites, NotificationsInOrder, Published,
         WriteTickets
<1> QED
  BY <1>1, <1>2, <1>3, <1>4, <1>5 DEF Inv

(***************************************************************************)
(* Steps that leave operations alone: they move poll, the control request  *)
(* or the segment, and complete requests inside the queue.                 *)
(***************************************************************************)
\* A group of variables keeps its type when no variable of it changes.
LEMMA UnchangedTypes ==
    /\ QueueType /\ UNCHANGED queueVars => QueueType'
    /\ TicketType /\ UNCHANGED ticketVars => TicketType'
    /\ FailType /\ UNCHANGED failVars => FailType'
    /\ OwnerType /\ UNCHANGED ownerVars => OwnerType'
    /\ IndexType /\ UNCHANGED indexVars => IndexType'
    /\ PollType /\ UNCHANGED pollVars => PollType'
BY DEF QueueType, TicketType, FailType, OwnerType, IndexType, PollType,
       queueVars, ticketVars, failVars, ownerVars, indexVars, pollVars

\* A step that leaves slots, tickets and failures alone keeps the order of writes.
LEMMA QuietStep ==
    ASSUME Inv, TypeOK', Running',
           UNCHANGED <<slots, writes, ready_reads, flush, ticketVars, failed_at, queue_failed, index>>,
           \A s \in Slots : io'[s] = "idle" <=> io[s] = "idle"
    PROVE  Inv'
<1> USE DEF ticketVars
<1>1. IndexKeyed' /\ TicketAccounting' /\ EntriesOwed'
  BY SMT DEF Inv, IndexKeyed, TicketAccounting, EntriesOwed, InFlight, Free
<1>2. WriteQueue' /\ WriteStages' /\ CompletedFirst' /\ EmptyReads'
  BY DEF Inv, WriteQueue, WriteStages, CompletedFirst, EmptyReads, Holds, WriteTickets
<1>3. FailureKnown' /\ Unserved'
  BY DEF Inv, FailureKnown, Unserved, Holds, WriteTickets
<1>4. FlushSlot' /\ IdleSlots'
  BY DEF Inv, FlushSlot, IdleSlots, Holds, TypeOK, QueueType
<1>5. OrderInv'
  BY DEF Inv, OrderInv, PrefixPublication, FlushCoversWrites, NotificationsInOrder, Published,
         WriteTickets
<1> QED
  BY <1>1, <1>2, <1>3, <1>4, <1>5 DEF Inv

\* The steps of poll that only move to its next phase (driver.rs, poll).
LEMMA PollMovesInv ==
    ASSUME Inv, \/ RetireEnd \/ FlushSkip \/ ReadsEnd \/ QueuePoll \/ ReapEnd \/ PollBegin
    PROVE  Inv'
<1> USE DEF queueVars, ticketVars, failVars, ownerVars, indexVars, Goto
<1>1. TypeOK'
  <2> USE DEF Inv, TypeOK, PollType
  <2>1. ASSUME RetireEnd \/ FlushSkip \/ ReadsEnd \/ QueuePoll \/ ReapEnd
        PROVE  PollType'
    <3>1. pc' \in Phases /\ UNCHANGED <<emitted, work>>
      BY <2>1, ZenonT(30) DEF RetireEnd, FlushSkip, ReadsEnd, QueuePoll, ReapEnd, AfterRetire, AfterFlush, Phases
    <3> QED
      BY <3>1, SMTT(30)
  <2>2. ASSUME PollBegin
        PROVE  PollType'
    <3>1. pc' \in Phases /\ emitted' \in BOOLEAN
      BY <2>2, ZenonT(30) DEF PollBegin, Phases
    <3>2. work' = NoWork
      BY <2>2 DEF PollBegin
    <3> QED
      BY <3>1, <3>2 DEF NoWork
  <2>3. PollType'
    BY <2>1, <2>2
  <2>4. UNCHANGED <<queueVars, ticketVars, failVars, ownerVars, indexVars>>
    BY DEF RetireEnd, FlushSkip, ReadsEnd, QueuePoll, ReapEnd, PollBegin
  <2> QED
    BY <2>3, <2>4, UnchangedTypes
<1>2. Running'
  BY SMT DEF Inv, Running, RetireEnd, FlushSkip, ReadsEnd, QueuePoll, ReapEnd, PollBegin, AfterRetire,
     AfterFlush
<1>3. UNCHANGED <<slots, io, writes, ready_reads, flush, ticketVars, failed_at, queue_failed, index>>
  BY DEF RetireEnd, FlushSkip, ReadsEnd, QueuePoll, ReapEnd, PollBegin
<1> QED
  BY <1>1, <1>2, <1>3, QuietStep

\* What the engine does with the control request and the segment (maintenance.rs, attach,
\* take_segment).
LEMMA OwnerMovesInv ==
    ASSUME Inv, \/ EndMaintenance \/ ControlIo \/ TakeControl \/ Attach \/ TakeSegment
    PROVE  Inv'
<1> USE DEF queueVars, ticketVars, failVars, indexVars, pollVars
<1>1. TypeOK'
  <2>1. OwnerType'
    <3>1. maintenance' \in BOOLEAN
      BY ZenonT(30) DEF Inv, TypeOK, OwnerType, EndMaintenance, ControlIo, TakeControl, Attach, TakeSegment
    <3>2. control' \in {"none", "queued", "active", "ok", "err"}
      BY DEF Inv, TypeOK, OwnerType, EndMaintenance, ControlIo, TakeControl, Attach, TakeSegment
    <3>3. segment' \in 0..SegmentFrames \cup {None}
      BY PipelineAssumption, SMT DEF Inv, TypeOK, OwnerType, EndMaintenance, ControlIo, TakeControl,
         Attach, TakeSegment
    <3> QED
      BY <3>1, <3>2, <3>3, SMTT(30) DEF OwnerType
  <2>2. UNCHANGED <<queueVars, ticketVars, failVars, indexVars, pollVars>>
    BY DEF EndMaintenance, ControlIo, TakeControl, Attach, TakeSegment
  <2> QED
    BY <2>1, <2>2, UnchangedTypes DEF Inv, TypeOK
<1>2. Running'
  BY DEF Inv, Running, EndMaintenance, ControlIo, TakeControl, Attach, TakeSegment
<1>3. UNCHANGED <<slots, io, writes, ready_reads, flush, ticketVars, failed_at, queue_failed, index>>
  BY DEF EndMaintenance, ControlIo, TakeControl, Attach, TakeSegment
<1> QED
  BY <1>1, <1>2, <1>3, QuietStep

\* Requests completing in the device, and the control request entering and leaving the queue.
LEMMA QueueMovesInv ==
    ASSUME Inv,
           \/ StartControl
           \/ \E bytes \in 0..1 : ReapControl(bytes)
           \/ \E t \in Tokens, result \in {"ok", "err"} : DeviceComplete(t, result)
    PROVE  Inv'
<1> USE DEF ticketVars, failVars, ownerVars, indexVars, pollVars, Goto, Return, Submit, Pop, Worked
<1>1. CASE StartControl
  <2>1. TypeOK'
    <3> USE <1>1 DEF Inv, TypeOK
    <3>3. QueueType'
      BY DEF QueueType, StartControl, Tokens
    <3>4. OwnerType'
      BY DEF OwnerType, StartControl
    <3>5. PollType'
      <4>1. pc' \in Phases /\ emitted' \in BOOLEAN
        BY ZenonT(30) DEF PollType, StartControl, Phases
      <4>2. work' \in {work, NoWork}
        BY DEF StartControl
      <4> QED
        BY <4>1, <4>2, SMT DEF PollType, NoWork
    <3>1. QueueType' /\ OwnerType' /\ PollType'
      BY <3>3, <3>4, <3>5
    <3>2. UNCHANGED <<ticketVars, failVars, indexVars>>
      BY <1>1 DEF StartControl
    <3> QED
      BY <3>1, <3>2, UnchangedTypes DEF Inv, TypeOK
  <2>2. Running'
    BY <1>1 DEF Inv, Running, StartControl
  <2>3. \A s \in Slots : io'[s] = io[s]
    BY <1>1, PipelineAssumption DEF Inv, TypeOK, QueueType, StartControl, Tokens
  <2>4. UNCHANGED <<slots, writes, ready_reads, flush, ticketVars, failed_at, queue_failed, index>>
    BY <1>1 DEF StartControl
  <2> QED
    BY <2>1, <2>2, <2>3, <2>4, QuietStep
<1>2. CASE \E bytes \in 0..1 : ReapControl(bytes)
  <2> PICK bytes \in 0..1 : ReapControl(bytes)
    BY <1>2
  <2>1. TypeOK'
    <3>1. QueueType' /\ OwnerType' /\ PollType'
      BY SMT DEF Inv, TypeOK, QueueType, OwnerType, PollType, ReapControl, Tokens
    <3>2. UNCHANGED <<ticketVars, failVars, indexVars>>
      BY DEF ReapControl
    <3> QED
      BY <3>1, <3>2, UnchangedTypes DEF Inv, TypeOK
  <2>2. Running'
    BY DEF Inv, Running, ReapControl
  <2>3. \A s \in Slots : io'[s] = io[s]
    BY PipelineAssumption DEF Inv, TypeOK, QueueType, ReapControl, Tokens
  <2>4. UNCHANGED <<slots, writes, ready_reads, flush, ticketVars, failed_at, queue_failed, index>>
    BY DEF ReapControl
  <2> QED
    BY <2>1, <2>2, <2>3, <2>4, QuietStep
<1>3. CASE \E t \in Tokens, result \in {"ok", "err"} : DeviceComplete(t, result)
  <2> PICK t \in Tokens, result \in {"ok", "err"} : DeviceComplete(t, result)
    BY <1>3
  <2>1. TypeOK'
    <3>1. QueueType'
      BY DEF Inv, TypeOK, QueueType, DeviceComplete
    <3>2. UNCHANGED <<ticketVars, failVars, ownerVars, indexVars, pollVars>>
      BY DEF DeviceComplete
    <3> QED
      BY <3>1, <3>2, UnchangedTypes DEF Inv, TypeOK
  <2>2. Running'
    BY DEF Inv, Running, DeviceComplete
  <2>3. \A s \in Slots : io'[s] = "idle" <=> io[s] = "idle"
    BY DEF Inv, TypeOK, QueueType, DeviceComplete, Tokens
  <2>4. UNCHANGED <<slots, writes, ready_reads, flush, ticketVars, failed_at, queue_failed, index>>
    BY DEF DeviceComplete
  <2> QED
    BY <2>1, <2>2, <2>3, <2>4, QuietStep
<1> QED
  BY <1>1, <1>2, <1>3

(***************************************************************************)
(* The three ways an operation moves: it is accepted into a slot, its slot *)
(* changes stage, or it is completed and its slot freed.                   *)
(***************************************************************************)
\* The slot marker is not a pending operation.
LEMMA PendingNotNone == \A p \in Pending : p # None
BY PipelineAssumption

\* An accepted operation extends the history and rewrites nothing in it.
LEMMA Appended ==
    ASSUME TicketType, NEW r \in Issued, outcome' = Append(outcome, r)
    PROVE  /\ outcome' \in Seq(Issued)
           /\ Len(outcome') = Len(outcome) + 1
           /\ DOMAIN outcome = 1..Len(outcome) /\ Len(outcome) \in Nat
           /\ DOMAIN outcome' = DOMAIN outcome \cup {Len(outcome) + 1}
           /\ \A t \in DOMAIN outcome : outcome'[t] = outcome[t]
           /\ outcome'[Len(outcome) + 1] = r
BY SMT DEF TicketType

\* A completion changes the result of one ticket and nothing else of the history.
LEMMA Completed ==
    ASSUME TicketType, NEW t \in DOMAIN outcome, NEW r \in Results,
           outcome' = [outcome EXCEPT ![t].result = r]
    PROVE  /\ outcome' \in Seq(Issued)
           /\ Len(outcome') = Len(outcome)
           /\ DOMAIN outcome = 1..Len(outcome) /\ Len(outcome) \in Nat
           /\ DOMAIN outcome' = DOMAIN outcome
           /\ \A u \in DOMAIN outcome :
                 /\ outcome'[u].op = outcome[u].op
                 /\ outcome'[u].entries = outcome[u].entries
                 /\ outcome'[u].result = IF u = t THEN r ELSE outcome[u].result
<1>1. outcome \in Seq(Issued)
  BY DEF TicketType
<1>2. [outcome[t] EXCEPT !.result = r] \in Issued
  <2>1. outcome[t] \in Issued
    BY <1>1, SMT
  <2> QED
    BY <2>1 DEF Issued
<1> QED
  BY <1>1, <1>2, SMT DEF Issued

\* What these moves preserve whatever the operation is.
Bookkeeping == TicketAccounting /\ EntriesOwed /\ WriteStages /\ Unserved

\* An operation that takes a free slot under the next ticket keeps the bookkeeping: what
\* admission, take_slot and the three API calls share.
LEMMA AcceptStep ==
    ASSUME Inv, NEW s \in Slots, NEW p \in Pending, TakeSlot(s, p),
           p.ticket = next_ticket, p.op = "write" => p.stage = "io",
           next_ticket < TicketLimit, UNCHANGED <<failed_at, queue_failed>>
    PROVE  /\ slots' \in [Slots -> Pending \cup {None}] /\ TicketType'
           /\ Bookkeeping' /\ CompletedFirst' /\ FailureKnown' /\ OrderInv'
<1> DEFINE n == Len(outcome) + 1
           r == [op |-> p.op, entries |-> p.entries, result |-> "pending"]
<1> USE PipelineAssumption
<1>1. TicketType /\ slots \in [Slots -> Pending \cup {None}] /\ next_ticket = n
  BY DEF Inv, TypeOK, QueueType, TicketAccounting
<1>2. r \in Issued
  BY DEF Pending, Issued, Results
<1>3. /\ slots[s] = None /\ slots' = [slots EXCEPT ![s] = p]
      /\ outcome' = Append(outcome, r) /\ next_ticket' = next_ticket + 1 /\ serving' = TRUE
  BY DEF TakeSlot
<1>4. /\ outcome' \in Seq(Issued) /\ Len(outcome') = Len(outcome) + 1
      /\ DOMAIN outcome = 1..Len(outcome) /\ Len(outcome) \in Nat
      /\ DOMAIN outcome' = DOMAIN outcome \cup {n}
      /\ \A t \in DOMAIN outcome : outcome'[t] = outcome[t]
      /\ outcome'[n] = r
  BY <1>1, <1>2, <1>3, Appended
<1>5. slots' \in [Slots -> Pending \cup {None}]
  BY <1>1, <1>3
<1>6. TicketType'
  BY <1>1, <1>3, <1>4, SMT DEF TicketType
<1>7. slots'[s] = p /\ p # None /\ \A x \in Slots : x # s => slots'[x] = slots[x]
  <2>1. p # None
    BY PendingNotNone
  <2> QED
    BY <2>1, <1>1, <1>3
<1> HIDE DEF r, n
<1>8. TicketAccounting'
  <2>1. next_ticket' = Len(outcome') + 1
    BY <1>1, <1>3, <1>4 DEF n
  <2>2. \A x \in InFlight' : \/ x = s
                             \/ x \in InFlight /\ slots'[x] = slots[x]
    BY <1>7 DEF InFlight, Free
  <2>3. \A x \in InFlight' : /\ slots'[x].ticket \in DOMAIN outcome'
                             /\ outcome'[slots'[x].ticket].op = slots'[x].op
                             /\ outcome'[slots'[x].ticket].result = "pending"
    BY <1>1, <1>4, <1>7, <2>2, SMTT(30) DEF Inv, TicketAccounting, r
  <2>4. \A x, y \in InFlight' : slots'[x].ticket = slots'[y].ticket => x = y
    BY <1>1, <1>4, <1>7, <2>2, SMT DEF Inv, TicketAccounting, n
  <2>5. \A t \in DOMAIN outcome' :
          outcome'[t].op # "lifecycle" /\ outcome'[t].result = "pending"
              => \E x \in InFlight' : slots'[x].ticket = t
    <3> SUFFICES ASSUME NEW t \in DOMAIN outcome', outcome'[t].op # "lifecycle",
                        outcome'[t].result = "pending"
                 PROVE  \E x \in InFlight' : slots'[x].ticket = t
      OBVIOUS
    <3>1. CASE t = n
      BY <1>1, <1>7, <3>1 DEF InFlight, Free
    <3>2. CASE t # n
      <4>1. PICK x \in InFlight : slots[x].ticket = t
        BY <1>4, <3>2 DEF Inv, TicketAccounting
      <4>2. x \in InFlight' /\ slots'[x] = slots[x]
        BY <1>3, <1>7 DEF InFlight, Free
      <4> QED
        BY <4>1, <4>2
    <3> QED
      BY <3>1, <3>2
  <2> QED
    BY <2>1, <2>3, <2>4, <2>5 DEF TicketAccounting
<1>9. EntriesOwed' /\ WriteStages'
  <2>1. EntriesOwed'
    BY <1>1, <1>4, <1>7, SMT DEF Inv, TicketAccounting, EntriesOwed, InFlight, Free, r
  <2>2. WriteStages'
    BY <1>7 DEF Inv, WriteStages, Holds
  <2> QED
    BY <2>1, <2>2, SMTT(30)
<1>10. Unserved'
  BY <1>3 DEF Unserved
<1>11. /\ \A t \in DOMAIN outcome' : t \in DOMAIN outcome \/ t = n
       /\ outcome'[n].result = "pending"
       /\ \A t \in DOMAIN outcome : t < n /\ outcome'[t] = outcome[t]
  BY <1>4, SMT DEF r, n
<1>12. CompletedFirst'
  BY <1>1, <1>7, <1>11, SMTT(30) DEF Inv, CompletedFirst, Holds, WriteTickets
<1>13. FailureKnown'
  BY <1>1, <1>7, <1>11, SMTT(30) DEF Inv, FailureKnown, Holds, WriteTickets
<1>14. OrderInv'
  <2>1. \A t \in DOMAIN outcome : t \in Nat /\ n \in Nat
    BY <1>4, SMT DEF n
  <2> QED
    BY <2>1, <1>11, SMT DEF Inv, OrderInv, PrefixPublication, FlushCoversWrites, NotificationsInOrder,
       Published, WriteTickets
<1> QED
  BY <1>5, <1>6, <1>8, <1>9, <1>10, <1>12, <1>13, <1>14 DEF Bookkeeping

\* The operation in slot s has moved to stage x.
Restaged(s, x) ==
    /\ slots' \in [Slots -> Pending \cup {None}]
    /\ \A y \in Slots :
          /\ slots'[y] = None <=> slots[y] = None
          /\ slots[y] # None => /\ slots'[y].op = slots[y].op
                                /\ slots'[y].ticket = slots[y].ticket
                                /\ slots'[y].entries = slots[y].entries
                                /\ slots'[y].stage = IF y = s THEN x ELSE slots[y].stage
    /\ Bookkeeping' /\ CompletedFirst' /\ OrderInv'

\* A slot whose operation moves to its next stage keeps the bookkeeping.
LEMMA StageStep ==
    ASSUME Inv, NEW s \in Slots, slots[s] # None, NEW x \in Stages,
           Holds(s, "write") => x \in {"io", "ok", "err"},
           slots' = [slots EXCEPT ![s].stage = x], UNCHANGED <<next_ticket, serving, outcome>>
    PROVE  Restaged(s, x)
<1>1. slots \in [Slots -> Pending \cup {None}] /\ slots[s] \in Pending
  BY DEF Inv, TypeOK, QueueType
<1>2. [slots[s] EXCEPT !.stage = x] \in Pending
  BY <1>1 DEF Pending
<1>3. /\ slots'[s] = [slots[s] EXCEPT !.stage = x]
      /\ \A y \in Slots : y # s => slots'[y] = slots[y]
      /\ slots' \in [Slots -> Pending \cup {None}]
  BY <1>1, <1>2
<1>4. /\ slots'[s] # None /\ slots'[s].stage = x /\ slots'[s].op = slots[s].op
      /\ slots'[s].ticket = slots[s].ticket /\ slots'[s].entries = slots[s].entries
  <2>1. slots'[s] # None
    BY <1>2, <1>3, PendingNotNone
  <2> QED
    BY <1>1, <1>3, <2>1 DEF Pending
<1>5. \A y \in Slots :
         /\ slots'[y] = None <=> slots[y] = None
         /\ slots[y] # None => /\ slots'[y].op = slots[y].op
                               /\ slots'[y].ticket = slots[y].ticket
                               /\ slots'[y].entries = slots[y].entries
                               /\ slots'[y].stage = IF y = s THEN x ELSE slots[y].stage
  BY <1>3, <1>4
<1>6. TicketAccounting'
  <2>1. InFlight' = InFlight
    BY <1>5 DEF InFlight, Free
  <2> QED
    BY <1>5, <2>1, SMT DEF Inv, TicketAccounting, InFlight
<1>7. EntriesOwed'
  BY <1>5, SMT DEF Inv, EntriesOwed, InFlight, Free
<1>8. WriteStages'
  BY <1>5, SMT DEF Inv, WriteStages, Holds
<1>9. Unserved'
  BY DEF Inv, Unserved
<1>10. CompletedFirst'
  BY <1>5 DEF Inv, CompletedFirst, Holds, WriteTickets
<1>11. OrderInv'
  BY DEF Inv, OrderInv, PrefixPublication, FlushCoversWrites, NotificationsInOrder, Published,
     WriteTickets
<1> QED
  BY <1>3, <1>5, <1>6, <1>7, <1>8, <1>9, <1>10, <1>11 DEF Bookkeeping, Restaged

\* The operation in slot s has received completion r and left its slot.
Finished(s, r) ==
    /\ slots' \in [Slots -> Pending \cup {None}] /\ TicketType'
    /\ slots'[s] = None /\ \A y \in Slots : y # s => slots'[y] = slots[y]
    /\ slots[s].ticket \in DOMAIN outcome
    /\ outcome[slots[s].ticket].op = slots[s].op
    /\ outcome[slots[s].ticket].result = "pending"
    /\ DOMAIN outcome' = DOMAIN outcome
    /\ \A u \in DOMAIN outcome :
          /\ u \in Nat
          /\ outcome'[u].op = outcome[u].op
          /\ outcome'[u].entries = outcome[u].entries
          /\ outcome'[u].result = IF u = slots[s].ticket THEN r ELSE outcome[u].result
    /\ Bookkeeping'

\* A slot that is freed when its ticket is completed keeps the bookkeeping.
LEMMA CompleteStep ==
    ASSUME Inv, NEW s \in Slots, slots[s] # None, NEW r \in {"ok", "err", "failed"},
           slots' = [slots EXCEPT ![s] = None],
           outcome' = [outcome EXCEPT ![slots[s].ticket].result = r],
           UNCHANGED <<next_ticket, serving>>
    PROVE  Finished(s, r)
<1> DEFINE t == slots[s].ticket
<1>1. TicketType /\ slots \in [Slots -> Pending \cup {None}] /\ s \in InFlight
  BY DEF Inv, TypeOK, QueueType, InFlight, Free
<1>2. /\ t \in DOMAIN outcome /\ outcome[t].op = slots[s].op /\ outcome[t].result = "pending"
      /\ outcome[t].entries = slots[s].entries
  BY <1>1 DEF Inv, TicketAccounting, EntriesOwed
<1>3. /\ outcome' \in Seq(Issued) /\ Len(outcome') = Len(outcome)
      /\ DOMAIN outcome = 1..Len(outcome) /\ Len(outcome) \in Nat
      /\ DOMAIN outcome' = DOMAIN outcome
      /\ \A u \in DOMAIN outcome :
            /\ outcome'[u].op = outcome[u].op
            /\ outcome'[u].entries = outcome[u].entries
            /\ outcome'[u].result = IF u = t THEN r ELSE outcome[u].result
  <2>1. r \in Results /\ outcome' = [outcome EXCEPT ![t].result = r]
    BY DEF Results
  <2> HIDE DEF t
  <2> QED
    BY <1>1, <1>2, <2>1, Completed, ZenonT(30)
<1>4. slots'[s] = None /\ \A y \in Slots : y # s => slots'[y] = slots[y]
  BY <1>1
<1>5. slots' \in [Slots -> Pending \cup {None}]
  BY <1>1
<1>6. TicketType'
  BY <1>1, <1>3 DEF TicketType
<1> HIDE DEF t
<1>7. InFlight' = InFlight \ {s}
  BY <1>4 DEF InFlight, Free
<1>8. \A y \in InFlight' : slots'[y] = slots[y] /\ slots[y].ticket # t
  BY <1>1, <1>4, <1>7 DEF Inv, TicketAccounting, InFlight, t
<1>9. TicketAccounting'
  <2>1. next_ticket' = Len(outcome') + 1
    BY <1>3 DEF Inv, TicketAccounting
  <2>2. \A y \in InFlight' : /\ slots'[y].ticket \in DOMAIN outcome'
                             /\ outcome'[slots'[y].ticket].op = slots'[y].op
                             /\ outcome'[slots'[y].ticket].result = "pending"
    BY <1>3, <1>7, <1>8, SMT DEF Inv, TicketAccounting
  <2>3. \A x, y \in InFlight' : slots'[x].ticket = slots'[y].ticket => x = y
    BY <1>7, <1>8, SMT DEF Inv, TicketAccounting
  <2>4. ASSUME NEW u \in DOMAIN outcome', outcome'[u].op # "lifecycle",
               outcome'[u].result = "pending"
        PROVE  \E y \in InFlight' : slots'[y].ticket = u
    <3>1. u # t /\ outcome[u].op # "lifecycle" /\ outcome[u].result = "pending"
      BY <1>3, <2>4
    <3>2. PICK y \in InFlight : slots[y].ticket = u
      BY <1>3, <3>1, <2>4 DEF Inv, TicketAccounting
    <3> QED
      BY <1>7, <1>8, <3>1, <3>2 DEF t
  <2> QED
    BY <2>1, <2>2, <2>3, <2>4 DEF TicketAccounting
<1>10. EntriesOwed'
  BY <1>3, <1>7, <1>8, SMT DEF Inv, EntriesOwed, TicketAccounting
<1>11. WriteStages'
  BY <1>4 DEF Inv, WriteStages, Holds
<1>12. Unserved'
  BY <1>3 DEF Inv, Unserved
<1> QED
  BY <1>2, <1>3, <1>4, <1>5, <1>6, <1>9, <1>10, <1>11, <1>12, SMT DEF Bookkeeping, Finished, t

(***************************************************************************)
(* Acceptance                                                              *)
(***************************************************************************)
\* Accepting a write (submit_frame).
LEMMA WriteInv ==
    ASSUME Inv, NEW frame \in Frames, FrameTyped(frame), NEW s \in Slots, Write(frame, s)
    PROVE  Inv'
<1> DEFINE p == [op |-> "write", ticket |-> next_ticket, stage |-> "io",
                 entries |-> frame, reserved |-> ReservedNew(frame)]
<1> USE DEF failVars, pollVars
<1>1. /\ pc = "idle" /\ ~queue_failed /\ segment # None /\ failed_at = 0 /\ flush = None
      /\ next_ticket < TicketLimit /\ segment < SegmentFrames
      /\ TakeSlot(s, p) /\ slots[s] = None /\ slots' = [slots EXCEPT ![s] = p]
      /\ segment' = segment + 1 /\ pending_entries' = pending_entries + Len(frame)
      /\ pending_new' = pending_new + ReservedNew(frame)
      /\ writes' = Append(writes, s) /\ io' = [io EXCEPT ![s] = "busy"]
      /\ UNCHANGED <<ready_reads, flush, failVars, control, maintenance, index, restored, pollVars>>
  BY DEF Write, Admission, TakeSlot, Submit, SegmentFits, Queued
<1>2. /\ QueueType /\ OwnerType /\ IndexType /\ next_ticket \in Nat
      /\ frame \in Seq(Entry) /\ Len(frame) \in Nat /\ ReservedNew(frame) \in Nat
  BY SMT DEF Inv, TypeOK, TicketType, FrameTyped
<1>3. p \in Pending
  BY <1>2 DEF Pending, Ops, Stages
<1>4. /\ slots' \in [Slots -> Pending \cup {None}] /\ TicketType'
      /\ Bookkeeping' /\ CompletedFirst' /\ FailureKnown' /\ OrderInv'
  <2>1. p.ticket = next_ticket /\ (p.op = "write" => p.stage = "io")
    OBVIOUS
  <2> HIDE DEF p
  <2> QED
    BY <1>1, <1>3, <2>1, AcceptStep
<1>5. /\ slots'[s] = p /\ p # None /\ p.op = "write" /\ p.ticket = next_ticket /\ p.stage = "io"
      /\ \A y \in Slots : y # s => slots'[y] = slots[y]
  BY <1>1, <1>2, <1>3, PendingNotNone DEF QueueType
<1> HIDE DEF p
<1>6. TypeOK'
  <2>1. QueueType'
    BY <1>1, <1>2, <1>4, SMT DEF QueueType, Tokens
  <2>2. OwnerType'
    BY <1>1, <1>2, PipelineAssumption, SMT DEF OwnerType
  <2>3. IndexType'
    BY <1>1, <1>2, SMT DEF IndexType
  <2> QED
    BY <1>1, <1>4, <2>1, <2>2, <2>3, UnchangedTypes DEF Inv, TypeOK
<1>7. writes \in Seq(Slots) /\ DOMAIN writes' = DOMAIN writes \cup {Len(writes) + 1}
      /\ DOMAIN writes = 1..Len(writes) /\ Len(writes) \in Nat
      /\ writes'[Len(writes) + 1] = s /\ \A i \in DOMAIN writes : writes'[i] = writes[i]
  BY <1>1, <1>2, SMT DEF QueueType
<1>8. WriteQueue'
  <2>1. \A i \in DOMAIN writes : writes[i] # s /\ slots'[writes[i]] = slots[writes[i]]
                                 /\ Holds(writes[i], "write")
                                 /\ slots[writes[i]].ticket < next_ticket
    <3>1. \A x \in Slots : Holds(x, "write") => slots[x].ticket < next_ticket
      BY SMT DEF Inv, TicketAccounting, InFlight, Free, Holds, TypeOK, TicketType
    <3> QED
      BY <1>1, <1>5, <1>7, <3>1, SMT DEF Inv, WriteQueue, Holds
  <2>2. \A i \in DOMAIN writes' : Holds(writes[i], "write")' 
    BY <1>5, <1>7, <2>1, SMT DEF Holds
  <2>3. \A x \in Slots : Holds(x, "write")' => \E i \in DOMAIN writes' : writes'[i] = x
    BY <1>1, <1>5, <1>7, SMT DEF Inv, WriteQueue, Holds
  <2>4. \A i, j \in DOMAIN writes' :
          i < j => slots'[writes'[i]].ticket < slots'[writes'[j]].ticket
    BY <1>1, <1>5, <1>7, <2>1, SMT DEF Inv, WriteQueue
  <2> QED
    BY <2>2, <2>3, <2>4 DEF WriteQueue
<1>9. FlushSlot' /\ EmptyReads' /\ IdleSlots' /\ Running' /\ IndexKeyed'
  <2>1. FlushSlot'
    BY <1>1, <1>5 DEF Inv, FlushSlot, Holds
  <2>2. EmptyReads'
    BY <1>1, <1>2, <1>5, SMT DEF Inv, EmptyReads, Holds, QueueType
  <2>3. IdleSlots'
    BY <1>1, <1>2, <1>5 DEF Inv, IdleSlots, Holds, QueueType, Tokens
  <2>4. Running' /\ IndexKeyed'
    BY <1>1 DEF Inv, Running, IndexKeyed
  <2> QED
    BY <2>1, <2>2, <2>3, <2>4
<1> QED
  BY <1>4, <1>6, <1>8, <1>9 DEF Inv, Bookkeeping

\* A read of whatever kind: a direct or verified one submits a request, an empty one waits
\* in ready_reads.
LEMMA ReadInv ==
    ASSUME Inv, NEW k \in Keys, NEW s \in Slots,
           \/ Read(k, s) \/ ReadEmpty(k, s) \/ \E inline \in BOOLEAN : ReadVerified(k, inline, s)
    PROVE  Inv'
<1> USE DEF failVars, pollVars, ownerVars, indexVars
<1>1. PICK p \in Pending :
        /\ pc = "idle" /\ ~queue_failed /\ next_ticket < TicketLimit
        /\ TakeSlot(s, p) /\ slots[s] = None /\ slots' = [slots EXCEPT ![s] = p]
        /\ p.ticket = next_ticket /\ p.op \in {"read", "verified", "empty"}
        /\ \/ /\ p.op = "empty" /\ io' = io /\ ready_reads' = Append(ready_reads, s)
           \/ /\ p.op # "empty" /\ io' = [io EXCEPT ![s] = "busy"] /\ ready_reads' = ready_reads
        /\ UNCHANGED <<writes, flush, failVars, ownerVars, indexVars, pollVars>>
  <2>1. index[k] \in Entry /\ next_ticket \in Nat
    <3>1. k \in DOMAIN index
      BY ZenonT(30) DEF Read, ReadEmpty, ReadVerified, Located
    <3>2. index \in [DOMAIN index -> Entry] /\ next_ticket \in Nat
      BY SMT DEF Inv, TypeOK, IndexType, TicketType
    <3> QED
      BY <3>1, <3>2
  <2>2. \A op \in {"read", "verified", "empty"}, stage \in Stages :
          /\ ReadOf(k, op, stage) \in Pending /\ ReadOf(k, op, stage).op = op
          /\ ReadOf(k, op, stage).ticket = next_ticket
    BY <2>1, SMT DEF ReadOf, Pending, Ops
  <2> HIDE DEF failVars, pollVars, ownerVars, indexVars
  <2>3. CASE Read(k, s)
    <3>1. ReadOf(k, "read", "io") \in Pending
      BY <2>2 DEF Stages
    <3> QED
      BY <2>2, <2>3, <3>1, ZenonT(30) DEF Read, Admission, TakeSlot, Submit, Stages
  <2>4. CASE ReadEmpty(k, s)
    <3>1. ReadOf(k, "empty", "queued") \in Pending
      BY <2>2 DEF Stages
    <3> QED
      BY <2>2, <2>4, <3>1, ZenonT(30) DEF ReadEmpty, Admission, TakeSlot, Stages
  <2>5. CASE \E inline \in BOOLEAN : ReadVerified(k, inline, s)
    <3>1. PICK inline \in BOOLEAN : ReadVerified(k, inline, s)
      BY <2>5
    <3>2. PICK stage \in Stages : stage = IF inline THEN "inline" ELSE "metadata"
      BY DEF Stages
    <3>3. /\ ReadOf(k, "verified", stage) \in Pending /\ ReadOf(k, "verified", stage).op = "verified"
          /\ ReadOf(k, "verified", stage).ticket = next_ticket
      BY <2>2
    <3> QED
      BY <3>1, <3>2, <3>3, ZenonT(30) DEF ReadVerified, Admission, TakeSlot, Submit
  <2> QED
    BY <2>3, <2>4, <2>5
<1>2. QueueType /\ next_ticket \in Nat
  BY SMT DEF Inv, TypeOK, TicketType
<1>3. /\ slots' \in [Slots -> Pending \cup {None}] /\ TicketType'
      /\ Bookkeeping' /\ CompletedFirst' /\ FailureKnown' /\ OrderInv'
  BY <1>1, AcceptStep
<1>4. /\ slots'[s] = p /\ p # None /\ \A y \in Slots : y # s => slots'[y] = slots[y]
  BY <1>1, <1>2, PendingNotNone DEF QueueType
<1>5. TypeOK'
  <2>1. io' \in [Tokens -> {"idle", "busy", "ok", "err"}]
    BY <1>1, <1>2 DEF QueueType, Tokens
  <2>2. ready_reads' \in Seq(Slots)
    <3>1. ready_reads \in Seq(Slots) /\ ready_reads' \in {ready_reads, Append(ready_reads, s)}
      BY <1>1, <1>2 DEF QueueType
    <3> QED
      BY <3>1, SMT
  <2>3. QueueType'
    BY <1>1, <1>2, <1>3, <2>1, <2>2, SMTT(30) DEF QueueType
  <2> QED
    BY <1>1, <1>3, <2>3, UnchangedTypes DEF Inv, TypeOK
<1>6. WriteQueue'
  <2>1. \A i \in DOMAIN writes : writes[i] # s /\ slots'[writes[i]] = slots[writes[i]]
    BY <1>1, <1>2, <1>4, SMT DEF Inv, WriteQueue, Holds, QueueType
  <2> QED
    BY <1>1, <1>4, <2>1, SMT DEF Inv, WriteQueue, Holds
<1>7. EmptyReads'
  <2>1. \A i \in DOMAIN ready_reads : ready_reads[i] # s /\ ready_reads[i] \in Slots
    BY <1>1, <1>2, SMT DEF Inv, EmptyReads, Holds, QueueType
  <2>2. CASE p.op = "empty"
    <3>1. /\ DOMAIN ready_reads' = DOMAIN ready_reads \cup {Len(ready_reads) + 1}
          /\ DOMAIN ready_reads = 1..Len(ready_reads) /\ Len(ready_reads) \in Nat
          /\ ready_reads'[Len(ready_reads) + 1] = s
          /\ \A i \in DOMAIN ready_reads : ready_reads'[i] = ready_reads[i]
      <4>1. ready_reads \in Seq(Slots) /\ ready_reads' = Append(ready_reads, s)
        BY <1>1, <1>2, <2>2 DEF QueueType
      <4> QED
        BY <4>1, SMT
    <3> QED
      BY <1>1, <1>4, <2>1, <2>2, <3>1, SMT DEF Inv, EmptyReads, Holds
  <2>3. CASE p.op # "empty"
    BY <1>1, <1>4, <2>1, <2>3, SMT DEF Inv, EmptyReads, Holds
  <2> QED
    BY <2>2, <2>3
<1>8. FlushSlot'
  BY <1>1, <1>2, <1>4 DEF Inv, FlushSlot, Holds, QueueType, Tokens
<1>9. IdleSlots'
  BY <1>1, <1>2, <1>4, SMTT(30) DEF Inv, IdleSlots, Holds, QueueType, Tokens
<1>10. Running' /\ IndexKeyed'
  BY <1>1 DEF Inv, Running, IndexKeyed
<1> QED
  BY <1>3, <1>5, <1>6, <1>7, <1>8, <1>9, <1>10 DEF Inv, Bookkeeping

\* Accepting a flush.
LEMMA FlushInv ==
    ASSUME Inv, NEW s \in Slots, Flush(s)
    PROVE  Inv'
<1> DEFINE p == [op |-> "flush", ticket |-> next_ticket, stage |-> "queued",
                 entries |-> <<>>, reserved |-> 0]
<1> USE DEF failVars, pollVars, ownerVars, indexVars
<1>1. /\ pc = "idle" /\ ~queue_failed /\ next_ticket < TicketLimit /\ failed_at = 0 /\ flush = None
      /\ TakeSlot(s, p) /\ slots[s] = None /\ slots' = [slots EXCEPT ![s] = p] /\ flush' = s
      /\ UNCHANGED <<io, writes, ready_reads, failVars, ownerVars, indexVars, pollVars>>
  BY DEF Flush, Admission, TakeSlot
<1>2. QueueType /\ next_ticket \in Nat
  BY SMT DEF Inv, TypeOK, TicketType
<1>3. p \in Pending
  BY <1>2, SMT DEF Pending, Ops, Stages
<1>4. /\ slots' \in [Slots -> Pending \cup {None}] /\ TicketType'
      /\ Bookkeeping' /\ CompletedFirst' /\ FailureKnown' /\ OrderInv'
  <2>1. p.ticket = next_ticket /\ (p.op = "write" => p.stage = "io")
    OBVIOUS
  <2> HIDE DEF p
  <2> QED
    BY <1>1, <1>3, <2>1, AcceptStep
<1>5. /\ slots'[s] = p /\ p # None /\ p.op = "flush" /\ p.stage = "queued"
      /\ \A y \in Slots : y # s => slots'[y] = slots[y]
  BY <1>1, <1>2, <1>3, PendingNotNone DEF QueueType
<1> HIDE DEF p
<1>6. TypeOK'
  <2>1. QueueType'
    BY <1>1, <1>2, <1>4 DEF QueueType
  <2> QED
    BY <1>1, <1>4, <2>1, UnchangedTypes DEF Inv, TypeOK
<1>7. WriteQueue'
  <2>1. \A i \in DOMAIN writes : writes[i] # s /\ slots'[writes[i]] = slots[writes[i]]
    BY <1>1, <1>2, <1>5, SMT DEF Inv, WriteQueue, Holds, QueueType
  <2> QED
    BY <1>1, <1>5, <2>1, SMT DEF Inv, WriteQueue, Holds
<1>8. EmptyReads'
  BY <1>1, <1>2, <1>5, SMT DEF Inv, EmptyReads, Holds, QueueType
<1>9. IdleSlots'
  BY <1>1, <1>5, SMT DEF Inv, IdleSlots, Holds
<1>10. FlushSlot'
  <2>1. io'[s] = "idle" /\ s # None
    BY <1>1, PipelineAssumption DEF Inv, IdleSlots
  <2>2. \A y \in Slots : Holds(y, "flush")' => y = s
    BY <1>1, <1>5, PipelineAssumption, SMTT(30) DEF Inv, FlushSlot, Holds
  <2> QED
    BY <1>1, <1>5, <2>1, <2>2 DEF FlushSlot, Holds
<1>11. Running' /\ IndexKeyed'
  BY <1>1 DEF Inv, Running, IndexKeyed
<1> QED
  BY <1>4, <1>6, <1>7, <1>8, <1>9, <1>10, <1>11 DEF Inv, Bookkeeping

\* A lifecycle ticket is appended to the history and holds no slot.
LEMMA IssueInv ==
    ASSUME Inv, \/ WasteTicket \/ \E ticketed \in BOOLEAN : BeginMaintenance(ticketed)
    PROVE  Inv'
<1> USE DEF queueVars, failVars, indexVars, pollVars
<1> DEFINE n == Len(outcome) + 1
           r == [op |-> "lifecycle", entries |-> <<>>, result |-> "pending"]
<1>1. /\ pc = "idle" /\ control' = control /\ segment' = segment /\ maintenance' \in BOOLEAN
      /\ UNCHANGED <<queueVars, failVars, indexVars, pollVars>>
      /\ UNCHANGED ticketVars \/ IssueTicket
  BY ZenonT(30) DEF WasteTicket, BeginMaintenance, ownerVars, Inv, TypeOK, OwnerType
<1>2. OwnerType'
  BY <1>1 DEF Inv, TypeOK, OwnerType
<1>3. Running'
  BY <1>1 DEF Inv, Running
<1>4. CASE UNCHANGED ticketVars
  <2>1. TypeOK'
    BY <1>1, <1>2, <1>4, UnchangedTypes DEF Inv, TypeOK
  <2> QED
    BY <1>1, <1>3, <1>4, <2>1, QuietStep
<1>5. CASE IssueTicket
  <2>1. /\ next_ticket < TicketLimit /\ next_ticket' = next_ticket + 1 /\ serving' = serving
        /\ outcome' = Append(outcome, r)
    BY <1>5, SMTT(30) DEF IssueTicket
  <2>2. TicketType /\ r \in Issued /\ next_ticket = n
    BY SMT DEF Inv, TypeOK, TicketAccounting, Issued, Results
  <2>3. /\ outcome' \in Seq(Issued) /\ Len(outcome') = Len(outcome) + 1
        /\ DOMAIN outcome = 1..Len(outcome) /\ Len(outcome) \in Nat
        /\ DOMAIN outcome' = DOMAIN outcome \cup {n}
        /\ \A t \in DOMAIN outcome : outcome'[t] = outcome[t]
        /\ outcome'[n] = r
    BY <2>1, <2>2, Appended
  <2>4. TicketType'
    BY <2>1, <2>2, <2>3, PipelineAssumption, SMT DEF TicketType
  <2>5. TypeOK'
    BY <1>1, <1>2, <2>4, UnchangedTypes DEF Inv, TypeOK
  <2>6. /\ \A t \in DOMAIN outcome' : t \in DOMAIN outcome \/ t = n
        /\ outcome'[n].result = "pending" /\ outcome'[n].op = "lifecycle"
        /\ n \in Nat /\ n \notin DOMAIN outcome
        /\ \A t \in DOMAIN outcome : t \in Nat /\ t < n /\ outcome'[t] = outcome[t]
        /\ DOMAIN outcome \subseteq DOMAIN outcome'
    BY <2>3, SMT
  <2> HIDE DEF n, r
  <2>7. TicketAccounting' /\ EntriesOwed' /\ Unserved'
    <3>1. InFlight' = InFlight /\ slots' = slots
      BY <1>1, SMTT(30) DEF InFlight, Free
    <3>2. TicketAccounting'
      <4>1. next_ticket' = Len(outcome') + 1
        BY <2>1, <2>2, <2>3, SMTT(30) DEF n
      <4> QED
        BY <2>6, <3>1, <4>1, SMT DEF Inv, TicketAccounting
    <3>3. EntriesOwed'
      BY <2>6, <3>1, SMT DEF Inv, TicketAccounting, EntriesOwed
    <3>4. Unserved'
      BY <2>1, <2>6, SMTT(30) DEF Inv, Unserved
    <3> QED
      BY <3>2, <3>3, <3>4
  <2>8. WriteQueue' /\ WriteStages' /\ EmptyReads' /\ FlushSlot' /\ IdleSlots' /\ IndexKeyed'
    BY <1>1, ZenonT(30) DEF Inv, WriteQueue, WriteStages, EmptyReads, FlushSlot, IdleSlots, IndexKeyed, Holds
  <2>9. CompletedFirst' /\ FailureKnown'
    BY <1>1, <2>6, ZenonT(30) DEF Inv, CompletedFirst, FailureKnown, Holds, WriteTickets
  <2>10. OrderInv'
    BY <2>6, SMT DEF Inv, OrderInv, PrefixPublication, FlushCoversWrites, NotificationsInOrder,
       Published, WriteTickets
  <2> QED
    BY <1>3, <2>5, <2>7, <2>8, <2>9, <2>10 DEF Inv
<1> QED
  BY <1>1, <1>4, <1>5

\* Recovered frames enter the index while nothing has been accepted.
LEMMA RestoreInv ==
    ASSUME Inv, NEW frame \in Frames, AppliedTyped(frame), Restore(frame)
    PROVE  Inv'
<1> USE DEF queueVars, ticketVars, failVars, ownerVars, pollVars
<1>1. /\ index' = Apply(index, frame) /\ restored' = restored \cup EntriesOf(frame)
      /\ UNCHANGED <<queueVars, ticketVars, failVars, ownerVars, pending_entries, pending_new, pollVars>>
  BY DEF Restore
<1>2. IndexType /\ IndexKeyed /\ frame \in Seq(Entry)
  BY PipelineAssumption DEF Inv, TypeOK
<1>3. /\ DOMAIN index' \subseteq Keys /\ index' \in [DOMAIN index' -> Entry]
      /\ \A k \in DOMAIN index' : index'[k].key = k
  BY <1>1 DEF AppliedTyped
<1>4. EntriesOf(frame) \subseteq Entry
  BY <1>2, SMT DEF EntriesOf
<1>5. TypeOK'
  <2>1. IndexType'
    BY <1>1, <1>2, <1>3, <1>4, SMTT(30) DEF IndexType
  <2> QED
    BY <1>1, <2>1, UnchangedTypes DEF Inv, TypeOK
<1>6. IndexKeyed' /\ TicketAccounting' /\ EntriesOwed'
  BY <1>1, <1>3, SMTT(30) DEF Inv, IndexKeyed, TicketAccounting, EntriesOwed, InFlight, Free
<1>7. WriteQueue' /\ WriteStages' /\ CompletedFirst' /\ EmptyReads'
  BY <1>1, SMTT(30) DEF Inv, WriteQueue, WriteStages, CompletedFirst, EmptyReads, Holds, WriteTickets
<1>8. FailureKnown' /\ Unserved' /\ Running' /\ FlushSlot' /\ IdleSlots'
  BY <1>1, SMTT(30) DEF Inv, FailureKnown, Unserved, Running, FlushSlot, IdleSlots, Holds, WriteTickets
<1>9. OrderInv'
  BY <1>1, ZenonT(30) DEF Inv, OrderInv, PrefixPublication, FlushCoversWrites, NotificationsInOrder, Published,
     WriteTickets
<1> QED
  BY <1>5, <1>6, <1>7, <1>8, <1>9 DEF Inv

(***************************************************************************)
(* Completion                                                              *)
(***************************************************************************)
\* The head of the FIFO is the oldest pending write, and every older write was completed
\* without a queue failure.
LEMMA HeadFacts ==
    ASSUME Inv, ~queue_failed, writes # <<>>
    PROVE  /\ Head(writes) \in Slots /\ Holds(Head(writes), "write")
           /\ slots[Head(writes)] \in Pending
           /\ \A s \in Slots : Holds(s, "write") /\ s # Head(writes)
                 => slots[Head(writes)].ticket < slots[s].ticket
           /\ \A u \in WriteTickets : u < slots[Head(writes)].ticket
                 => outcome[u].result \in {"ok", "err"}
<1> DEFINE h == Head(writes)
<1>1. /\ writes \in Seq(Slots) /\ 1 \in DOMAIN writes /\ h = writes[1]
      /\ \A i \in DOMAIN writes : i # 1 => 1 < i
  BY SMT DEF Inv, TypeOK, QueueType
<1>2. h \in Slots /\ Holds(h, "write")
  BY <1>1, SMT DEF Inv, WriteQueue
<1>3. slots[h] \in Pending
  BY <1>2 DEF Inv, TypeOK, QueueType, Holds
<1> HIDE DEF h
<1>4. ASSUME NEW s \in Slots, Holds(s, "write"), s # h
      PROVE  slots[h].ticket < slots[s].ticket
  <2>1. PICK i \in DOMAIN writes : writes[i] = s
    BY <1>4 DEF Inv, WriteQueue
  <2> QED
    BY <1>1, <1>4, <2>1 DEF Inv, WriteQueue
<1>5. ASSUME NEW u \in WriteTickets, u < slots[h].ticket
      PROVE  outcome[u].result \in {"ok", "err"}
  <2>1. u \in DOMAIN outcome /\ outcome[u].op = "write" /\ u \in Nat
    BY SMT DEF WriteTickets, Inv, TypeOK, TicketType
  <2>2. outcome[u] \in Issued
    BY <2>1, SMT DEF Inv, TypeOK, TicketType
  <2>3. outcome[u].result # "failed"
    BY <2>1 DEF Inv, FailureKnown
  <2>4. outcome[u].result # "pending"
    <3> SUFFICES ASSUME outcome[u].result = "pending" PROVE FALSE
      OBVIOUS
    <3>1. PICK s \in InFlight : slots[s].ticket = u
      BY <2>1 DEF Inv, TicketAccounting
    <3>2. s \in Slots /\ Holds(s, "write")
      BY <2>1, <3>1 DEF Inv, TicketAccounting, Holds, InFlight, Free
    <3> QED
      BY <1>3, <1>4, <1>5, <2>1, <3>1, <3>2, SMT DEF Pending
  <2> QED
    BY <2>2, <2>3, <2>4 DEF Issued, Results
<1> QED
  BY <1>2, <1>3, <1>4, <1>5 DEF h

\* Completing the oldest pending write with the result retire_writes computes keeps the order.
LEMMA RetireOrder ==
    ASSUME Inv, ~queue_failed, writes # <<>>,
           NEW h, h = Head(writes),
           NEW r, r = RetireResult(slots[h]), r \in {"ok", "err"},
           slots[h].stage \in {"ok", "err"},
           UNCHANGED failed_at,
           DOMAIN outcome' = DOMAIN outcome,
           \A u \in DOMAIN outcome :
                 /\ u \in Nat
                 /\ outcome'[u].op = outcome[u].op
                 /\ outcome'[u].result = IF u = slots[h].ticket THEN r ELSE outcome[u].result
    PROVE  /\ OrderInv'
           /\ r = "err" => failed_at # 0 /\ failed_at <= slots[h].ticket
<1> DEFINE t == slots[h].ticket
<1>1. /\ h \in Slots /\ Holds(h, "write") /\ slots[h] \in Pending
      /\ \A u \in WriteTickets : u < t => outcome[u].result \in {"ok", "err"}
  BY HeadFacts
<1>2. t \in DOMAIN outcome /\ outcome[t].op = "write" /\ outcome[t].result = "pending" /\ t \in Nat
  BY <1>1 DEF Inv, TicketAccounting, Holds, InFlight, Free, Pending
<1>3. failed_at \in Nat
  BY DEF Inv, TypeOK, FailType
<1>4. r = "err" => failed_at # 0 /\ failed_at <= t
  <2>1. CASE slots[h].stage = "err"
    BY <1>1, <2>1 DEF Inv, FailureKnown
  <2>2. CASE slots[h].stage = "ok"
    BY <1>2, <1>3, <2>2, SMT DEF RetireResult
  <2> QED
    BY <2>1, <2>2
<1>5. r = "ok" => \A u \in WriteTickets : u < t => outcome[u].result = "ok"
  <2> SUFFICES ASSUME r = "ok", NEW u \in WriteTickets, u < t, outcome[u].result = "err"
               PROVE  FALSE
    BY <1>1
  <2>1. failed_at # 0 /\ failed_at <= u /\ u \in Nat
    BY DEF Inv, FailureKnown, WriteTickets
  <2>2. failed_at < t
    BY <1>2, <1>3, <2>1, SMT
  <2> QED
    BY <1>2, <1>3, <2>1, <2>2 DEF RetireResult
<1> HIDE DEF t
<1>6. /\ WriteTickets' = WriteTickets
      /\ \A u \in WriteTickets : u \in DOMAIN outcome /\ u \in Nat
      /\ t \in WriteTickets
  BY <1>2 DEF WriteTickets
<1>7. \A u \in DOMAIN outcome : /\ outcome'[u].op = outcome[u].op
                                /\ outcome'[u].result = IF u = t THEN r ELSE outcome[u].result
  BY DEF t
<1>8. \A u \in WriteTickets : /\ u \in Published' <=> u \in Published \/ (u = t /\ r = "ok")
                              /\ u \in Published <=> outcome[u].result = "ok"
  BY <1>2, <1>6, <1>7 DEF Published
<1>9. PrefixPublication'
  <2> SUFFICES ASSUME NEW a \in Published', NEW u \in WriteTickets, u < a PROVE u \in Published'
    BY <1>6 DEF PrefixPublication
  <2>1. a \in WriteTickets
    BY <1>6 DEF Published
  <2>2. CASE a = t
    BY <1>2, <1>5, <1>6, <1>8, <2>1, <2>2
  <2>3. CASE a # t
    BY <1>8, <2>1, <2>3 DEF Inv, OrderInv, PrefixPublication
  <2> QED
    BY <2>2, <2>3
<1>10. FlushCoversWrites'
  BY <1>2, <1>6, <1>7, <1>8 DEF Inv, OrderInv, FlushCoversWrites
<1>11. NotificationsInOrder'
  <2> SUFFICES ASSUME NEW a \in WriteTickets, NEW u \in WriteTickets, u < a,
                      outcome'[a].result \in {"ok", "err"}
               PROVE  outcome'[u].result \in {"ok", "err"}
    BY <1>6 DEF NotificationsInOrder
  <2>1. CASE a = t
    BY <1>1, <1>6, <1>7, <2>1 DEF t
  <2>2. CASE a # t
    BY <1>6, <1>7, <2>2 DEF Inv, OrderInv, NotificationsInOrder
  <2> QED
    BY <2>1, <2>2
<1> QED
  BY <1>4, <1>9, <1>10, <1>11 DEF OrderInv, t

\* One iteration of retire_writes.
LEMMA RetireWriteInv ==
    ASSUME Inv, RetireWrite, \A entries \in Seq(Entry) : AppliedTyped(entries)
    PROVE  Inv'
<1> DEFINE h == Head(writes)
           r == RetireResult(slots[h])
<1> USE DEF failVars, ownerVars
<1>1. /\ pc \in {"retire1", "retire2"} /\ writes # <<>> /\ slots[h].stage \in {"ok", "err"}
      /\ writes' = Tail(writes) /\ slots' = [slots EXCEPT ![h] = None]
      /\ Release(slots[h])
      /\ work' = [operations |-> work.operations + 1, bytes |-> work.bytes + 0,
                  records |-> work.records + Len(slots[h].entries)]
      /\ index' = (IF r = "ok" THEN Apply(index, slots[h].entries) ELSE index)
      /\ outcome' = [outcome EXCEPT ![slots[h].ticket].result = r]
      /\ emitted' = TRUE
      /\ UNCHANGED <<io, ready_reads, flush, next_ticket, serving, failVars, ownerVars, restored, pc>>
  BY DEF RetireWrite, FrontCompleted, Worked, Emit
<1>2. /\ ~queue_failed /\ QueueType /\ IndexType /\ PollType /\ IndexKeyed
  BY <1>1 DEF Inv, Running, TypeOK
<1>3. /\ h \in Slots /\ Holds(h, "write") /\ slots[h] \in Pending
      /\ \A s \in Slots : Holds(s, "write") /\ s # h => slots[h].ticket < slots[s].ticket
  BY <1>1, <1>2, HeadFacts
<1>4. r \in {"ok", "err"} /\ slots[h] # None
  BY <1>1, <1>3 DEF RetireResult, Holds
<1>5. /\ Len(slots[h].entries) \in Nat /\ slots[h].entries \in Seq(Entry) /\ slots[h].reserved \in Nat
      /\ slots[h].ticket \in Nat
  BY <1>3, SMT DEF Pending
<1> HIDE DEF h, r
<1>6. /\ slots' \in [Slots -> Pending \cup {None}] /\ TicketType'
      /\ slots'[h] = None /\ \A y \in Slots : y # h => slots'[y] = slots[y]
      /\ slots[h].ticket \in DOMAIN outcome
      /\ outcome[slots[h].ticket].op = slots[h].op
      /\ DOMAIN outcome' = DOMAIN outcome
      /\ \A u \in DOMAIN outcome :
            /\ u \in Nat
            /\ outcome'[u].op = outcome[u].op
            /\ outcome'[u].result = IF u = slots[h].ticket THEN r ELSE outcome[u].result
      /\ Bookkeeping'
  <2>1. r \in {"ok", "err", "failed"}
    BY <1>4
  <2>2. /\ slots' = [slots EXCEPT ![h] = None] /\ UNCHANGED <<next_ticket, serving>>
        /\ outcome' = [outcome EXCEPT ![slots[h].ticket].result = r]
    BY <1>1
  <2>3. h \in Slots /\ slots[h] # None
    BY <1>3, <1>4
  <2> QED
    <3>1. Finished(h, r)
      BY <2>1, <2>2, <2>3, CompleteStep, ZenonT(30)
    <3> QED
      BY <3>1 DEF Finished
<1>7. OrderInv' /\ (r = "err" => failed_at # 0 /\ failed_at <= slots[h].ticket)
  <2>1. h = Head(writes) /\ r = RetireResult(slots[h]) /\ UNCHANGED failed_at
    BY <1>1 DEF h, r
  <2> QED
    BY <1>1, <1>2, <1>4, <1>6, <2>1, RetireOrder, SMT
<1>8. /\ writes \in Seq(Slots) /\ writes' \in Seq(Slots) /\ Len(writes) \in Nat
      /\ DOMAIN writes = 1..Len(writes) /\ DOMAIN writes' = 1..Len(writes) - 1
      /\ \A i \in DOMAIN writes' : writes'[i] = writes[i + 1] /\ i + 1 \in DOMAIN writes /\ 1 < i + 1
      /\ writes[1] = h /\ 1 \in DOMAIN writes
  BY <1>1, <1>2, SMT DEF QueueType, h
<1>9. TypeOK'
  <2>1. QueueType'
    BY <1>1, <1>2, <1>6, <1>8 DEF QueueType
  <2>2. IndexType'
    <3>1. DOMAIN index' \subseteq Keys /\ index' \in [DOMAIN index' -> Entry]
      BY <1>1, <1>2, <1>5 DEF IndexType, AppliedTyped
    <3> QED
      BY <1>1, <1>2, <1>5, <3>1, SMTT(30) DEF IndexType, Release
  <2>3. PollType'
    BY <1>1, <1>2, <1>5, SMTT(30) DEF PollType
  <2> QED
    BY <1>1, <1>6, <2>1, <2>2, <2>3, UnchangedTypes DEF Inv, TypeOK
<1>10. IndexKeyed'
  BY <1>1, <1>2, <1>5 DEF IndexKeyed, AppliedTyped
<1>11. WriteQueue'
  <2>1. \A i, j \in DOMAIN writes : i < j => slots[writes[i]].ticket < slots[writes[j]].ticket
    BY <1>2 DEF Inv, WriteQueue
  <2>2. \A i \in DOMAIN writes' : /\ writes'[i] # h /\ writes'[i] \in Slots
                                  /\ slots'[writes'[i]] = slots[writes'[i]]
    BY <1>5, <1>6, <1>8, <2>1, SMT
  <2>3. \A i \in DOMAIN writes' : Holds(writes[i], "write")'
    BY <1>2, <1>8, <2>2, SMT DEF Inv, WriteQueue, Holds
  <2>4. ASSUME NEW s \in Slots, Holds(s, "write")'
        PROVE  \E i \in DOMAIN writes' : writes'[i] = s
    <3>1. s # h /\ Holds(s, "write")
      BY <1>6, <2>4 DEF Holds
    <3>2. PICK j \in DOMAIN writes : writes[j] = s
      BY <1>2, <3>1 DEF Inv, WriteQueue
    <3>3. j - 1 \in DOMAIN writes' /\ (j - 1) + 1 = j
      BY <1>8, <3>1, <3>2, SMT
    <3> QED
      BY <1>8, <3>2, <3>3
  <2>5. \A i, j \in DOMAIN writes' :
          i < j => slots'[writes'[i]].ticket < slots'[writes'[j]].ticket
    BY <1>8, <2>1, <2>2, SMT
  <2> QED
    BY <2>3, <2>4, <2>5 DEF WriteQueue
<1>12. CompletedFirst'
  BY <1>3, <1>6 DEF Inv, CompletedFirst, Holds, WriteTickets
<1>13. FailureKnown'
  BY <1>1, <1>3, <1>4, <1>6, <1>7, SMT DEF Inv, FailureKnown, Holds, WriteTickets
<1>14. FlushSlot'
  BY <1>1, <1>2, <1>3, <1>6 DEF Inv, FlushSlot, Holds, QueueType
<1>15. EmptyReads'
  BY <1>1, <1>2, <1>3, <1>6, SMT DEF Inv, EmptyReads, Holds, QueueType
<1>16. IdleSlots'
  BY <1>1, <1>2, <1>3, <1>6 DEF Inv, IdleSlots, Holds
<1>17. Running'
  BY <1>1 DEF Inv, Running
<1> QED
  BY <1>6, <1>7, <1>9, <1>10, <1>11, <1>12, <1>13, <1>14, <1>15, <1>16, <1>17 DEF Inv, Bookkeeping

\* With no pending write and no failure, every accepted write is published.
LEMMA AllPublished ==
    ASSUME Inv, ~queue_failed, writes = <<>>, failed_at = 0
    PROVE  WriteTickets \subseteq Published
<1> SUFFICES ASSUME NEW u \in WriteTickets PROVE outcome[u].result = "ok"
  BY DEF Published
<1>1. u \in DOMAIN outcome /\ outcome[u].op = "write"
  BY DEF WriteTickets
<1>2. outcome[u].result \in Results
  <2>1. outcome[u] \in Issued
    BY <1>1, SMT DEF Inv, TypeOK, TicketType
  <2> QED
    BY <2>1 DEF Issued
<1>3. outcome[u].result \notin {"err", "failed"}
  BY <1>1 DEF Inv, FailureKnown
<1>4. outcome[u].result # "pending"
  <2> SUFFICES ASSUME outcome[u].result = "pending" PROVE FALSE
    OBVIOUS
  <2>1. PICK s \in InFlight : slots[s].ticket = u
    BY <1>1 DEF Inv, TicketAccounting
  <2>2. s \in Slots /\ Holds(s, "write")
    BY <1>1, <2>1 DEF Inv, TicketAccounting, Holds, InFlight, Free
  <2> QED
    BY <2>2, SMT DEF Inv, WriteQueue
<1> QED
  BY <1>2, <1>3, <1>4 DEF Results

\* Completing anything but a write leaves the order of writes alone.
LEMMA FinishOther ==
    ASSUME Inv, NEW s \in Slots, slots[s] # None, slots[s].op # "write",
           NEW r, Finished(s, r), UNCHANGED <<writes, queue_failed>>,
           slots[s].op = "flush" /\ r = "ok" => WriteTickets \subseteq Published
    PROVE  CompletedFirst' /\ WriteQueue' /\ OrderInv'
<1> DEFINE t == slots[s].ticket
<1>1. /\ t \in DOMAIN outcome /\ outcome[t].op = slots[s].op /\ DOMAIN outcome' = DOMAIN outcome
      /\ \A u \in DOMAIN outcome :
            /\ u \in Nat
            /\ outcome'[u].op = outcome[u].op
            /\ outcome'[u].result = IF u = t THEN r ELSE outcome[u].result
      /\ slots'[s] = None /\ \A y \in Slots : y # s => slots'[y] = slots[y]
  BY DEF Finished
<1> HIDE DEF t
<1>2. /\ WriteTickets' = WriteTickets
      /\ \A u \in WriteTickets : u \in DOMAIN outcome /\ outcome'[u].result = outcome[u].result
  BY <1>1 DEF WriteTickets
<1>3. Published' = Published
  BY <1>2 DEF Published
<1>4. CompletedFirst'
  BY <1>1, <1>2 DEF Inv, CompletedFirst, Holds
<1>5. WriteQueue'
  <2>1. \A i \in DOMAIN writes : writes[i] \in Slots
    BY SMT DEF Inv, TypeOK, QueueType
  <2>2. ~queue_failed => \A i \in DOMAIN writes : slots'[writes[i]] = slots[writes[i]]
    BY <1>1, <2>1, SMT DEF Inv, WriteQueue, Holds
  <2> QED
    BY <1>1, <2>2, SMT DEF Inv, WriteQueue, Holds
<1>6. PrefixPublication' /\ NotificationsInOrder'
  BY <1>2, <1>3 DEF Inv, OrderInv, PrefixPublication, NotificationsInOrder
<1>7. FlushCoversWrites'
  BY <1>1, <1>2, <1>3 DEF Inv, OrderInv, FlushCoversWrites
<1> QED
  BY <1>4, <1>5, <1>6, <1>7 DEF OrderInv

\* A flush that needs no sync: writes failed before it, or syncs are disabled (start_flush).
LEMMA FlushFinishInv ==
    ASSUME Inv, FlushFinish
    PROVE  Inv'
<1> USE DEF failVars, ownerVars, indexVars
<1> DEFINE r == IF failed_at # 0 THEN "err" ELSE "ok"
<1>1. /\ pc \in {"flush1", "flush2"} /\ flush # None /\ writes = <<>> /\ slots[flush].stage = "queued"
      /\ slots' = [slots EXCEPT ![flush] = None] /\ flush' = None
      /\ outcome' = [outcome EXCEPT ![slots[flush].ticket].result = r]
      /\ emitted' = TRUE /\ pc' = AfterFlush
      /\ UNCHANGED <<io, writes, ready_reads, next_ticket, serving, failVars, ownerVars, indexVars, work>>
  BY DEF FlushFinish, FlushRunnable, Emit
<1>2. ~queue_failed /\ QueueType /\ PollType
  BY <1>1 DEF Inv, Running, TypeOK
<1>3. flush \in Slots /\ Holds(flush, "flush") /\ io[flush] = "idle" /\ slots[flush] # None
  BY <1>1, <1>2 DEF Inv, FlushSlot, QueueType, Holds
<1> HIDE DEF r
<1>4. Finished(flush, r)
  <2>1. r \in {"ok", "err", "failed"}
    BY DEF r
  <2> QED
    BY <1>1, <1>3, <2>1, CompleteStep, ZenonT(30)
<1>5. CompletedFirst' /\ WriteQueue' /\ OrderInv'
  <2>1. r = "ok" => WriteTickets \subseteq Published
    BY <1>1, <1>2, AllPublished DEF r
  <2>2. flush \in Slots /\ slots[flush] # None /\ slots[flush].op # "write"
        /\ UNCHANGED <<writes, queue_failed>>
    BY <1>1, <1>3 DEF Holds
  <2> QED
    BY <1>4, <2>1, <2>2, FinishOther
<1>6. TypeOK'
  <2>1. QueueType'
    BY <1>1, <1>2, <1>4 DEF QueueType, Finished
  <2>2. PollType'
    BY <1>1, <1>2 DEF PollType, AfterFlush, Phases
  <2>3. TicketType'
    BY <1>4 DEF Finished
  <2> QED
    BY <1>1, <2>1, <2>2, <2>3, UnchangedTypes DEF Inv, TypeOK
<1>7. FailureKnown'
  BY <1>1, <1>3, <1>4, SMT DEF Inv, FailureKnown, Holds, WriteTickets, Finished, r
<1>8. EmptyReads'
  BY <1>1, <1>2, <1>3, <1>4, SMT DEF Inv, EmptyReads, Holds, QueueType, Finished
<1>9. IdleSlots'
  BY <1>1, <1>2, <1>3, <1>4 DEF Inv, IdleSlots, Holds, Finished
<1>10. FlushSlot'
  BY <1>1, <1>2, <1>3, <1>4 DEF Inv, FlushSlot, Holds, Finished
<1>11. Running' /\ IndexKeyed'
  BY <1>1, <1>2 DEF Inv, Running, IndexKeyed, AfterFlush
<1> QED
  BY <1>4, <1>5, <1>6, <1>7, <1>8, <1>9, <1>10, <1>11 DEF Inv, Bookkeeping, Finished

\* An empty read completed from ready_reads.
LEMMA CompleteEmptyReadInv ==
    ASSUME Inv, CompleteEmptyRead
    PROVE  Inv'
<1> DEFINE h == Head(ready_reads)
<1> USE DEF failVars, ownerVars, indexVars
<1>1. /\ pc = "reads" /\ ready_reads # <<>> /\ ready_reads' = Tail(ready_reads)
      /\ slots' = [slots EXCEPT ![h] = None]
      /\ outcome' = [outcome EXCEPT ![slots[h].ticket].result = "ok"] /\ emitted' = TRUE
      /\ work' = [operations |-> work.operations + 1, bytes |-> work.bytes + 0,
                  records |-> work.records + 0]
      /\ UNCHANGED <<io, writes, flush, next_ticket, serving, failVars, ownerVars, indexVars, pc>>
  BY DEF CompleteEmptyRead, Emit, Worked
<1>2. ~queue_failed /\ QueueType /\ PollType
  BY <1>1 DEF Inv, Running, TypeOK
<1>3. /\ ready_reads \in Seq(Slots) /\ Tail(ready_reads) \in Seq(Slots)
      /\ DOMAIN ready_reads = 1..Len(ready_reads) /\ Len(ready_reads) \in Nat
      /\ DOMAIN Tail(ready_reads) = 1..Len(ready_reads) - 1
      /\ \A i \in DOMAIN Tail(ready_reads) :
            Tail(ready_reads)[i] = ready_reads[i + 1] /\ i + 1 \in DOMAIN ready_reads /\ i + 1 # 1
      /\ ready_reads[1] = h /\ 1 \in DOMAIN ready_reads /\ h \in Slots
  BY <1>1, <1>2, SMT DEF QueueType
<1> HIDE DEF h
<1>4. h \in Slots /\ Holds(h, "empty") /\ io[h] = "idle" /\ slots[h] # None
  BY <1>2, <1>3, SMTT(30) DEF Inv, EmptyReads, IdleSlots, Holds
<1>5. Finished(h, "ok")
  <2>1. "ok" \in {"ok", "err", "failed"}
    OBVIOUS
  <2> QED
    BY <1>1, <1>4, <2>1, CompleteStep, ZenonT(30)
<1>6. CompletedFirst' /\ WriteQueue' /\ OrderInv'
  <2>1. /\ h \in Slots /\ slots[h] # None /\ slots[h].op # "write" /\ slots[h].op # "flush"
        /\ UNCHANGED <<writes, queue_failed>>
    BY <1>1, <1>4 DEF Holds
  <2> QED
    BY <1>5, <2>1, FinishOther
<1>7. TypeOK'
  <2>1. QueueType'
    BY <1>1, <1>2, <1>3, <1>5 DEF QueueType, Finished
  <2>2. PollType'
    BY <1>1, <1>2, SMT DEF PollType
  <2>3. TicketType'
    BY <1>5 DEF Finished
  <2> QED
    BY <1>1, <2>1, <2>2, <2>3, UnchangedTypes DEF Inv, TypeOK
<1>8. FailureKnown'
  BY <1>1, <1>4, <1>5, SMT DEF Inv, FailureKnown, Holds, WriteTickets, Finished
<1>9. EmptyReads'
  <2>1. \A i \in DOMAIN ready_reads' : ready_reads'[i] # h /\ ready_reads'[i] \in Slots
    BY <1>1, <1>2, <1>3, SMT DEF Inv, EmptyReads
  <2> QED
    BY <1>1, <1>2, <1>3, <1>5, <2>1, SMT DEF Inv, EmptyReads, Holds, Finished
<1>10. IdleSlots'
  BY <1>1, <1>4, <1>5 DEF Inv, IdleSlots, Holds, Finished
<1>11. FlushSlot'
  BY <1>1, <1>2, <1>4, <1>5 DEF Inv, FlushSlot, Holds, Finished, QueueType
<1>12. Running' /\ IndexKeyed'
  BY <1>1, <1>2 DEF Inv, Running, IndexKeyed
<1> QED
  BY <1>5, <1>6, <1>7, <1>8, <1>9, <1>10, <1>11, <1>12 DEF Inv, Bookkeeping, Finished

\* A completed request belongs to an operation that still holds its slot.
LEMMA PopFacts ==
    ASSUME Inv, NEW s \in Slots, Pop(s)
    PROVE  /\ ~queue_failed /\ pc = "reap" /\ slots[s] # None /\ slots[s] \in Pending
           /\ io[s] \in {"ok", "err"} /\ io[s] # "idle"
<1>1. pc = "reap" /\ io[s] \in {"ok", "err"} /\ io[s] # "idle"
  BY DEF Pop
<1>2. ~queue_failed
  BY <1>1 DEF Inv, Running
<1>3. slots[s] # None
  BY <1>1, <1>2 DEF Inv, IdleSlots
<1> QED
  BY <1>1, <1>2, <1>3 DEF Inv, TypeOK, QueueType

\* The last completion of a read (complete).
LEMMA ReapReadInv ==
    ASSUME Inv, NEW s \in Slots, NEW r \in {"ok", "err"}, ReapRead(s, r)
    PROVE  Inv'
<1> USE DEF failVars, ownerVars, indexVars
<1>1. /\ slots[s].op \in {"read", "verified"}
      /\ io' = [io EXCEPT ![s] = "idle"] /\ slots' = [slots EXCEPT ![s] = None]
      /\ outcome' = [outcome EXCEPT ![slots[s].ticket].result = r] /\ emitted' = TRUE
      /\ work' = [operations |-> work.operations + 1, bytes |-> work.bytes + 1,
                  records |-> work.records + 0]
      /\ UNCHANGED <<writes, ready_reads, flush, next_ticket, serving, failVars, ownerVars, indexVars, pc>>
  BY DEF ReapRead, Emit, Worked
<1>2. ~queue_failed /\ pc = "reap" /\ slots[s] # None /\ QueueType /\ PollType
  BY PopFacts DEF ReapRead, Inv, TypeOK
<1>3. Finished(s, r)
  <2>1. r \in {"ok", "err", "failed"}
    OBVIOUS
  <2> QED
    BY <1>1, <1>2, <2>1, CompleteStep, ZenonT(30)
<1>4. CompletedFirst' /\ WriteQueue' /\ OrderInv'
  <2>1. slots[s].op # "write" /\ slots[s].op # "flush" /\ UNCHANGED <<writes, queue_failed>>
    BY <1>1
  <2> QED
    BY <1>2, <1>3, <2>1, FinishOther
<1>5. TypeOK'
  <2>1. QueueType'
    BY <1>1, <1>2, <1>3 DEF QueueType, Finished, Tokens
  <2>2. PollType'
    BY <1>1, <1>2, SMT DEF PollType
  <2>3. TicketType'
    BY <1>3 DEF Finished
  <2> QED
    BY <1>1, <2>1, <2>2, <2>3, UnchangedTypes DEF Inv, TypeOK
<1>6. FailureKnown'
  BY <1>1, <1>3, SMT DEF Inv, FailureKnown, Holds, WriteTickets, Finished
<1>7. EmptyReads'
  BY <1>1, <1>2, <1>3, SMT DEF Inv, EmptyReads, Holds, Finished, QueueType
<1>8. \A y \in Slots : io'[y] = IF y = s THEN "idle" ELSE io[y]
  BY <1>1, <1>2 DEF QueueType, Tokens
<1>9. IdleSlots'
  BY <1>1, <1>3, <1>8, SMT DEF Inv, IdleSlots, Holds, Finished
<1>10. FlushSlot'
  BY <1>1, <1>2, <1>3, <1>8, SMT DEF Inv, FlushSlot, Holds, Finished, QueueType
<1>11. Running' /\ IndexKeyed'
  BY <1>1, <1>2, SMTT(30) DEF Inv, Running, IndexKeyed
<1> QED
  BY <1>3, <1>4, <1>5, <1>6, <1>7, <1>9, <1>10, <1>11 DEF Inv, Bookkeeping, Finished

\* The completion of a sync: the flush ends, and its error becomes failed_at (complete).
LEMMA ReapFlushInv ==
    ASSUME Inv, NEW s \in Slots, ReapFlush(s)
    PROVE  Inv'
<1> USE DEF failVars, ownerVars, indexVars
<1>1. /\ slots[s].op = "flush" /\ Pop(s)
      /\ io' = [io EXCEPT ![s] = "idle"] /\ slots' = [slots EXCEPT ![s] = None] /\ flush' = None
      /\ failed_at' = (IF io[s] = "err" THEN slots[s].ticket ELSE failed_at)
      /\ outcome' = [outcome EXCEPT ![slots[s].ticket].result = io[s]] /\ emitted' = TRUE
      /\ work' = [operations |-> work.operations + 1, bytes |-> work.bytes + 0,
                  records |-> work.records + 0]
      /\ UNCHANGED <<writes, ready_reads, next_ticket, serving, queue_failed, failed_seen,
                     ownerVars, indexVars, pc>>
  BY DEF ReapFlush, Emit, Worked
<1>2. /\ ~queue_failed /\ pc = "reap" /\ slots[s] # None /\ QueueType /\ PollType /\ FailType
      /\ io[s] \in {"ok", "err"} /\ io[s] # "idle" /\ slots[s] \in Pending
  BY <1>1, PopFacts DEF Inv, TypeOK
<1>3. flush = s /\ writes = <<>> /\ failed_at = 0
  BY <1>1, <1>2, PipelineAssumption, SMTT(30) DEF Inv, FlushSlot, Holds
<1>4. Finished(s, io[s])
  <2>1. io[s] \in {"ok", "err", "failed"}
    BY <1>2
  <2> QED
    BY <1>1, <1>2, <2>1, CompleteStep, ZenonT(30)
<1>5. CompletedFirst' /\ WriteQueue' /\ OrderInv'
  <2>1. WriteTickets \subseteq Published
    BY <1>2, <1>3, AllPublished
  <2>2. slots[s].op # "write" /\ UNCHANGED <<writes, queue_failed>>
    BY <1>1
  <2> QED
    BY <1>2, <1>4, <2>1, <2>2, FinishOther
<1>6. slots[s].ticket \in Nat /\ slots[s].ticket # 0 /\ failed_at' \in Nat
  <2>1. slots[s].ticket \in DOMAIN outcome /\ DOMAIN outcome = 1..Len(outcome)
    BY <1>4, SMT DEF Finished, Inv, TypeOK, TicketType
  <2> QED
    BY <1>1, <1>3, <2>1, SMT
<1>7. TypeOK'
  <2>1. QueueType'
    BY <1>1, <1>2, <1>4 DEF QueueType, Finished, Tokens
  <2>2. PollType'
    BY <1>1, <1>2, SMT DEF PollType
  <2>3. TicketType'
    BY <1>4 DEF Finished
  <2>4. FailType'
    BY <1>1, <1>2, <1>6 DEF FailType
  <2> QED
    BY <1>1, <2>1, <2>2, <2>3, <2>4, UnchangedTypes DEF Inv, TypeOK
<1>8. FailureKnown'
  <2>1. \A u \in DOMAIN outcome :
          outcome[u].result # "failed" /\ (outcome[u].op = "write" => outcome[u].result # "err")
    BY <1>2, <1>3 DEF Inv, FailureKnown, WriteTickets
  <2>2. \A y \in Slots : Holds(y, "write") => slots[y].stage # "err"
    BY <1>3 DEF Inv, FailureKnown
  <2>3. \A u \in DOMAIN outcome : outcome[u].op = "flush" => outcome[u].result # "err"
    BY <1>3 DEF Inv, FailureKnown
  <2> QED
    BY <1>1, <1>2, <1>4, <1>6, <2>1, <2>2, <2>3, SMT DEF FailureKnown, Holds, WriteTickets, Finished
<1>9. EmptyReads'
  BY <1>1, <1>2, <1>4, SMT DEF Inv, EmptyReads, Holds, Finished, QueueType
<1>10. \A y \in Slots : io'[y] = IF y = s THEN "idle" ELSE io[y]
  BY <1>1, <1>2 DEF QueueType, Tokens
<1>11. IdleSlots'
  BY <1>1, <1>4, <1>10, SMT DEF Inv, IdleSlots, Holds, Finished
<1>12. FlushSlot'
  BY <1>1, <1>2, <1>3, <1>4 DEF Inv, FlushSlot, Holds, Finished
<1>13. Running' /\ IndexKeyed'
  BY <1>1, <1>2 DEF Inv, Running, IndexKeyed
<1> QED
  BY <1>4, <1>5, <1>7, <1>8, <1>9, <1>11, <1>12, <1>13, ZenonT(30) DEF Inv, Bookkeeping, Finished

(***************************************************************************)
(* Changes of stage                                                        *)
(***************************************************************************)
\* The completion of a write is recorded in its slot, out of order (complete).
LEMMA ReapWriteInv ==
    ASSUME Inv, NEW s \in Slots, ReapWrite(s)
    PROVE  Inv'
<1> USE DEF ticketVars, ownerVars, indexVars
<1>1. /\ slots[s].op = "write" /\ Pop(s)
      /\ io' = [io EXCEPT ![s] = "idle"] /\ slots' = [slots EXCEPT ![s].stage = io[s]]
      /\ failed_at' = (IF io[s] = "err" /\ (failed_at = 0 \/ slots[s].ticket < failed_at)
                       THEN slots[s].ticket ELSE failed_at)
      /\ work' = [operations |-> work.operations + 1, bytes |-> work.bytes + 0,
                  records |-> work.records + 0]
      /\ UNCHANGED <<writes, ready_reads, flush, ticketVars, queue_failed, failed_seen,
                     ownerVars, indexVars, pc, emitted>>
  BY DEF ReapWrite, Worked
<1>2. /\ ~queue_failed /\ pc = "reap" /\ slots[s] # None /\ QueueType /\ PollType /\ FailType
      /\ io[s] \in {"ok", "err"} /\ io[s] # "idle" /\ slots[s] \in Pending /\ Holds(s, "write")
  BY <1>1, PopFacts DEF Inv, TypeOK, Holds
<1>3. Restaged(s, io[s])
  <2>1. io[s] \in Stages /\ io[s] \in {"io", "ok", "err"}
    BY <1>2 DEF Stages
  <2>2. slots' = [slots EXCEPT ![s].stage = io[s]] /\ UNCHANGED <<next_ticket, serving, outcome>>
    BY <1>1
  <2> QED
    BY <1>2, <2>1, <2>2, StageStep, ZenonT(30)
<1>4. slots[s].ticket \in Nat /\ slots[s].ticket # 0 /\ failed_at \in Nat
  <2>1. slots[s].ticket \in DOMAIN outcome /\ DOMAIN outcome = 1..Len(outcome)
    BY <1>2, SMT DEF Inv, TicketAccounting, InFlight, Free, TypeOK, TicketType
  <2> QED
    BY <1>2, <2>1, SMT DEF FailType
<1>5. TypeOK'
  <2>1. QueueType'
    BY <1>1, <1>2, <1>3 DEF QueueType, Restaged, Tokens
  <2>2. PollType'
    BY <1>1, <1>2, SMT DEF PollType
  <2>3. FailType'
    BY <1>1, <1>2, <1>4 DEF FailType
  <2> QED
    BY <1>1, <2>1, <2>2, <2>3, UnchangedTypes DEF Inv, TypeOK
<1>6. FailureKnown'
  <2>1. /\ io[s] = "err" => failed_at' # 0 /\ failed_at' <= slots[s].ticket
        /\ failed_at # 0 => failed_at' # 0 /\ failed_at' <= failed_at
        /\ failed_at' \in Nat
    BY <1>1, <1>4, SMTT(30)
  <2>2. \A y \in Slots : slots[y] # None => slots[y].ticket \in Nat
    BY <1>2 DEF QueueType, Pending
  <2>3. ASSUME NEW y \in Slots, Holds(y, "write")', slots'[y].stage = "err"
        PROVE  failed_at' # 0 /\ failed_at' <= slots'[y].ticket
    <3>1. Holds(y, "write") /\ slots'[y].ticket = slots[y].ticket
      BY <1>3, <2>3 DEF Restaged, Holds
    <3>2. CASE y = s
      BY <1>3, <2>1, <2>3, <3>1, <3>2 DEF Restaged, Holds
    <3>3. CASE y # s
      <4>1. failed_at # 0 /\ failed_at <= slots[y].ticket /\ slots[y].ticket \in Nat
        BY <1>3, <2>2, <2>3, <3>1, <3>3 DEF Restaged, Holds, Inv, FailureKnown
      <4> QED
        BY <1>4, <2>1, <3>1, <4>1, SMTT(30)
    <3> QED
      BY <3>2, <3>3
  <2>4. ASSUME NEW u \in WriteTickets, outcome[u].result = "err"
        PROVE  failed_at' # 0 /\ failed_at' <= u
    <3>1. u \in Nat /\ failed_at # 0 /\ failed_at <= u
      BY <2>4, SMT DEF Inv, FailureKnown, WriteTickets, TypeOK, TicketType
    <3> QED
      BY <1>4, <2>1, <3>1, SMT
  <2> QED
    BY <1>1, <2>1, <2>3, <2>4 DEF Inv, FailureKnown, WriteTickets
<1>7. WriteQueue'
  BY <1>1, <1>2, <1>3, SMT DEF Inv, WriteQueue, Holds, Restaged, QueueType
<1>8. EmptyReads'
  BY <1>1, <1>2, <1>3, SMT DEF Inv, EmptyReads, Holds, Restaged, QueueType
<1>9. \A y \in Slots : io'[y] = IF y = s THEN "idle" ELSE io[y]
  BY <1>1, <1>2 DEF QueueType, Tokens
<1>10. IdleSlots'
  BY <1>1, <1>2, <1>3, <1>9, SMT DEF Inv, IdleSlots, Holds, Restaged
<1>11. writes # <<>>
  BY <1>2, SMT DEF Inv, WriteQueue
<1>12. FlushSlot'
  BY <1>1, <1>2, <1>3, <1>9, <1>11, SMT DEF Inv, FlushSlot, Holds, Restaged, QueueType
<1>13. Running' /\ IndexKeyed'
  BY <1>1, <1>2, SMTT(30) DEF Inv, Running, IndexKeyed
<1> QED
  BY <1>3, <1>5, <1>6, <1>7, <1>8, <1>10, <1>12, <1>13 DEF Inv, Bookkeeping, Restaged

\* The stages of reads and flushes move without touching any write.
LEMMA OtherStage ==
    ASSUME Inv, NEW s \in Slots, slots[s] # None, slots[s].op # "write", slots[s].op # "empty",
           NEW x, Restaged(s, x), UNCHANGED <<writes, ready_reads, queue_failed, failed_at, outcome>>,
           \A y \in Slots : y # s => io'[y] = io[y]
    PROVE  WriteQueue' /\ EmptyReads' /\ FailureKnown' /\ IdleSlots'
<1>1. QueueType
  BY DEF Inv, TypeOK
<1>2. WriteQueue'
  BY <1>1, SMT DEF Inv, WriteQueue, Holds, Restaged, QueueType
<1>3. EmptyReads'
  BY <1>1, SMT DEF Inv, EmptyReads, Holds, Restaged, QueueType
<1>4. FailureKnown'
  BY DEF Inv, FailureKnown, Holds, Restaged, WriteTickets
<1>5. IdleSlots'
  BY SMTT(30) DEF Inv, IdleSlots, Holds, Restaged
<1> QED
  BY <1>2, <1>3, <1>4, <1>5

\* A verified read goes from its metadata request to its value request (complete).
LEMMA ReapMetadataInv ==
    ASSUME Inv, NEW s \in Slots, ReapMetadata(s)
    PROVE  Inv'
<1> USE DEF ticketVars, failVars, ownerVars, indexVars
<1>1. /\ slots[s].op = "verified" /\ Pop(s)
      /\ io' = [io EXCEPT ![s] = "busy"] /\ slots' = [slots EXCEPT ![s].stage = "value"]
      /\ work' = [operations |-> work.operations + 1, bytes |-> work.bytes + 1,
                  records |-> work.records + 0]
      /\ UNCHANGED <<writes, ready_reads, flush, ticketVars, failVars, ownerVars, indexVars, pc, emitted>>
  BY DEF ReapMetadata, Worked, Submit
<1>2. ~queue_failed /\ pc = "reap" /\ slots[s] # None /\ QueueType /\ PollType
  BY <1>1, PopFacts DEF Inv, TypeOK
<1>3. Restaged(s, "value")
  <2>1. "value" \in Stages /\ ~Holds(s, "write")
    BY <1>1 DEF Stages, Holds
  <2>2. slots' = [slots EXCEPT ![s].stage = "value"] /\ UNCHANGED <<next_ticket, serving, outcome>>
    BY <1>1
  <2> QED
    BY <1>2, <2>1, <2>2, StageStep, ZenonT(30)
<1>4. \A y \in Slots : io'[y] = IF y = s THEN "busy" ELSE io[y]
  BY <1>1, <1>2 DEF QueueType, Tokens
<1>5. WriteQueue' /\ EmptyReads' /\ FailureKnown' /\ IdleSlots'
  <2>1. /\ slots[s].op # "write" /\ slots[s].op # "empty"
        /\ UNCHANGED <<writes, ready_reads, queue_failed, failed_at, outcome>>
        /\ \A y \in Slots : y # s => io'[y] = io[y]
    BY <1>1, <1>4
  <2> QED
    BY <1>2, <1>3, <2>1, OtherStage, ZenonT(30)
<1>6. TypeOK'
  <2>1. QueueType'
    BY <1>1, <1>2, <1>3 DEF QueueType, Restaged, Tokens
  <2>2. PollType'
    BY <1>1, <1>2, SMT DEF PollType
  <2> QED
    BY <1>1, <2>1, <2>2, UnchangedTypes DEF Inv, TypeOK
<1>7. FlushSlot'
  BY <1>1, <1>2, <1>3, <1>4, SMT DEF Inv, FlushSlot, Holds, Restaged, QueueType
<1>8. Running' /\ IndexKeyed'
  BY <1>1, <1>2, SMTT(30) DEF Inv, Running, IndexKeyed
<1> QED
  BY <1>3, <1>5, <1>6, <1>7, <1>8, ZenonT(30) DEF Inv, Bookkeeping, Restaged

\* A flush submits its sync once the writes have retired (start_flush).
LEMMA FlushSubmitInv ==
    ASSUME Inv, FlushSubmit
    PROVE  Inv'
<1> USE DEF ticketVars, failVars, ownerVars, indexVars
<1>1. /\ pc \in {"flush1", "flush2"} /\ flush # None /\ writes = <<>> /\ slots[flush].stage = "queued"
      /\ failed_at = 0 /\ io' = [io EXCEPT ![flush] = "busy"]
      /\ slots' = [slots EXCEPT ![flush].stage = "submitted"]
      /\ pc' = AfterFlush
      /\ UNCHANGED <<writes, ready_reads, flush, ticketVars, failVars, ownerVars, indexVars, work, emitted>>
  BY DEF FlushSubmit, FlushRunnable, Submit, Goto
<1>2. ~queue_failed /\ QueueType /\ PollType
  BY <1>1 DEF Inv, Running, TypeOK
<1>3. flush \in Slots /\ Holds(flush, "flush") /\ slots[flush] # None
  BY <1>1, <1>2 DEF Inv, FlushSlot, QueueType, Holds
<1>4. Restaged(flush, "submitted")
  <2>1. "submitted" \in Stages /\ ~Holds(flush, "write")
    BY <1>3 DEF Stages, Holds
  <2>2. /\ slots' = [slots EXCEPT ![flush].stage = "submitted"]
        /\ UNCHANGED <<next_ticket, serving, outcome>>
    BY <1>1
  <2> QED
    BY <1>3, <2>1, <2>2, StageStep, ZenonT(30)
<1>5. \A y \in Slots : io'[y] = IF y = flush THEN "busy" ELSE io[y]
  BY <1>1, <1>2, <1>3 DEF QueueType, Tokens
<1>6. WriteQueue' /\ EmptyReads' /\ FailureKnown' /\ IdleSlots'
  <2>1. /\ slots[flush].op # "write" /\ slots[flush].op # "empty"
        /\ UNCHANGED <<writes, ready_reads, queue_failed, failed_at, outcome>>
        /\ \A y \in Slots : y # flush => io'[y] = io[y]
    BY <1>1, <1>3, <1>5 DEF Holds
  <2> QED
    BY <1>3, <1>4, <2>1, OtherStage
<1>7. TypeOK'
  <2>1. QueueType'
    BY <1>1, <1>2, <1>3, <1>4 DEF QueueType, Restaged, Tokens
  <2>2. PollType'
    BY <1>1, <1>2 DEF PollType, AfterFlush, Phases
  <2> QED
    BY <1>1, <2>1, <2>2, UnchangedTypes DEF Inv, TypeOK
<1>8. FlushSlot'
  <2>1. \A y \in Slots : ~Holds(y, "write")
    BY <1>1, <1>2, SMT DEF Inv, WriteQueue
  <2> QED
    BY <1>1, <1>2, <1>3, <1>4, <2>1, SMT DEF Inv, FlushSlot, Holds, Restaged
<1>9. Running' /\ IndexKeyed'
  BY <1>1, <1>2 DEF Inv, Running, IndexKeyed, AfterFlush
<1> QED
  BY <1>4, <1>6, <1>7, <1>8, <1>9, ZenonT(30) DEF Inv, Bookkeeping, Restaged

(***************************************************************************)
(* Queue failure                                                           *)
(***************************************************************************)
\* The queue fails: poll goes on to retire what is pending (poll, retire_failed).
LEMMA QueueErrorInv ==
    ASSUME Inv, QueueError
    PROVE  Inv'
<1> USE DEF queueVars, ticketVars, ownerVars, indexVars
<1>1. /\ queue_failed' = TRUE /\ pc' = "failing" /\ UNCHANGED <<emitted, work>>
      /\ UNCHANGED <<queueVars, ticketVars, failed_at, failed_seen, ownerVars, indexVars>>
  BY DEF QueueError, Goto
<1>2. TypeOK'
  <2>1. PollType'
    BY <1>1 DEF Inv, TypeOK, PollType, Phases
  <2>2. FailType'
    BY <1>1, SMTT(30) DEF Inv, TypeOK, FailType
  <2> QED
    BY <1>1, <2>1, <2>2, UnchangedTypes DEF Inv, TypeOK
<1>3. IndexKeyed' /\ TicketAccounting' /\ EntriesOwed'
  BY <1>1, SMTT(30) DEF Inv, IndexKeyed, TicketAccounting, EntriesOwed, InFlight, Free
<1>4. WriteQueue' /\ EmptyReads' /\ IdleSlots' /\ Running'
  BY <1>1, SMTT(30) DEF WriteQueue, EmptyReads, IdleSlots, Running
<1>5. WriteStages' /\ CompletedFirst' /\ FailureKnown' /\ Unserved'
  BY <1>1, SMTT(30) DEF Inv, WriteStages, CompletedFirst, FailureKnown, Unserved, Holds, WriteTickets
<1>6. FlushSlot'
  BY <1>1, ZenonT(30) DEF Inv, FlushSlot, Holds
<1>7. OrderInv'
  BY <1>1
     DEF Inv, OrderInv, PrefixPublication, FlushCoversWrites, NotificationsInOrder, Published,
     WriteTickets
<1> QED
  BY <1>2, <1>3, <1>4, <1>5, <1>6, <1>7 DEF Inv

\* One iteration of retire_failed.
LEMMA RetireFailedInv ==
    ASSUME Inv, NEW s \in Slots, RetireFailed(s)
    PROVE  Inv'
<1> USE DEF ownerVars
<1>1. /\ pc = "failing" /\ failed_seen' = failed_seen \cup {s}
      /\ work' = [operations |-> work.operations + 1, bytes |-> work.bytes + 0,
                  records |-> work.records + 0]
      /\ UNCHANGED <<io, writes, ready_reads, flush, next_ticket, serving, failed_at,
                     queue_failed, ownerVars, index, restored, pc>>
      /\ \/ slots[s] = None /\ UNCHANGED <<slots, pending_entries, pending_new, outcome, emitted>>
         \/ /\ slots[s] # None /\ slots' = [slots EXCEPT ![s] = None]
            /\ Release(slots[s])
            /\ outcome' = [outcome EXCEPT ![slots[s].ticket].result = "failed"]
            /\ emitted' = TRUE
  BY DEF RetireFailed, Worked, Emit
<1>2. queue_failed /\ QueueType /\ FailType /\ IndexType /\ PollType
  BY <1>1 DEF Inv, Running, TypeOK
<1>3. FailType' /\ Running' /\ IndexKeyed'
  BY <1>1, <1>2 DEF FailType, Inv, Running, IndexKeyed
<1>4. CASE slots[s] = None
  <2>1. UNCHANGED <<slots, pending_entries, pending_new, outcome, emitted>>
    BY <1>1, <1>4
  <2>2. PollType'
    BY <1>1, <1>2, <2>1, SMT DEF PollType
  <2>3. TypeOK'
    BY <1>1, <1>3, <2>1, <2>2, UnchangedTypes, SMTT(30)
       DEF Inv, TypeOK, queueVars, ticketVars, indexVars
  <2> QED
    BY <1>1, <1>3, <2>1, <2>3, QuietStep DEF ticketVars
<1>5. CASE slots[s] # None
  <2>1. /\ slots' = [slots EXCEPT ![s] = None] /\ emitted' = TRUE
        /\ Release(slots[s])
        /\ outcome' = [outcome EXCEPT ![slots[s].ticket].result = "failed"]
    BY <1>1, <1>5, SMTT(30)
  <2>2. Finished(s, "failed")
    <3>1. "failed" \in {"ok", "err", "failed"} /\ UNCHANGED <<next_ticket, serving>>
      BY <1>1
    <3> QED
      BY <1>5, <2>1, <3>1, CompleteStep, ZenonT(30)
  <2>3. slots[s] \in Pending /\ Len(slots[s].entries) \in Nat /\ slots[s].reserved \in Nat
    <3>1. slots[s] \in Pending
      BY <1>2, <1>5 DEF QueueType
    <3> QED
      BY <3>1, SMT DEF Pending
  <2>4. TypeOK'
    <3>1. QueueType' /\ TicketType'
      BY <1>1, <1>2, <2>2 DEF QueueType, Finished
    <3>2. IndexType'
      BY <1>1, <1>2, <2>1, <2>3, SMT DEF IndexType, Release
    <3>3. PollType'
      BY <1>1, <1>2, <2>1, SMT DEF PollType
    <3> QED
      BY <1>1, <1>3, <3>1, <3>2, <3>3, UnchangedTypes DEF Inv, TypeOK
  <2>5. WriteQueue' /\ EmptyReads' /\ IdleSlots'
    BY <1>1, <1>2 DEF WriteQueue, EmptyReads, IdleSlots
  <2>6. FlushSlot'
    BY <1>1, <1>2, <2>2, SMTT(30) DEF Inv, FlushSlot, Holds, Finished
  <2>7. CompletedFirst'
    BY <2>2 DEF Inv, CompletedFirst, Holds, WriteTickets, Finished
  <2>8. FailureKnown'
    BY <1>1, <1>2, <2>2, SMT DEF Inv, FailureKnown, Holds, WriteTickets, Finished
  <2>9. WriteTickets' = WriteTickets /\ Published' = Published
    BY <2>2, SMT DEF WriteTickets, Published, Finished
  <2>10. OrderInv'
    <3>1. PrefixPublication'
      BY <2>9, SMTT(30) DEF Inv, OrderInv, PrefixPublication
    <3>2. FlushCoversWrites'
      BY <2>2, <2>9, SMTT(30) DEF Inv, OrderInv, FlushCoversWrites, Finished
    <3>3. NotificationsInOrder'
      BY <2>2, <2>9 DEF Inv, OrderInv, NotificationsInOrder, WriteTickets, Finished
    <3> QED
      BY <3>1, <3>2, <3>3 DEF OrderInv
  <2> QED
    BY <1>3, <2>2, <2>4, <2>5, <2>6, <2>7, <2>8, <2>10, ZenonT(30) DEF Inv, Bookkeeping, Finished
<1> QED
  BY <1>4, <1>5

\* retire_failed ends when its budget or the pending operations are exhausted.
LEMMA RetireFailedEndInv ==
    ASSUME Inv, RetireFailedEnd
    PROVE  Inv'
<1> USE DEF ticketVars, failVars, ownerVars, indexVars
<1>1. /\ ready_reads' = <<>> /\ writes' = <<>> /\ flush' = None /\ pc = "failing" /\ pc' = "idle"
      /\ emitted' = FALSE /\ work' = NoWork
      /\ UNCHANGED <<slots, io, ticketVars, failVars, ownerVars, indexVars>>
  BY DEF RetireFailedEnd, Return
<1>2. queue_failed
  BY <1>1 DEF Inv, Running
<1>3. TypeOK'
  <2>1. QueueType'
    BY <1>1, SMT DEF Inv, TypeOK, QueueType
  <2>2. PollType'
    BY <1>1, ZenonT(30) DEF PollType, Phases, NoWork
  <2> QED
    BY <1>1, <2>1, <2>2, UnchangedTypes DEF Inv, TypeOK
<1>4. IndexKeyed' /\ TicketAccounting' /\ EntriesOwed'
  BY <1>1, ZenonT(30) DEF Inv, IndexKeyed, TicketAccounting, EntriesOwed, InFlight, Free
<1>5. WriteQueue' /\ EmptyReads' /\ IdleSlots' /\ Running'
  BY <1>1, <1>2, SMTT(30) DEF WriteQueue, EmptyReads, IdleSlots, Running
<1>6. WriteStages' /\ CompletedFirst' /\ FailureKnown' /\ Unserved'
  BY <1>1 DEF Inv, WriteStages, CompletedFirst, FailureKnown, Unserved, Holds, WriteTickets
<1>7. FlushSlot'
  BY <1>1, <1>2, SMTT(30) DEF FlushSlot
<1>8. OrderInv'
  BY <1>1
     DEF Inv, OrderInv, PrefixPublication, FlushCoversWrites, NotificationsInOrder, Published,
     WriteTickets
<1> QED
  BY <1>3, <1>4, <1>5, <1>6, <1>7, <1>8 DEF Inv

(***************************************************************************)
(* Facts about naturals, proved by least counterexample.                   *)
(***************************************************************************)
\* Every non-empty set of naturals has a least element.
LEMMA LeastNatural ==
    ASSUME NEW T, T \subseteq Nat, T # {}
    PROVE  \E x \in T : \A y \in T : x <= y
<1>1. IsWellFoundedOn(OpToRel(<, Nat), Nat)
  BY NatLessThanWellFounded
<1>2. PICK x \in T : \A y \in T : ~(<<y, x>> \in OpToRel(<, Nat))
  BY <1>1, WFMin
<1>3. \A y \in T : ~(y < x)
  BY <1>2, ZenonT(30) DEF OpToRel
<1> QED
  BY <1>3, SMT

\* A sequence of naturals is bounded (by least counterexample on its prefixes).
LEMMA SequenceBounded ==
    ASSUME NEW n \in Nat, NEW f, \A i \in 1..n : f[i] \in Nat
    PROVE  \E m \in Nat : \A i \in 1..n : f[i] <= m
<1> DEFINE Bounded(p) == \E m \in Nat : \A i \in 1..p : f[i] <= m
           C == {p \in 0..n : ~Bounded(p)}
<1>1. SUFFICES ASSUME C # {} PROVE FALSE
  <2>1. n \in 0..n
    BY SMT
  <2> QED
    BY <2>1, <1>1
<1>2. PICK x \in C : \A y \in C : x <= y
  <2>1. C \subseteq Nat
    BY SMT
  <2> HIDE DEF C
  <2> QED
    BY <1>1, <2>1, LeastNatural, ZenonT(30)
<1>3. x \in 0..n
  OBVIOUS
<1>4. x # 0
  <2>1. Bounded(0)
    BY SMT
  <2> QED
    BY <2>1, <1>2
<1>5. x - 1 \in 0..n /\ x - 1 \notin C
  <2> HIDE DEF C
  <2> QED
    BY <1>2, <1>3, <1>4, SMT
<1>6. Bounded(x - 1)
  BY <1>5
<1>7. PICK m \in Nat : \A i \in 1..(x - 1) : f[i] <= m
  BY <1>6
<1>8. f[x] \in Nat
  BY <1>3, <1>4, SMT
<1>9. \A i \in 1..x : f[i] <= m + f[x]
  <2> TAKE i \in 1..x
  <2>1. f[i] \in Nat
    BY <1>3, SMT
  <2>2. CASE i = x
    BY <2>2, <1>8, SMT
  <2>3. CASE i # x
    <3>1. i \in 1..(x - 1)
      BY <2>3, <1>3, SMT
    <3> QED
      BY <3>1, <1>7, <1>8, <2>1, SMT
  <2> QED
    BY <2>2, <2>3
<1>10. Bounded(x)
  <2>1. m + f[x] \in Nat
    BY <1>8, SMT
  <2> QED
    BY <2>1, <1>9
<1> QED
  BY <1>10, <1>2

(***************************************************************************)
(* The index operators: Newest is well defined on every frame, and Apply   *)
(* keeps, for every key, an entry of the greatest LSN.                     *)
(***************************************************************************)
\* Newest names an entry of the key, of the greatest LSN in the frame.
LEMMA NewestProperties ==
    ASSUME NEW S, NEW entries \in Seq(S), \A i \in DOMAIN entries : entries[i].lsn \in Nat,
           NEW k \in KeysOf(entries)
    PROVE  /\ Newest(entries, k) \in DOMAIN entries
           /\ entries[Newest(entries, k)].key = k
           /\ \A j \in DOMAIN entries :
                 entries[j].key = k => entries[j].lsn <= entries[Newest(entries, k)].lsn
<1> DEFINE n == Len(entries)
           D == {i \in DOMAIN entries : entries[i].key = k}
           U == {m \in Nat : \A i \in D : entries[i].lsn <= m}
<1>1. n \in Nat /\ DOMAIN entries = 1..n
  BY SMT
<1>2. D # {}
  BY DEF KeysOf
<1>3. U # {}
  <2> DEFINE f == [i \in 1..n |-> entries[i].lsn]
  <2>1. \A i \in 1..n : f[i] \in Nat
    BY <1>1
  <2>2. PICK m \in Nat : \A i \in 1..n : f[i] <= m
    BY <1>1, <2>1, SequenceBounded, ZenonT(30)
  <2> QED
    BY <1>1, <2>2, ZenonT(30)
<1>4. PICK top \in U : \A m \in U : top <= m
  <2>1. U \subseteq Nat
    OBVIOUS
  <2> QED
    BY <1>3, <2>1, LeastNatural, ZenonT(30)
<1>5. \E i \in D : entries[i].lsn = top
  <2>1. SUFFICES ASSUME \A i \in D : entries[i].lsn # top PROVE FALSE
    OBVIOUS
  <2>2. \A i \in D : entries[i].lsn <= top - 1 /\ top \in Nat
    BY <2>1, <1>4, SMT
  <2>3. top - 1 \in Nat
    BY <2>2, <1>2, SMT
  <2>4. top - 1 \in U
    BY <2>2, <2>3
  <2> QED
    BY <2>4, <1>4, SMT
<1> DEFINE P == {i \in D : entries[i].lsn = top}
<1>6. PICK w \in P : \A i \in P : w <= i
  <2>1. P \subseteq Nat /\ P # {}
    BY <1>1, <1>5, SMT
  <2> QED
    BY <2>1, LeastNatural, ZenonT(30)
<1>7. /\ w \in DOMAIN entries
      /\ entries[w].key = k
      /\ \A j \in DOMAIN entries :
            entries[j].key = k => \/ entries[j].lsn < entries[w].lsn
                                  \/ entries[j].lsn = entries[w].lsn /\ w <= j
  <2>1. \A j \in D : entries[j].lsn <= top
    BY <1>4
  <2>2. \A j \in D : entries[j].lsn # top => entries[j].lsn < top
    BY <2>1, <1>4, SMT
  <2> QED
    BY <1>6, <2>2
<1> HIDE DEF D, U, P, n
<1>8. /\ Newest(entries, k) \in DOMAIN entries
      /\ entries[Newest(entries, k)].key = k
      /\ \A j \in DOMAIN entries :
            entries[j].key = k =>
                \/ entries[j].lsn < entries[Newest(entries, k)].lsn
                \/ entries[j].lsn = entries[Newest(entries, k)].lsn /\ Newest(entries, k) <= j
  BY <1>7 DEF Newest
<1> QED
  BY <1>8, SMT

\* What one publication does to the index: every key keeps its greatest LSN, from the index
\* or from the frame, and no key disappears (index::apply).
LEMMA ApplyProperties ==
    ASSUME NEW E, \A e \in E : e.lsn \in Nat,
           NEW ix, \A k \in DOMAIN ix : ix[k] \in E /\ ix[k].key = k,
           NEW entries \in Seq(E)
    PROVE  /\ Apply(ix, entries) \in [DOMAIN ix \cup KeysOf(entries) -> E]
           /\ \A k \in DOMAIN ix \cup KeysOf(entries) :
                 /\ Apply(ix, entries)[k].key = k
                 /\ \/ Apply(ix, entries)[k] \in EntriesOf(entries)
                    \/ k \in DOMAIN ix /\ Apply(ix, entries)[k] = ix[k]
                 /\ k \in DOMAIN ix => ix[k].lsn <= Apply(ix, entries)[k].lsn
                 /\ \A e \in EntriesOf(entries) :
                       e.key = k => e.lsn <= Apply(ix, entries)[k].lsn
<1> DEFINE A == Apply(ix, entries)
           new(k) == entries[Newest(entries, k)]
<1>1. \A i \in DOMAIN entries : entries[i] \in E /\ entries[i].lsn \in Nat
  BY SMT
<1>2. \A k \in KeysOf(entries) :
         /\ new(k) \in EntriesOf(entries) /\ new(k) \in E /\ new(k).key = k
         /\ \A e \in EntriesOf(entries) : e.key = k => e.lsn <= new(k).lsn
  BY <1>1, NewestProperties DEF EntriesOf
<1>3. \A e \in EntriesOf(entries) : e.key \in KeysOf(entries) /\ e \in E
  BY <1>1 DEF EntriesOf, KeysOf
<1>4. A = [k \in DOMAIN ix \cup KeysOf(entries) |->
             IF k \in KeysOf(entries) /\ (k \in DOMAIN ix => new(k).lsn > ix[k].lsn)
             THEN new(k) ELSE ix[k]]
  BY DEF Apply
<1> HIDE DEF new, A
<1>5. ASSUME NEW k \in DOMAIN ix \cup KeysOf(entries)
      PROVE  /\ A[k] \in E
             /\ A[k].key = k
             /\ A[k] \in EntriesOf(entries) \/ (k \in DOMAIN ix /\ A[k] = ix[k])
             /\ k \in DOMAIN ix => ix[k].lsn <= A[k].lsn
             /\ \A e \in EntriesOf(entries) : e.key = k => e.lsn <= A[k].lsn
  <2>1. CASE k \in KeysOf(entries) /\ (k \in DOMAIN ix => new(k).lsn > ix[k].lsn)
    <3>1. A[k] = new(k)
      BY <2>1, <1>4
    <3> QED
      BY <2>1, <3>1, <1>2, SMT
  <2>2. CASE ~(k \in KeysOf(entries) /\ (k \in DOMAIN ix => new(k).lsn > ix[k].lsn))
    <3>1. A[k] = ix[k] /\ k \in DOMAIN ix
      BY <2>2, <1>4
    <3>2. CASE k \in KeysOf(entries)
      <4>1. new(k).lsn <= ix[k].lsn
        BY <2>2, <3>1, <3>2, <1>2, SMT
      <4> QED
        BY <3>1, <3>2, <4>1, <1>2, <1>3, SMT
    <3>3. CASE k \notin KeysOf(entries)
      BY <3>1, <3>3, <1>3, SMT
    <3> QED
      BY <3>2, <3>3
  <2> QED
    BY <2>1, <2>2
<1>6. A \in [DOMAIN ix \cup KeysOf(entries) -> E]
  BY <1>4, <1>5
<1> QED
  BY <1>5, <1>6 DEF A

\* A frame of a caller is a sequence of entries and its index reservation is a natural.
LEMMA FrameFacts ==
    ASSUME NEW frame \in Frames, IndexType
    PROVE  FrameTyped(frame)
<1>1. frame \in Seq(Entry) /\ Len(frame) \in Nat
  BY PipelineAssumption, SMT
<1>2. KeysOf(frame) \subseteq Keys
  <2>1. \A i \in DOMAIN frame : frame[i] \in Entry
    BY <1>1, SMT
  <2>2. \A e \in Entry : e.key \in Keys
    BY DEF Entry
  <2> QED
    BY <2>1, <2>2 DEF KeysOf
<1>3. IsFiniteSet(KeysOf(frame) \ DOMAIN index)
  BY <1>2, PipelineAssumption, FS_Subset
<1>4. Cardinality(KeysOf(frame) \ DOMAIN index) \in Nat
  BY <1>3, FS_CardinalityType
<1> QED
  BY <1>1, <1>4 DEF ReservedNew, FrameTyped

\* The index keeps its type and its keys when a frame is applied to it.
LEMMA ApplyTyped ==
    ASSUME IndexType, IndexKeyed, NEW entries \in Seq(Entry)
    PROVE  AppliedTyped(entries)
<1>1. \A e \in Entry : e.lsn \in Nat /\ e.key \in Keys
  BY DEF Entry
<1>2. \A k \in DOMAIN index : index[k] \in Entry /\ index[k].key = k
  BY DEF IndexType, IndexKeyed
<1>3. KeysOf(entries) \subseteq Keys
  <2>1. \A i \in DOMAIN entries : entries[i] \in Entry
    BY SMT
  <2> QED
    BY <1>1, <2>1 DEF KeysOf
<1>4. /\ Apply(index, entries) \in [DOMAIN index \cup KeysOf(entries) -> Entry]
      /\ \A k \in DOMAIN index \cup KeysOf(entries) : Apply(index, entries)[k].key = k
  <2>1. \A e \in Entry : e.lsn \in Nat
    BY <1>1
  <2>2. entries \in Seq(Entry)
    OBVIOUS
  <2>3. /\ Apply(index, entries) \in [DOMAIN index \cup KeysOf(entries) -> Entry]
        /\ \A k \in DOMAIN index \cup KeysOf(entries) :
              /\ Apply(index, entries)[k].key = k
              /\ \/ Apply(index, entries)[k] \in EntriesOf(entries)
                 \/ k \in DOMAIN index /\ Apply(index, entries)[k] = index[k]
              /\ k \in DOMAIN index => index[k].lsn <= Apply(index, entries)[k].lsn
              /\ \A e \in EntriesOf(entries) :
                    e.key = k => e.lsn <= Apply(index, entries)[k].lsn
    BY <1>2, <2>1, <2>2, ApplyProperties
  <2> QED
    BY <2>3
<1>5. DOMAIN Apply(index, entries) = DOMAIN index \cup KeysOf(entries)
  BY <1>4
<1>6. DOMAIN index \subseteq Keys
  BY DEF IndexType
<1> QED
  BY <1>3, <1>4, <1>5, <1>6 DEF AppliedTyped

(***************************************************************************)
(* The theorems                                                            *)
(***************************************************************************)
\* Every step of the pipeline, one action at a time.
LEMMA NextInv == Inv /\ [Next]_vars => Inv'
<1> SUFFICES ASSUME Inv, [Next]_vars PROVE Inv'
  OBVIOUS
<1>1. /\ \A frame \in Frames : FrameTyped(frame) /\ AppliedTyped(frame)
      /\ \A entries \in Seq(Entry) : AppliedTyped(entries)
  <2>1. IndexType /\ IndexKeyed
    BY DEF Inv, TypeOK
  <2> QED
    BY <2>1, FrameFacts, ApplyTyped DEF FrameTyped
<1>2. CASE Api
  <2>1. PICK s \in Slots :
          \/ ~maintenance /\ \E frame \in Frames : Write(frame, s)
          \/ ~maintenance /\ Flush(s)
          \/ \E k \in Keys : \/ Read(k, s) \/ ReadEmpty(k, s)
                             \/ \E inline \in BOOLEAN : ReadVerified(k, inline, s)
    BY <1>2 DEF Api
  <2> QED
    BY <1>1, <2>1, WriteInv, FlushInv, ReadInv
<1>3. CASE Owner
  BY <1>1, <1>3, IssueInv, OwnerMovesInv, RestoreInv DEF Owner
<1>4. CASE Device
  BY <1>4, QueueMovesInv DEF Device
<1>5. CASE PollStep
  <2>1. CASE RetireWrite \/ FlushFinish \/ FlushSubmit
    BY <1>1, <2>1, RetireWriteInv, FlushFinishInv, FlushSubmitInv
  <2>2. CASE RetireEnd \/ FlushSkip \/ ReadsEnd \/ QueuePoll \/ ReapEnd
    BY <2>2, PollMovesInv
  <2>3. CASE StartControl \/ \E bytes \in 0..1 : ReapControl(bytes)
    BY <2>3, QueueMovesInv
  <2>4. CASE CompleteEmptyRead \/ QueueError \/ RetireFailedEnd
    BY <2>4, CompleteEmptyReadInv, QueueErrorInv, RetireFailedEndInv
  <2>5. CASE \E s \in Slots : Reap(s) \/ RetireFailed(s)
    <3>1. PICK s \in Slots : Reap(s) \/ RetireFailed(s)
      BY <2>5
    <3> QED
      BY <3>1, ReapWriteInv, ReapMetadataInv, ReapFlushInv, ReapReadInv, RetireFailedInv DEF Reap
  <2> QED
    BY <1>5, <2>1, <2>2, <2>3, <2>4, <2>5 DEF PollStep
<1>6. CASE PollBegin
  BY <1>6, PollMovesInv
<1>7. CASE UNCHANGED vars
  <2>1. UNCHANGED <<queueVars, ticketVars, failVars, ownerVars, indexVars, pollVars>>
    BY <1>7 DEF vars
  <2>2. TypeOK'
    BY <2>1, UnchangedTypes DEF Inv, TypeOK
  <2>3. UNCHANGED <<slots, io, writes, ready_reads, flush, ticketVars, failed_at, queue_failed, index, pc>>
    BY <2>1 DEF queueVars, failVars, indexVars, pollVars
  <2>4. Running'
    BY <2>3 DEF Inv, Running
  <2> QED
    BY <2>2, <2>3, <2>4, QuietStep
<1> QED
  BY <1>2, <1>3, <1>4, <1>5, <1>6, <1>7 DEF Next

\* The inductive invariant holds in every reachable state.
THEOREM Invariance == Spec => []Inv
BY InitInv, NextInv, PTL DEF Spec

\* Every variable of the pipeline keeps its type.
THEOREM TypeCorrect == Spec => []TypeOK
<1>1. Inv => TypeOK
  BY DEF Inv
<1> QED
  BY <1>1, Invariance, PTL

\* Every accepted operation is pending in exactly one slot or has its one completion.
THEOREM TicketsAccounted == Spec => []TicketAccounting
<1>1. Inv => TicketAccounting
  BY DEF Inv
<1> QED
  BY <1>1, Invariance, PTL

\* Writes are published as a prefix of submission order, for any number of slots and keys.
THEOREM PublicationIsPrefix == Spec => []PrefixPublication
<1>1. Inv => PrefixPublication
  BY DEF Inv, OrderInv
<1> QED
  BY <1>1, Invariance, PTL

\* A flush succeeds only when every earlier write was published.
THEOREM FlushIsBarrier == Spec => []FlushCoversWrites
<1>1. Inv => FlushCoversWrites
  BY DEF Inv, OrderInv
<1> QED
  BY <1>1, Invariance, PTL

\* Write completions are delivered in submission order.
THEOREM CompletionsInOrder == Spec => []NotificationsInOrder
<1>1. Inv => NotificationsInOrder
  BY DEF Inv, OrderInv
<1> QED
  BY <1>1, Invariance, PTL

\* The sync of a flush is in the queue only when no write is pending.
THEOREM SyncFollowsWrites == Spec => []SyncAfterWrites
<1>1. Inv => SyncAfterWrites
  BY DEF Inv, FlushSlot, SyncAfterWrites, PendingWrites, InFlight, Free, Holds
<1> QED
  BY <1>1, Invariance, PTL

(***************************************************************************)
(* The index holds the newest version of everything published or restored  *)
(***************************************************************************)
\* What IndexNewest says of an index and the entries known to it.
NewestOver(ix, known) ==
    /\ DOMAIN ix = {e.key : e \in known}
    /\ \A k \in DOMAIN ix :
          /\ ix[k] \in known
          /\ ix[k].key = k
          /\ \A e \in known : e.key = k => e.lsn <= ix[k].lsn

PublishedEntries == UNION {EntriesOf(outcome[t].entries) : t \in Published}

\* Applying a frame adds its entries to those the index is the newest over.
LEMMA ApplyNewest ==
    ASSUME NEW ix, NEW known, known \subseteq Entry, NewestOver(ix, known),
           NEW entries \in Seq(Entry)
    PROVE  NewestOver(Apply(ix, entries), known \cup EntriesOf(entries))
<1> DEFINE A == Apply(ix, entries)
<1>1. \A e \in Entry : e.lsn \in Nat
  BY DEF Entry
<1>2. \A k \in DOMAIN ix : ix[k] \in Entry /\ ix[k].key = k
  BY DEF NewestOver
<1>3. /\ A \in [DOMAIN ix \cup KeysOf(entries) -> Entry]
      /\ \A k \in DOMAIN ix \cup KeysOf(entries) :
            /\ A[k].key = k
            /\ \/ A[k] \in EntriesOf(entries)
               \/ k \in DOMAIN ix /\ A[k] = ix[k]
            /\ k \in DOMAIN ix => ix[k].lsn <= A[k].lsn
            /\ \A e \in EntriesOf(entries) : e.key = k => e.lsn <= A[k].lsn
  BY <1>1, <1>2, ApplyProperties
<1> HIDE DEF A
<1>4. DOMAIN A = DOMAIN ix \cup KeysOf(entries)
  BY <1>3
<1>5. KeysOf(entries) = {e.key : e \in EntriesOf(entries)}
  BY DEF KeysOf, EntriesOf
<1>6. DOMAIN A = {e.key : e \in known \cup EntriesOf(entries)}
  BY <1>4, <1>5 DEF NewestOver
<1>7. ASSUME NEW k \in DOMAIN A
      PROVE  /\ A[k] \in known \cup EntriesOf(entries)
             /\ A[k].key = k
             /\ \A e \in known \cup EntriesOf(entries) : e.key = k => e.lsn <= A[k].lsn
  <2>1. A[k] \in known \cup EntriesOf(entries) /\ A[k].key = k
    BY <1>3, <1>4 DEF NewestOver
  <2>2. ASSUME NEW e \in known, e.key = k PROVE e.lsn <= A[k].lsn
    <3>1. k \in DOMAIN ix
      BY <2>2 DEF NewestOver
    <3>2. e.lsn <= ix[k].lsn /\ ix[k].lsn <= A[k].lsn
      BY <1>3, <2>2, <3>1 DEF NewestOver
    <3>3. e.lsn \in Nat /\ ix[k].lsn \in Nat /\ A[k].lsn \in Nat
      BY <1>1, <1>2, <1>3, <1>4, <3>1
    <3> QED
      BY <3>2, <3>3, SMT
  <2>3. \A e \in EntriesOf(entries) : e.key = k => e.lsn <= A[k].lsn
    BY <1>3, <1>4
  <2> QED
    BY <2>1, <2>2, <2>3
<1> QED
  BY <1>6, <1>7 DEF NewestOver, A

\* Only a published write and a restored frame change the index or what it stands for.
LEMMA PublishedStays ==
    ASSUME Inv, [Next]_vars, ~RetireWrite, \A frame \in Frames : ~Restore(frame)
    PROVE  /\ UNCHANGED <<index, restored>> /\ PublishedEntries' = PublishedEntries
           /\ Published' = Published /\ WriteTickets \subseteq WriteTickets'
<1>1. TicketType /\ outcome \in Seq(Issued)
  BY DEF Inv, TypeOK, TicketType
<1> DEFINE Kept == /\ UNCHANGED <<index, restored>>
                   /\ DOMAIN outcome \subseteq DOMAIN outcome'
                   /\ Published' = Published
                   /\ \A t \in DOMAIN outcome : /\ outcome'[t].entries = outcome[t].entries
                                                 /\ outcome'[t].op = outcome[t].op
<1>2. SUFFICES Kept
  <2>1. Published \subseteq DOMAIN outcome
    BY DEF Published, WriteTickets
  <2>2. {EntriesOf(outcome'[t].entries) : t \in Published}
          = {EntriesOf(outcome[t].entries) : t \in Published}
    BY <1>2, <2>1
  <2>3. WriteTickets \subseteq WriteTickets'
    BY <1>2 DEF WriteTickets
  <2> QED
    BY <1>2, <2>2, <2>3 DEF PublishedEntries
<1>3. ASSUME NEW r \in Issued, r.result = "pending", outcome' = Append(outcome, r),
             UNCHANGED <<index, restored>>
      PROVE  Kept
  <2>1. /\ DOMAIN outcome = 1..Len(outcome) /\ Len(outcome) \in Nat
        /\ DOMAIN outcome' = DOMAIN outcome \cup {Len(outcome) + 1}
        /\ \A t \in DOMAIN outcome : outcome'[t] = outcome[t]
        /\ outcome'[Len(outcome) + 1] = r
    BY <1>1, <1>3, Appended
  <2>2. Published' = Published
    BY <1>3, <2>1 DEF Published, WriteTickets
  <2> QED
    BY <1>3, <2>1, <2>2
<1>4. ASSUME NEW s \in Slots, slots[s] # None, NEW r \in Results,
             outcome' = [outcome EXCEPT ![slots[s].ticket].result = r],
             slots[s].op # "write" \/ r = "failed", UNCHANGED <<index, restored>>
      PROVE  Kept
  <2>1. /\ slots[s].ticket \in DOMAIN outcome
        /\ outcome[slots[s].ticket].op = slots[s].op
        /\ outcome[slots[s].ticket].result = "pending"
    BY <1>4 DEF Inv, TicketAccounting, InFlight, Free
  <2>2. /\ DOMAIN outcome' = DOMAIN outcome
        /\ \A u \in DOMAIN outcome :
              /\ outcome'[u].op = outcome[u].op
              /\ outcome'[u].entries = outcome[u].entries
              /\ outcome'[u].result = IF u = slots[s].ticket THEN r ELSE outcome[u].result
    BY <1>1, <1>4, <2>1, Completed, SMT
  <2>3. Published' = Published
    BY <1>4, <2>1, <2>2 DEF Published, WriteTickets
  <2> QED
    BY <1>4, <2>2, <2>3
<1>5. ASSUME UNCHANGED <<outcome, index, restored>>
      PROVE  Kept
  BY <1>5 DEF Published, WriteTickets
<1> HIDE DEF Kept
<1>6. CASE Api
  <2>1. PICK s \in Slots :
          \/ ~maintenance /\ \E frame \in Frames : Write(frame, s)
          \/ ~maintenance /\ Flush(s)
          \/ \E k \in Keys : \/ Read(k, s) \/ ReadEmpty(k, s)
                             \/ \E inline \in BOOLEAN : ReadVerified(k, inline, s)
    BY <1>6 DEF Api
  <2>2. UNCHANGED <<index, restored>>
    BY <2>1 DEF Write, Flush, Read, ReadEmpty, ReadVerified, indexVars
  <2>3. ASSUME NEW op \in Ops, NEW entries \in Seq(Entry),
               outcome' = Append(outcome, [op |-> op, entries |-> entries, result |-> "pending"])
        PROVE  Kept
    <3>1. [op |-> op, entries |-> entries, result |-> "pending"] \in Issued
      BY DEF Issued, Results
    <3> QED
      BY <1>3, <2>2, <2>3, <3>1
  <2>4. ASSUME NEW frame \in Frames, Write(frame, s)
        PROVE  Kept
    <3>1. "write" \in Ops /\ frame \in Seq(Entry)
      BY PipelineAssumption DEF Ops
    <3>2. outcome' = Append(outcome, [op |-> "write", entries |-> frame, result |-> "pending"])
      BY <2>4 DEF Write, TakeSlot
    <3> QED
      BY <2>3, <3>1, <3>2
  <2>5. ASSUME Flush(s)
        PROVE  Kept
    <3>1. "flush" \in Ops /\ <<>> \in Seq(Entry)
      BY SMT DEF Ops
    <3>2. outcome' = Append(outcome, [op |-> "flush", entries |-> <<>>, result |-> "pending"])
      BY <2>5 DEF Flush, TakeSlot
    <3> QED
      BY <2>3, <3>1, <3>2
  <2>6. ASSUME NEW k \in Keys, \/ Read(k, s) \/ ReadEmpty(k, s)
                               \/ \E inline \in BOOLEAN : ReadVerified(k, inline, s)
        PROVE  Kept
    <3>1. PICK op \in {"read", "verified", "empty"} :
            /\ k \in DOMAIN index
            /\ outcome' = Append(outcome, [op |-> op, entries |-> <<index[k]>>, result |-> "pending"])
      BY <2>6 DEF Read, ReadEmpty, ReadVerified, TakeSlot, ReadOf, Located
    <3>2. op \in Ops /\ <<index[k]>> \in Seq(Entry)
      BY <3>1, SMT DEF Ops, Inv, TypeOK, IndexType
    <3> QED
      BY <2>3, <3>1, <3>2
  <2> QED
    BY <2>1, <2>4, <2>5, <2>6
<1>7. CASE Owner
  <2>1. UNCHANGED <<index, restored>>
    BY <1>7 DEF Owner, BeginMaintenance, WasteTicket, EndMaintenance, ControlIo, TakeControl,
       Attach, TakeSegment, indexVars
  <2>2. UNCHANGED outcome \/ IssueTicket
    BY <1>7 DEF Owner, BeginMaintenance, WasteTicket, EndMaintenance, ControlIo, TakeControl,
       Attach, TakeSegment, ticketVars
  <2>3. CASE IssueTicket
    <3>1. [op |-> "lifecycle", entries |-> <<>>, result |-> "pending"] \in Issued
      BY SMT DEF Issued, Results
    <3> QED
      BY <1>3, <2>1, <2>3, <3>1 DEF IssueTicket
  <2> QED
    BY <1>5, <2>1, <2>2, <2>3
<1>8. CASE Device \/ PollBegin \/ UNCHANGED vars
  <2>1. UNCHANGED <<outcome, index, restored>>
    BY <1>8 DEF Device, DeviceComplete, PollBegin, vars, ticketVars, indexVars
  <2> QED
    BY <1>5, <2>1
<1>9. CASE PollStep
  <2>1. CASE \/ RetireEnd \/ FlushSkip \/ FlushSubmit \/ StartControl \/ ReadsEnd \/ QueuePoll
             \/ QueueError \/ ReapEnd \/ RetireFailedEnd
             \/ \E bytes \in 0..1 : ReapControl(bytes)
             \/ \E s \in Slots : ReapWrite(s) \/ ReapMetadata(s)
    <3>1. UNCHANGED <<outcome, index, restored>>
      BY <2>1
         DEF RetireEnd, FlushSkip, FlushSubmit, StartControl, ReadsEnd, QueuePoll, QueueError,
         ReapEnd, RetireFailedEnd, ReapControl, ReapWrite, ReapMetadata, ticketVars, indexVars
    <3> QED
      BY <1>5, <3>1
  <2>2. CASE FlushFinish
    <3>1. flush \in Slots /\ Holds(flush, "flush")
      BY <2>2 DEF Inv, Running, FlushFinish, FlushRunnable, FlushSlot, TypeOK, QueueType
    <3>2. \E r \in {"ok", "err"} : outcome' = [outcome EXCEPT ![slots[flush].ticket].result = r]
      BY <2>2 DEF FlushFinish, Emit
    <3>3. UNCHANGED <<index, restored>>
      BY <2>2 DEF FlushFinish, indexVars
    <3> QED
      BY <1>4, <3>1, <3>2, <3>3 DEF Results, Holds
  <2>3. CASE CompleteEmptyRead
    <3>1. Head(ready_reads) \in Slots /\ Holds(Head(ready_reads), "empty")
      <4>1. ~queue_failed /\ ready_reads # <<>> /\ ready_reads \in Seq(Slots)
        BY <2>3 DEF Inv, Running, CompleteEmptyRead, TypeOK, QueueType
      <4>2. 1 \in DOMAIN ready_reads /\ Head(ready_reads) = ready_reads[1]
        BY <4>1, SMT
      <4> QED
        BY <4>1, <4>2, SMT DEF Inv, EmptyReads
    <3>2. outcome' = [outcome EXCEPT ![slots[Head(ready_reads)].ticket].result = "ok"]
      BY <2>3 DEF CompleteEmptyRead, Emit
    <3>3. UNCHANGED <<index, restored>>
      BY <2>3 DEF CompleteEmptyRead, indexVars
    <3> QED
      BY <1>4, <3>1, <3>2, <3>3 DEF Results, Holds
  <2>4. ASSUME NEW s \in Slots, ReapFlush(s) \/ \E result \in {"ok", "err"} : ReapRead(s, result)
        PROVE  Kept
    <3>1. slots[s] # None /\ slots[s].op # "write"
      <4>1. io[s] # "idle" /\ ~queue_failed
        BY <2>4 DEF Inv, Running, ReapFlush, ReapRead, Pop
      <4> QED
        BY <2>4, <4>1 DEF Inv, IdleSlots, ReapFlush, ReapRead
    <3>2. \E r \in {"ok", "err"} : outcome' = [outcome EXCEPT ![slots[s].ticket].result = r]
      BY <2>4 DEF ReapFlush, ReapRead, Emit, Pop
    <3>3. UNCHANGED <<index, restored>>
      BY <2>4 DEF ReapFlush, ReapRead, indexVars
    <3> QED
      BY <1>4, <3>1, <3>2, <3>3 DEF Results
  <2>5. ASSUME NEW s \in Slots, RetireFailed(s)
        PROVE  Kept
    <3>1. UNCHANGED <<index, restored>>
      BY <2>5 DEF RetireFailed
    <3>2. CASE slots[s] = None
      BY <1>5, <2>5, <3>1, <3>2 DEF RetireFailed
    <3>3. CASE slots[s] # None
      <4>1. outcome' = [outcome EXCEPT ![slots[s].ticket].result = "failed"]
        BY <2>5, <3>3 DEF RetireFailed, Emit
      <4> QED
        BY <1>4, <3>1, <3>3, <4>1 DEF Results
    <3> QED
      BY <3>2, <3>3
  <2> QED
    BY <1>9, <2>1, <2>2, <2>3, <2>4, <2>5 DEF PollStep, Reap
<1> QED
  BY <1>6, <1>7, <1>8, <1>9 DEF Next, Owner

\* The entries of a retired write: published with it, or without effect on the index.
LEMMA RetirePublishes ==
    ASSUME Inv, RetireWrite
    PROVE  /\ slots[Head(writes)].entries \in Seq(Entry)
           /\ Head(writes) \in Slots /\ Holds(Head(writes), "write")
           /\ restored' = restored
           /\ Published \subseteq Published' /\ WriteTickets' = WriteTickets
           /\ \/ /\ index' = Apply(index, slots[Head(writes)].entries)
                 /\ PublishedEntries' =
                        PublishedEntries \cup EntriesOf(slots[Head(writes)].entries)
              \/ index' = index /\ PublishedEntries' = PublishedEntries
<1> DEFINE h == Head(writes)
           t == slots[h].ticket
           r == RetireResult(slots[h])
<1>1. /\ pc \in {"retire1", "retire2"} /\ writes # <<>> /\ slots[h].stage \in {"ok", "err"}
      /\ index' = (IF r = "ok" THEN Apply(index, slots[h].entries) ELSE index)
      /\ outcome' = [outcome EXCEPT ![t].result = r] /\ restored' = restored
  BY DEF RetireWrite, FrontCompleted, Emit
<1>2. ~queue_failed
  BY <1>1 DEF Inv, Running
<1>3. h \in Slots /\ Holds(h, "write")
  BY <1>1, <1>2, HeadFacts, SMTT(30)
<1>4. /\ t \in DOMAIN outcome /\ outcome[t].op = "write" /\ outcome[t].result = "pending"
      /\ outcome[t].entries = slots[h].entries
  BY <1>3 DEF Inv, TicketAccounting, EntriesOwed, Holds, InFlight, Free
<1>5. r \in {"ok", "err"} /\ r \in Results
  BY <1>1 DEF RetireResult, Results
<1>6. slots[h].entries \in Seq(Entry)
  <2>1. slots[h] \in Pending
    BY <1>3 DEF Inv, TypeOK, QueueType, Holds
  <2> QED
    BY <2>1 DEF Pending
<1>7. TicketType /\ outcome \in Seq(Issued)
  BY DEF Inv, TypeOK, TicketType
<1>8. /\ DOMAIN outcome' = DOMAIN outcome
      /\ \A u \in DOMAIN outcome :
            /\ outcome'[u].op = outcome[u].op
            /\ outcome'[u].entries = outcome[u].entries
            /\ outcome'[u].result = IF u = t THEN r ELSE outcome[u].result
  BY <1>1, <1>4, <1>5, <1>7, Completed, SMT
<1> HIDE DEF h, t, r
<1>9. Published' = IF r = "ok" THEN Published \cup {t} ELSE Published
  BY <1>4, <1>5, <1>8 DEF Published, WriteTickets
<1>10. Published \subseteq DOMAIN outcome
  BY DEF Published, WriteTickets
<1>11. Published \subseteq Published' /\ WriteTickets' = WriteTickets
  BY <1>8, <1>9 DEF WriteTickets
<1>12. CASE r = "ok"
  <2>1. \A e : e \in PublishedEntries' <=> e \in PublishedEntries \cup EntriesOf(slots[h].entries)
    BY <1>4, <1>8, <1>9, <1>10, <1>12, SMT DEF PublishedEntries
  <2>2. PublishedEntries' = PublishedEntries \cup EntriesOf(slots[h].entries)
    BY <2>1
  <2> QED
    BY <1>1, <1>3, <1>6, <1>11, <1>12, <2>2 DEF h
<1>13. CASE r = "err"
  <2>1. \A e : e \in PublishedEntries' <=> e \in PublishedEntries
    BY <1>8, <1>9, <1>10, <1>13, SMT DEF PublishedEntries
  <2>2. PublishedEntries' = PublishedEntries
    BY <2>1
  <2> QED
    BY <1>1, <1>3, <1>6, <1>11, <1>13, <2>2 DEF h
<1> QED
  BY <1>5, <1>12, <1>13

\* Accepted writes are never forgotten, nor published ones taken back.
LEMMA PublishedGrow ==
    ASSUME Inv, [Next]_vars
    PROVE  WriteTickets \subseteq WriteTickets' /\ Published \subseteq Published'
<1>1. CASE RetireWrite
  BY <1>1, RetirePublishes
<1>2. CASE \E frame \in Frames : Restore(frame)
  BY <1>2 DEF Restore, ticketVars, WriteTickets, Published
<1>3. CASE ~RetireWrite /\ \A frame \in Frames : ~Restore(frame)
  BY <1>3, PublishedStays
<1> QED
  BY <1>1, <1>2, <1>3

\* The index always holds, for every key, an entry of the greatest LSN ever published or
\* restored, whatever order the device completed the frames in (index::apply, retire_writes).
THEOREM IndexHoldsNewest == Spec => []IndexNewest
<1> DEFINE Known == restored \cup PublishedEntries
<1>1. IndexNewest <=> NewestOver(index, Known)
  BY DEF IndexNewest, NewestOver, PublishedEntries
<1>2. Init => NewestOver(index, Known)
  <2> SUFFICES ASSUME Init PROVE NewestOver(index, Known)
    OBVIOUS
  <2>1. index = <<>> /\ restored = {} /\ outcome = <<>>
    BY DEF Init
  <2>2. DOMAIN index = {} /\ Published = {}
    BY <2>1, SMT DEF Published, WriteTickets
  <2>3. Known = {}
    BY <2>1, <2>2 DEF PublishedEntries
  <2> QED
    BY <2>2, <2>3 DEF NewestOver
<1>3. Inv /\ NewestOver(index, Known) /\ [Next]_vars => NewestOver(index, Known)'
  <2> SUFFICES ASSUME Inv, NewestOver(index, Known), [Next]_vars
               PROVE  NewestOver(index', Known')
    BY DEF NewestOver
  <2>1. Known \subseteq Entry
    <3>1. \A t \in DOMAIN outcome : outcome[t].entries \in Seq(Entry)
      <4>1. outcome \in Seq(Issued)
        BY DEF Inv, TypeOK, TicketType
      <4>2. \A t \in DOMAIN outcome : outcome[t] \in Issued
        BY <4>1, SMT
      <4> QED
        BY <4>2 DEF Issued
    <3>2. \A t \in Published : EntriesOf(outcome[t].entries) \subseteq Entry
      BY <3>1, SMT DEF Published, WriteTickets, EntriesOf
    <3> QED
      BY <3>2 DEF Inv, TypeOK, IndexType, PublishedEntries
  <2> HIDE DEF Known
  <2>2. ASSUME NEW entries \in Seq(Entry), index' = Apply(index, entries),
               Known' = Known \cup EntriesOf(entries)
        PROVE  NewestOver(index', Known')
    BY <2>1, <2>2, ApplyNewest
  <2>3. CASE RetireWrite
    <3>1. Known' = restored' \cup PublishedEntries'
      BY DEF Known
    <3>2. /\ slots[Head(writes)].entries \in Seq(Entry) /\ restored' = restored
          /\ \/ /\ index' = Apply(index, slots[Head(writes)].entries)
                /\ PublishedEntries' =
                        PublishedEntries \cup EntriesOf(slots[Head(writes)].entries)
             \/ index' = index /\ PublishedEntries' = PublishedEntries
      BY <2>3, RetirePublishes
    <3>3. CASE index' = index /\ PublishedEntries' = PublishedEntries
      BY <3>2, <3>3 DEF Known
    <3>4. CASE /\ index' = Apply(index, slots[Head(writes)].entries)
               /\ PublishedEntries' =
                        PublishedEntries \cup EntriesOf(slots[Head(writes)].entries)
      <4>1. Known' = Known \cup EntriesOf(slots[Head(writes)].entries)
        BY <3>2, <3>4 DEF Known
      <4> QED
        BY <2>2, <3>2, <3>4, <4>1
    <3> QED
      BY <3>2, <3>3, <3>4
  <2>4. ASSUME NEW frame \in Frames, Restore(frame)
        PROVE  NewestOver(index', Known')
    <3>1. /\ index' = Apply(index, frame) /\ restored' = restored \cup EntriesOf(frame)
          /\ outcome' = outcome
      BY <2>4 DEF Restore, ticketVars
    <3>2. PublishedEntries' = PublishedEntries
      BY <3>1 DEF PublishedEntries, Published, WriteTickets
    <3>3. Known' = Known \cup EntriesOf(frame)
      BY <3>1, <3>2 DEF Known
    <3>4. frame \in Seq(Entry)
      BY PipelineAssumption
    <3> QED
      BY <2>2, <3>1, <3>3, <3>4
  <2>5. CASE ~RetireWrite /\ \A frame \in Frames : ~Restore(frame)
    <3>1. UNCHANGED <<index, restored>> /\ PublishedEntries' = PublishedEntries
      BY <2>5, PublishedStays
    <3> QED
      BY <3>1 DEF Known
  <2> QED
    BY <2>3, <2>4, <2>5
<1> QED
  BY <1>1, <1>2, <1>3, Invariance, PTL DEF Spec

(***************************************************************************)
(* Pipeline implements OrderedStore: with the history of tickets and the   *)
(* index read as the abstract operations and view, every step of the       *)
(* pipeline is a step of the ordered store or a stutter.                   *)
(***************************************************************************)
\* The abstract store applies frames to its view as the pipeline does to its index.
LEMMA SameApply == \A ix, es : Store!Apply(ix, es) = Apply(ix, es)
BY DEF Store!Apply, Apply, Store!Newest, Newest, Store!KeysOf, KeysOf

\* Before a queue failure no operation was abandoned, and without failed_at none failed.
LEMMA Sound ==
    ASSUME Inv, ~queue_failed
    PROVE  /\ ~Store!Dead(outcome)
           /\ failed_at = 0 => ~Store!Failed(outcome)
           /\ flush = None => ~Store!FlushPending(outcome)
<1>1. ~Store!Dead(outcome)
  BY DEF Inv, FailureKnown, Store!Dead
<1>2. failed_at = 0 => ~Store!Failed(outcome)
  BY DEF Inv, FailureKnown, WriteTickets, Store!Failed
<1>3. ASSUME flush = None, NEW t \in DOMAIN outcome, outcome[t].op = "flush",
             outcome[t].result = "pending"
      PROVE  FALSE
  <2>1. PICK s \in InFlight : slots[s].ticket = t
    BY <1>3 DEF Inv, TicketAccounting
  <2>2. s \in Slots /\ Holds(s, "flush")
    BY <1>3, <2>1 DEF Inv, TicketAccounting, InFlight, Free, Holds
  <2> QED
    BY <1>3, <2>2, PipelineAssumption DEF Inv, FlushSlot
<1> QED
  BY <1>1, <1>2, <1>3 DEF Store!FlushPending

\* Acceptance of data operations and lifecycle tickets.
LEMMA AcceptRefines ==
    ASSUME Inv, Api \/ WasteTicket \/ \E ticketed \in BOOLEAN : BeginMaintenance(ticketed)
    PROVE  Store!StoreNext \/ UNCHANGED Store!storeVars
<1>1. CASE Api
  <2>1. PICK s \in Slots :
          \/ ~maintenance /\ \E frame \in Frames : Write(frame, s)
          \/ ~maintenance /\ Flush(s)
          \/ \E k \in Keys : \/ Read(k, s) \/ ReadEmpty(k, s)
                             \/ \E inline \in BOOLEAN : ReadVerified(k, inline, s)
    BY <1>1 DEF Api
  <2>2. ASSUME NEW frame \in Frames, Write(frame, s)
        PROVE  Store!StoreNext
    <3>1. /\ ~queue_failed /\ failed_at = 0 /\ flush = None /\ index' = index
          /\ outcome' = Append(outcome, [op |-> "write", entries |-> frame, result |-> "pending"])
      BY <2>2 DEF Write, Admission, TakeSlot
    <3>2. Store!AcceptWrite(frame)
      BY <3>1, Sound DEF Store!AcceptWrite, Store!Accept
    <3> QED
      BY <3>2 DEF Store!StoreNext
  <2>3. ASSUME Flush(s)
        PROVE  Store!StoreNext
    <3>1. /\ ~queue_failed /\ failed_at = 0 /\ flush = None /\ index' = index
          /\ outcome' = Append(outcome, [op |-> "flush", entries |-> <<>>, result |-> "pending"])
      BY <2>3 DEF Flush, Admission, TakeSlot, indexVars
    <3>2. Store!AcceptFlush
      BY <3>1, Sound DEF Store!AcceptFlush, Store!Accept
    <3> QED
      BY <3>2 DEF Store!StoreNext
  <2>4. ASSUME NEW k \in Keys, \/ Read(k, s) \/ ReadEmpty(k, s)
                               \/ \E inline \in BOOLEAN : ReadVerified(k, inline, s)
        PROVE  Store!StoreNext
    <3>1. PICK op \in {"read", "verified", "empty"} :
            /\ ~queue_failed /\ index' = index /\ Located(index, k)
            /\ outcome' = Append(outcome, [op |-> op, entries |-> <<index[k]>>, result |-> "pending"])
      BY <2>4 DEF Read, ReadEmpty, ReadVerified, Admission, TakeSlot, ReadOf, indexVars
    <3>2. Store!AcceptRead(op, k)
      BY <3>1, Sound DEF Store!AcceptRead, Store!Accept, Store!Located, Located
    <3> QED
      BY <3>2 DEF Store!StoreNext, Store!Reads
  <2> QED
    BY <2>1, <2>2, <2>3, <2>4
<1>2. CASE WasteTicket \/ \E ticketed \in BOOLEAN : BeginMaintenance(ticketed)
  <2>1. index' = index /\ (UNCHANGED outcome \/ IssueTicket)
    BY <1>2 DEF WasteTicket, BeginMaintenance, indexVars, ticketVars
  <2>2. CASE IssueTicket
    BY <2>1, <2>2 DEF IssueTicket, Store!StoreNext, Store!AcceptLifecycle, Store!Accept
  <2>3. CASE UNCHANGED outcome
    BY <2>1, <2>3 DEF Store!storeVars
  <2> QED
    BY <2>1, <2>2, <2>3
<1> QED
  BY <1>1, <1>2

\* A recovered frame enters the view only before the first data operation.
LEMMA RestoreRefines ==
    ASSUME Inv, NEW frame \in Frames, Restore(frame)
    PROVE  Store!StoreNext
<1>1. ~serving /\ index' = Apply(index, frame) /\ outcome' = outcome
  BY DEF Restore, ticketVars
<1>2. Store!Recover(frame)
  BY <1>1, SameApply DEF Inv, Unserved, Store!Recover
<1> QED
  BY <1>2 DEF Store!StoreNext

\* Retiring the oldest write publishes it or reports its failure.
LEMMA RetireRefines ==
    ASSUME Inv, Inv', RetireWrite
    PROVE  Store!StoreNext
<1> DEFINE h == Head(writes)
           t == slots[h].ticket
           r == RetireResult(slots[h])
<1>1. /\ pc \in {"retire1", "retire2"} /\ writes # <<>> /\ slots[h].stage \in {"ok", "err"}
      /\ index' = (IF r = "ok" THEN Apply(index, slots[h].entries) ELSE index)
      /\ outcome' = [outcome EXCEPT ![t].result = r]
  BY DEF RetireWrite, FrontCompleted, Emit
<1>2. ~queue_failed
  BY <1>1 DEF Inv, Running
<1>3. /\ h \in Slots /\ Holds(h, "write")
      /\ \A u \in WriteTickets : u < t => outcome[u].result \in {"ok", "err"}
  BY <1>1, <1>2, HeadFacts, SMTT(30)
<1>4. /\ t \in DOMAIN outcome /\ outcome[t].op = "write" /\ outcome[t].result = "pending"
      /\ outcome[t].entries = slots[h].entries
  BY <1>3 DEF Inv, TicketAccounting, EntriesOwed, Holds, InFlight, Free
<1>5. r \in {"ok", "err"}
  BY <1>1 DEF RetireResult
<1>6. outcome \in Seq(Issued) /\ t \in Nat
  BY <1>4, SMT DEF Inv, TypeOK, TicketType
<1> HIDE DEF t, r
<1>7. CASE r = "ok"
  <2>1. /\ DOMAIN outcome' = DOMAIN outcome /\ outcome'[t].result = "ok" /\ outcome'[t].op = "write"
        /\ \A u \in DOMAIN outcome : u # t => outcome'[u] = outcome[u]
    <3>1. outcome[t] \in Issued
      BY <1>4, <1>6, SMT
    <3> QED
      BY <1>1, <1>4, <1>6, <1>7, <3>1, SMTT(30) DEF Issued
  <2>2. \A u \in WriteTickets : u < t => outcome[u].result = "ok"
    BY <1>4, <1>6, <2>1, SMT DEF Inv, OrderInv, PrefixPublication, Published, WriteTickets
  <2>3. Store!EarlierWrites(outcome, t, {"ok"})
    BY <2>2 DEF Store!EarlierWrites, Store!WritesIn, WriteTickets
  <2>4. Store!Publish(t)
    BY <1>1, <1>2, <1>4, <1>7, <2>3, Sound, SameApply, SMTT(30)
       DEF Store!Publish, Store!Owed, Store!Complete
  <2> QED
    BY <1>4, <2>4 DEF Store!StoreNext
<1>8. CASE r = "err"
  <2>1. Store!EarlierWrites(outcome, t, {"ok", "err"})
    BY <1>3 DEF Store!EarlierWrites, Store!WritesIn, WriteTickets, t
  <2>2. Store!FailWrite(t)
    BY <1>1, <1>2, <1>4, <1>8, <2>1, Sound, SMTT(30) DEF Store!FailWrite, Store!Owed, Store!Complete
  <2> QED
    BY <1>4, <2>2 DEF Store!StoreNext
<1> QED
  BY <1>5, <1>7, <1>8

\* A slot's ticket is owed to an operation of the slot's kind.
LEMMA SlotOwed ==
    ASSUME Inv, NEW s \in Slots, slots[s] # None
    PROVE  /\ slots[s].ticket \in DOMAIN outcome
           /\ outcome[slots[s].ticket].op = slots[s].op
           /\ outcome[slots[s].ticket].result = "pending"
BY DEF Inv, TicketAccounting, InFlight, Free

\* When every write has retired, all of them have a completion; without failure a good one.
LEMMA WritesSettled ==
    ASSUME Inv, ~queue_failed, writes = <<>>, NEW t
    PROVE  /\ Store!EarlierWrites(outcome, t, {"ok", "err"})
           /\ failed_at = 0 => Store!EarlierWrites(outcome, t, {"ok"})
<1>1. ASSUME NEW u \in WriteTickets PROVE outcome[u].result \in {"ok", "err"}
  <2>1. u \in DOMAIN outcome /\ outcome[u].op = "write"
    BY DEF WriteTickets
  <2>2. outcome[u] \in Issued
    BY <2>1, SMT DEF Inv, TypeOK, TicketType
  <2>3. outcome[u].result # "failed"
    BY <2>1 DEF Inv, FailureKnown
  <2>4. outcome[u].result # "pending"
    <3> SUFFICES ASSUME outcome[u].result = "pending" PROVE FALSE
      OBVIOUS
    <3>1. PICK s \in InFlight : slots[s].ticket = u
      BY <2>1 DEF Inv, TicketAccounting
    <3>2. s \in Slots /\ Holds(s, "write")
      BY <2>1, <3>1 DEF Inv, TicketAccounting, Holds, InFlight, Free
    <3> QED
      BY <3>2, SMT DEF Inv, WriteQueue
  <2> QED
    BY <2>2, <2>3, <2>4 DEF Issued, Results
<1>2. failed_at = 0 => WriteTickets \subseteq Published
  BY AllPublished
<1> QED
  BY <1>1, <1>2 DEF Store!EarlierWrites, Store!WritesIn, WriteTickets, Published

\* A flush ends after every write before it, with success only if they all succeeded.
LEMMA FlushRefines ==
    ASSUME Inv, FlushFinish \/ \E s \in Slots : ReapFlush(s)
    PROVE  Store!StoreNext
<1>1. PICK s \in Slots, r \in {"ok", "err"} :
        /\ ~queue_failed /\ slots[s] # None /\ slots[s].op = "flush" /\ writes = <<>>
        /\ r = "ok" => failed_at = 0
        /\ outcome' = [outcome EXCEPT ![slots[s].ticket].result = r] /\ index' = index
  <2>1. ASSUME FlushFinish
        PROVE  /\ ~queue_failed /\ flush \in Slots /\ slots[flush] # None
               /\ slots[flush].op = "flush" /\ writes = <<>> /\ index' = index
               /\ outcome' = [outcome EXCEPT ![slots[flush].ticket].result =
                                  IF failed_at # 0 THEN "err" ELSE "ok"]
    <3>1. /\ pc \in {"flush1", "flush2"} /\ flush # None /\ writes = <<>> /\ index' = index
          /\ outcome' = [outcome EXCEPT ![slots[flush].ticket].result =
                             IF failed_at # 0 THEN "err" ELSE "ok"]
      BY <2>1 DEF FlushFinish, FlushRunnable, Emit, indexVars
    <3> QED
      BY <3>1 DEF Inv, Running, FlushSlot, Holds, TypeOK, QueueType
  <2>2. ASSUME NEW s \in Slots, ReapFlush(s)
        PROVE  /\ ~queue_failed /\ slots[s] # None /\ slots[s].op = "flush" /\ writes = <<>>
               /\ failed_at = 0 /\ io[s] \in {"ok", "err"} /\ index' = index
               /\ outcome' = [outcome EXCEPT ![slots[s].ticket].result = io[s]]
    <3>1. /\ Pop(s) /\ slots[s].op = "flush" /\ index' = index
          /\ outcome' = [outcome EXCEPT ![slots[s].ticket].result = io[s]]
      BY <2>2 DEF ReapFlush, Emit, indexVars
    <3>2. ~queue_failed /\ slots[s] # None /\ io[s] \in {"ok", "err"} /\ io[s] # "idle"
      BY <3>1, PopFacts
    <3>3. flush = s /\ writes = <<>> /\ failed_at = 0
      BY <3>1, <3>2, PipelineAssumption, SMTT(30) DEF Inv, FlushSlot, Holds
    <3> QED
      BY <3>1, <3>2, <3>3
  <2>3. CASE FlushFinish
    BY <2>1, <2>3
  <2>4. CASE \E s \in Slots : ReapFlush(s)
    <3>1. PICK s \in Slots : ReapFlush(s)
      BY <2>4
    <3> QED
      BY <2>2, <3>1, ZenonT(30)
  <2> QED
    BY <2>3, <2>4, ZenonT(30)
<1> DEFINE t == slots[s].ticket
<1>2. t \in DOMAIN outcome /\ outcome[t].op = "flush" /\ outcome[t].result = "pending"
  BY <1>1, SlotOwed
<1>3. /\ Store!EarlierWrites(outcome, t, {"ok", "err"})
      /\ r = "ok" => Store!EarlierWrites(outcome, t, {"ok"})
  BY <1>1, WritesSettled
<1>4. outcome' = [outcome EXCEPT ![t].result = r] /\ index' = index /\ ~Store!Dead(outcome)
  BY <1>1, Sound
<1> HIDE DEF t
<1>5. Store!FinishFlush(t)
  BY <1>2, <1>3, <1>4, ZenonT(30) DEF Store!FinishFlush, Store!Owed, Store!Complete
<1> QED
  BY <1>2, <1>5 DEF Store!StoreNext

\* A read ends at any time before a queue failure.
LEMMA ReadRefines ==
    ASSUME Inv, \/ CompleteEmptyRead
                \/ \E s \in Slots, result \in {"ok", "err"} : ReapRead(s, result)
    PROVE  Store!StoreNext
<1>1. PICK s \in Slots, r \in {"ok", "err"} :
        /\ ~queue_failed /\ slots[s] # None /\ slots[s].op \in {"read", "verified", "empty"}
        /\ outcome' = [outcome EXCEPT ![slots[s].ticket].result = r] /\ index' = index
  <2>1. CASE CompleteEmptyRead
    <3>1. /\ pc = "reads" /\ ready_reads # <<>> /\ index' = index
          /\ outcome' = [outcome EXCEPT ![slots[Head(ready_reads)].ticket].result = "ok"]
      BY <2>1 DEF CompleteEmptyRead, Emit, indexVars
    <3>2. ~queue_failed
      BY <3>1 DEF Inv, Running
    <3>3. 1 \in DOMAIN ready_reads /\ ready_reads[1] = Head(ready_reads) /\ Head(ready_reads) \in Slots
      BY <3>1, SMT DEF Inv, TypeOK, QueueType
    <3>4. Holds(Head(ready_reads), "empty")
      BY <3>2, <3>3 DEF Inv, EmptyReads
    <3> QED
      BY <3>1, <3>2, <3>3, <3>4, ZenonT(30) DEF Holds
  <2>2. CASE \E s \in Slots, result \in {"ok", "err"} : ReapRead(s, result)
    <3>1. PICK s \in Slots, r \in {"ok", "err"} : ReapRead(s, r)
      BY <2>2
    <3>2. /\ Pop(s) /\ slots[s].op \in {"read", "verified"} /\ index' = index
          /\ outcome' = [outcome EXCEPT ![slots[s].ticket].result = r]
      BY <3>1 DEF ReapRead, Emit, indexVars
    <3>3. ~queue_failed /\ slots[s] # None
      BY <3>2, PopFacts
    <3> QED
      BY <3>2, <3>3, ZenonT(30)
  <2> QED
    BY <2>1, <2>2, ZenonT(30)
<1> DEFINE t == slots[s].ticket
<1>2. /\ t \in DOMAIN outcome /\ outcome[t].op \in {"read", "verified", "empty"}
      /\ outcome[t].result = "pending"
  BY <1>1, SlotOwed
<1>3. outcome' = [outcome EXCEPT ![t].result = r] /\ index' = index /\ ~Store!Dead(outcome)
  BY <1>1, Sound
<1> HIDE DEF t
<1>4. Store!FinishRead(t)
  BY <1>2, <1>3, ZenonT(30) DEF Store!FinishRead, Store!Owed, Store!Complete, Store!Reads
<1> QED
  BY <1>2, <1>4 DEF Store!StoreNext

\* After a queue failure the pending operations are abandoned one by one.
LEMMA AbandonRefines ==
    ASSUME Inv, NEW s \in Slots, RetireFailed(s)
    PROVE  Store!StoreNext \/ UNCHANGED Store!storeVars
<1>1. CASE slots[s] = None
  BY <1>1 DEF RetireFailed, Store!storeVars
<1>2. CASE slots[s] # None
  <2> DEFINE t == slots[s].ticket
  <2>1. t \in DOMAIN outcome /\ outcome[t].op = slots[s].op /\ outcome[t].result = "pending"
    BY <1>2, SlotOwed
  <2>2. slots[s].op \in Ops
    <3>1. slots[s] \in Pending
      BY <1>2 DEF Inv, TypeOK, QueueType
    <3> QED
      BY <3>1 DEF Pending
  <2>3. outcome' = [outcome EXCEPT ![t].result = "failed"] /\ index' = index
    BY <1>2 DEF RetireFailed, Emit
  <2> HIDE DEF t
  <2>4. Store!Abandon(t)
    BY <2>1, <2>2, <2>3 DEF Store!Abandon, Store!Owed, Store!Complete, Store!Reads, Ops
  <2> QED
    BY <2>1, <2>4 DEF Store!StoreNext
<1> QED
  BY <1>1, <1>2

\* The steps that leave tickets and index alone are stutters of the store.
LEMMA StutterRefines ==
    ASSUME \/ EndMaintenance \/ ControlIo \/ TakeControl \/ Attach \/ TakeSegment \/ Device
           \/ RetireEnd \/ FlushSkip \/ FlushSubmit \/ StartControl \/ ReadsEnd \/ QueuePoll
           \/ QueueError \/ ReapEnd \/ RetireFailedEnd \/ PollBegin
           \/ \E bytes \in 0..1 : ReapControl(bytes)
           \/ \E s \in Slots : ReapWrite(s) \/ ReapMetadata(s)
           \/ UNCHANGED vars
    PROVE  UNCHANGED Store!storeVars
<1> USE DEF indexVars, ticketVars, Store!storeVars
<1>1. CASE EndMaintenance
  BY <1>1 DEF EndMaintenance
<1>2. CASE ControlIo
  BY <1>2 DEF ControlIo
<1>3. CASE TakeControl
  BY <1>3 DEF TakeControl
<1>4. CASE Attach
  BY <1>4 DEF Attach
<1>5. CASE TakeSegment
  BY <1>5 DEF TakeSegment
<1>6. CASE Device
  BY <1>6 DEF Device, DeviceComplete
<1>7. CASE RetireEnd
  BY <1>7 DEF RetireEnd
<1>8. CASE FlushSkip
  BY <1>8 DEF FlushSkip
<1>9. CASE FlushSubmit
  BY <1>9 DEF FlushSubmit
<1>10. CASE StartControl
  BY <1>10 DEF StartControl
<1>11. CASE ReadsEnd
  BY <1>11 DEF ReadsEnd
<1>12. CASE QueuePoll
  BY <1>12 DEF QueuePoll
<1>13. CASE QueueError
  BY <1>13 DEF QueueError
<1>14. CASE ReapEnd
  BY <1>14 DEF ReapEnd
<1>15. CASE RetireFailedEnd
  BY <1>15 DEF RetireFailedEnd
<1>16. CASE PollBegin
  BY <1>16 DEF PollBegin
<1>17. CASE \/ \E bytes \in 0..1 : ReapControl(bytes)
            \/ \E s \in Slots : ReapWrite(s) \/ ReapMetadata(s)
  BY <1>17 DEF ReapControl, ReapWrite, ReapMetadata
<1>18. CASE UNCHANGED vars
  BY <1>18 DEF vars
<1> QED
  BY <1>1, <1>2, <1>3, <1>4, <1>5, <1>6, <1>7, <1>8, <1>9, <1>10, <1>11, <1>12,
     <1>13, <1>14, <1>15, <1>16, <1>17, <1>18

\* The pipeline implements the ordered store: callers see only what OrderedStore allows,
\* whatever the interleaving of completions, failures and lifecycle requests.
THEOREM Refinement == Spec => ImplementsOrderedStore
<1>1. Init => Store!StoreInit
  BY DEF Init, Store!StoreInit
<1>2. Inv /\ Inv' /\ [Next]_vars => [Store!StoreNext]_(Store!storeVars)
  <2> SUFFICES ASSUME Inv, Inv', [Next]_vars
               PROVE  Store!StoreNext \/ UNCHANGED Store!storeVars
    OBVIOUS
  <2>1. CASE Api
    BY <2>1, AcceptRefines
  <2>2. CASE Owner
    <3>1. CASE WasteTicket \/ \E ticketed \in BOOLEAN : BeginMaintenance(ticketed)
      BY <3>1, AcceptRefines
    <3>2. CASE EndMaintenance \/ ControlIo \/ TakeControl \/ Attach \/ TakeSegment
      BY <3>2, StutterRefines
    <3>3. CASE \E frame \in Frames : Restore(frame)
      BY <3>3, RestoreRefines
    <3> QED
      BY <2>2, <3>1, <3>2, <3>3 DEF Owner
  <2>3. CASE Device \/ PollBegin \/ UNCHANGED vars
    BY <2>3, StutterRefines
  <2>4. CASE PollStep
    <3>1. CASE RetireWrite
      BY <3>1, RetireRefines
    <3>2. CASE FlushFinish \/ \E s \in Slots : ReapFlush(s)
      BY <3>2, FlushRefines
    <3>3. CASE \/ CompleteEmptyRead
               \/ \E s \in Slots, result \in {"ok", "err"} : ReapRead(s, result)
      BY <3>3, ReadRefines
    <3>4. CASE \E s \in Slots : RetireFailed(s)
      BY <3>4, AbandonRefines
    <3>5. CASE \/ RetireEnd \/ FlushSkip \/ FlushSubmit \/ StartControl \/ ReadsEnd \/ QueuePoll
               \/ QueueError \/ ReapEnd \/ RetireFailedEnd
               \/ \E bytes \in 0..1 : ReapControl(bytes)
               \/ \E s \in Slots : ReapWrite(s) \/ ReapMetadata(s)
      BY <3>5, StutterRefines
    <3> QED
      BY <2>4, <3>1, <3>2, <3>3, <3>4, <3>5, SMTT(30) DEF PollStep, Reap
  <2> QED
    BY <2>1, <2>2, <2>3, <2>4 DEF Next
<1> QED
  BY <1>1, <1>2, Invariance, PTL DEF Spec, ImplementsOrderedStore, Store!StoreSpec

=============================================================================
