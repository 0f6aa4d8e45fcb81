------------------------------ MODULE Delivery ------------------------------
(***************************************************************************)
(* Batched completion delivery of one disk (moat-cache-store,              *)
(* delivery.rs).  The worker pushes actions and flushes them in batches; a *)
(* driver task on the application's executor runs them.  If the executor   *)
(* drops the task, whoever finds no one draining runs the batches itself.  *)
(* One step per lock section, one per action run.  Actions are numbered in *)
(* the order they are pushed.                                              *)
(***************************************************************************)
EXTENDS Naturals, Sequences, SequencesExt

CONSTANT MaxActions     \* bound: actions pushed in one behaviour

VARIABLES
    pushed,             \* actions pushed so far
    pending,            \* Delivery::pending
    batches, producer_closed, driver_alive, draining,   \* Queue, under the lock
    registered,         \* whether AtomicWaker holds the task's waker
    scheduled,          \* the executor will poll the task again
    pc,                 \* where each thread is
    batch,              \* the batch a thread is running
    delivered           \* history: the actions run, in order

queueVars == <<batches, producer_closed, driver_alive, draining>>
vars == <<pushed, pending, queueVars, registered, scheduled, pc, batch, delivered>>

\* The worker's thread, and whichever thread polls or drops the driver task.
Threads == {"producer", "driver"}

Init ==
    /\ pushed = 0 /\ pending = <<>>
    /\ batches = <<>> /\ producer_closed = FALSE /\ driver_alive = TRUE /\ draining = FALSE
    /\ registered = FALSE /\ scheduled = TRUE
    /\ pc = [t \in Threads |-> "idle"] /\ batch = [t \in Threads |-> <<>>]
    /\ delivered = <<>>

Goto(t, place) == pc' = [pc EXCEPT ![t] = place]

(***************************************************************************)
(* The producer                                                            *)
(***************************************************************************)
Push ==
    /\ pc["producer"] = "idle" /\ pushed < MaxActions
    /\ pushed' = pushed + 1
    /\ pending' = Append(pending, pushed')
    /\ UNCHANGED <<queueVars, registered, scheduled, pc, batch, delivered>>

\* Mutant: the producer drains although another thread still does.
FlushDrainsAnyway ==
    /\ pc["producer"] = "idle" /\ pending # <<>>
    /\ batches' = Append(batches, pending)
    /\ pending' = <<>>
    /\ draining' = (draining \/ ~driver_alive)
    /\ Goto("producer", IF ~driver_alive THEN "drain" ELSE "wake")
    /\ UNCHANGED <<pushed, producer_closed, driver_alive, registered, scheduled, batch, delivered>>

\* The lock section of flush: the producer drains only if nobody else will.
Flush ==
    LET fallback == ~driver_alive /\ ~draining IN
    /\ pc["producer"] = "idle" /\ pending # <<>>
    /\ batches' = Append(batches, pending)
    /\ pending' = <<>>
    /\ draining' = (draining \/ fallback)
    /\ Goto("producer", IF fallback THEN "drain" ELSE "wake")
    /\ UNCHANGED <<pushed, producer_closed, driver_alive, registered, scheduled, batch, delivered>>

Wake(from, to) ==
    /\ pc["producer"] = from
    /\ scheduled' = (scheduled \/ registered)
    /\ registered' = FALSE
    /\ Goto("producer", to)
    /\ UNCHANGED <<pushed, pending, queueVars, batch, delivered>>

\* Drop for Delivery, after its last flush.
CloseProducer ==
    /\ pc["producer"] = "idle" /\ pending = <<>>
    /\ producer_closed' = TRUE
    /\ Goto("producer", "wake_closed")
    /\ UNCHANGED <<pushed, pending, batches, driver_alive, draining, registered, scheduled, batch, delivered>>

(***************************************************************************)
(* Running a batch; drain_fallback takes batches until there is none.      *)
(***************************************************************************)
Run(t) ==
    /\ pc[t] \in {"run", "run_drain"}
    /\ delivered' = Append(delivered, Head(batch[t]))
    /\ batch' = [batch EXCEPT ![t] = Tail(@)]
    /\ IF Len(batch[t]) > 1 THEN UNCHANGED <<pc, scheduled>>
       ELSE IF pc[t] = "run_drain" THEN Goto(t, "drain") /\ UNCHANGED scheduled
       ELSE Goto(t, "idle") /\ scheduled' = TRUE
    /\ UNCHANGED <<pushed, pending, queueVars, registered>>

Take(t, next) ==
    /\ batches # <<>>
    /\ batch' = [batch EXCEPT ![t] = Head(batches)]
    /\ batches' = Tail(batches)
    /\ Goto(t, next)

DrainTake(t) ==
    /\ pc[t] = "drain"
    /\ Take(t, "run_drain")
    /\ UNCHANGED <<pushed, pending, producer_closed, driver_alive, draining, registered, scheduled, delivered>>

\* Mutant: draining is not cleared.
DrainEndStillDraining(t) ==
    /\ pc[t] = "drain" /\ batches = <<>>
    /\ Goto(t, IF t = "producer" THEN "idle" ELSE "gone")
    /\ UNCHANGED <<pushed, pending, queueVars, registered, scheduled, batch, delivered>>

DrainEnd(t) ==
    /\ pc[t] = "drain" /\ batches = <<>>
    /\ draining' = FALSE
    /\ Goto(t, IF t = "producer" THEN "idle" ELSE "gone")
    /\ UNCHANGED <<pushed, pending, batches, producer_closed, driver_alive, registered, scheduled, batch, delivered>>

(***************************************************************************)
(* The driver task                                                         *)
(***************************************************************************)
Register ==
    /\ pc["driver"] = "idle" /\ scheduled
    /\ scheduled' = FALSE /\ registered' = TRUE
    /\ Goto("driver", "poll")
    /\ UNCHANGED <<pushed, pending, queueVars, batch, delivered>>

PollTake ==
    /\ pc["driver"] = "poll"
    /\ Take("driver", "run")
    /\ UNCHANGED <<pushed, pending, producer_closed, driver_alive, draining, registered, scheduled, delivered>>

\* Pending, or Ready once the producer is gone; the executor then drops the task.
PollEmpty ==
    /\ pc["driver"] = "poll" /\ batches = <<>>
    /\ Goto("driver", IF producer_closed THEN "ready" ELSE "idle")
    /\ UNCHANGED <<pushed, pending, queueVars, registered, scheduled, batch, delivered>>

\* Drop for Driver, when it is ready or whenever the executor gives it up.
DropDriver ==
    /\ pc["driver"] \in {"idle", "ready"}
    /\ driver_alive' = FALSE /\ draining' = TRUE
    /\ Goto("driver", IF draining THEN "gone" ELSE "drain")
    /\ registered' = FALSE /\ scheduled' = FALSE
    /\ UNCHANGED <<pushed, pending, batches, producer_closed, batch, delivered>>

(***************************************************************************)
(* The specification                                                       *)
(***************************************************************************)
Producer == Push \/ Flush \/ Wake("wake", "idle") \/ CloseProducer \/ Wake("wake_closed", "gone")
Thread(t) == Run(t) \/ DrainTake(t) \/ DrainEnd(t)
Driver == Register \/ PollTake \/ PollEmpty

Next == Producer \/ (\E t \in Threads : Thread(t)) \/ Driver \/ DropDriver

\* The worker flushes what it pushed and finishes what it started; the executor polls a woken
\* task and finishes polling or dropping it, but need not ever drop it.
Spec ==
    /\ Init /\ [][Next]_vars
    /\ WF_vars(Flush \/ Wake("wake", "idle") \/ Wake("wake_closed", "gone"))
    /\ \A t \in Threads : WF_vars(Thread(t))
    /\ WF_vars(Driver)

(***************************************************************************)
(* Properties                                                              *)
(***************************************************************************)
\* Actions run in the order they were pushed and each at most once, whichever threads run them:
\* the draining flag lets only one thread at a time take batches after the driver is gone.
DeliveredInOrder == \A i \in DOMAIN delivered : delivered[i] = i

\* Every action pushed is run, with the driver polled, dropped in the middle, or gone before:
\* no wakeup is lost and no batch is left behind by the thread that stops draining.
AllDelivered == \A n \in 1..MaxActions : pushed >= n ~> Contains(delivered, n)
=============================================================================
