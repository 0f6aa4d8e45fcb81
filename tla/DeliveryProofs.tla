--------------------------- MODULE DeliveryProofs ---------------------------
(***************************************************************************)
(* Actions run in order and at most once, for any number of actions and    *)
(* any batches.  Where every action is, from the one run first to the one  *)
(* pushed last: delivered, in a batch being run, in batches, pending.  The *)
(* invariant says where each of these stretches begins, so that none of    *)
(* it speaks of a concatenation.                                           *)
(***************************************************************************)
EXTENDS Delivery, Integers, TLAPS

USE Zenon

Numbers == Seq(Nat)

Types ==
    /\ pushed \in Nat /\ pending \in Numbers /\ delivered \in Numbers
    /\ batches \in Seq(Numbers)
    /\ draining \in BOOLEAN /\ driver_alive \in BOOLEAN
    /\ pc \in [Threads -> {"idle", "wake", "wake_closed", "gone", "drain", "run", "run_drain",
                           "poll", "ready"}]
    /\ batch \in [Threads -> Numbers]

\* Who may take batches: the driver while it lives, and afterwards whoever set draining.
Turns ==
    /\ pc["producer"] \in {"idle", "wake", "wake_closed", "gone", "drain", "run_drain"}
    /\ driver_alive <=> pc["driver"] \in {"idle", "poll", "run", "ready"}
    /\ pc["driver"] # "wake" /\ pc["driver"] # "wake_closed"
    /\ draining <=> \E t \in Threads : pc[t] \in {"drain", "run_drain"}
    /\ pc["producer"] \in {"drain", "run_drain"} => pc["driver"] = "gone"
    /\ \A t \in Threads : batch[t] # <<>> <=> pc[t] \in {"run", "run_drain"}

\* The last action that has been taken from batches, and the last that has been flushed.
Taken == Len(delivered) + Len(batch["producer"]) + Len(batch["driver"])
Flushed == pushed - Len(pending)

First(j) == batches[j][1]
After(j) == batches[j][1] + Len(batches[j])

InPlace ==
    /\ \A i \in 1..Len(delivered) : delivered[i] = i
    /\ \A t \in Threads : \A i \in 1..Len(batch[t]) : batch[t][i] = Len(delivered) + i
    /\ \A j \in 1..Len(batches) :
         /\ batches[j] # <<>>
         /\ \A i \in 1..Len(batches[j]) : batches[j][i] = First(j) + i - 1
         /\ j = 1 => First(j) = Taken + 1
         /\ j > 1 => First(j) = After(j - 1)
         /\ j = Len(batches) => After(j) = Flushed + 1
    /\ batches = <<>> => Taken = Flushed
    /\ \A i \in 1..Len(pending) : pending[i] = Flushed + i

DeliveryInv == Types /\ Turns /\ InPlace

\* Initially nothing has been pushed (Delivery::new).
LEMMA InitEstablishes == Init => DeliveryInv
<1> SUFFICES ASSUME Init PROVE DeliveryInv  OBVIOUS
<1>1. <<>> \in Seq(Nat) /\ <<>> \in Seq(Seq(Nat)) /\ Len(<<>>) = 0  BY SMT
<1>2. batch["producer"] = <<>> /\ batch["driver"] = <<>>  BY DEF Init, Threads
<1>3. Types
  <2>1. batch \in [Threads -> Numbers]  BY <1>1 DEF Init, Numbers
  <2>2. pc \in [Threads -> {"idle", "wake", "wake_closed", "gone", "drain", "run", "run_drain",
                            "poll", "ready"}]
    BY DEF Init
  <2> QED  BY <1>1, <2>1, <2>2 DEF Init, Types, Numbers
<1>4. Turns  BY DEF Init, Turns, Threads
<1>5. InPlace
  <2>1. Taken = 0 /\ Flushed = 0
    <3>1. Len(delivered) = 0 /\ Len(pending) = 0 /\ pushed = 0  BY <1>1 DEF Init
    <3>2. Len(batch["producer"]) = 0 /\ Len(batch["driver"]) = 0  BY <1>1, <1>2
    <3> QED  BY <3>1, <3>2, SMT DEF Taken, Flushed
  <2>2. \A t \in Threads : Len(batch[t]) = 0  BY <1>1, <1>2 DEF Threads
  <2> QED  BY <1>1, <2>1, <2>2, SMT DEF Init, InPlace
<1> QED  BY <1>3, <1>4, <1>5 DEF DeliveryInv

\* Steps that move no action, such as waking, registering and the end of draining, keep every
\* action in its place.
LEMMA Unmoved ==
    ASSUME InPlace, UNCHANGED <<pushed, pending, batches, batch, delivered>>
    PROVE  InPlace'
BY DEF InPlace, Taken, Flushed, First, After

\* A pushed action (Delivery::push) continues the pending ones.
LEMMA PushKeeps == ASSUME DeliveryInv, Push PROVE DeliveryInv'
<1> USE DEF DeliveryInv
<1>1. Types'  BY SMT DEF Push, Types, Numbers, queueVars
<1>2. Turns'  BY DEF Push, Turns, queueVars
<1>3. InPlace'
  <2>1. /\ Len(pending') = Len(pending) + 1 /\ Flushed' = Flushed
        /\ \A i \in 1..Len(pending) : pending'[i] = pending[i]
        /\ pending'[Len(pending) + 1] = pushed + 1
    BY SMT DEF Push, Types, Numbers, Flushed
  <2>2. \A i \in 1..Len(pending') : pending'[i] = Flushed' + i
    <3> SUFFICES ASSUME NEW i \in 1..Len(pending') PROVE pending'[i] = Flushed' + i  OBVIOUS
    <3>1. Len(pending) \in Nat /\ pushed \in Nat  BY SMT DEF Types, Numbers
    <3>2. CASE i \in 1..Len(pending)  BY <2>1, <3>2 DEF InPlace
    <3>3. CASE i = Len(pending) + 1  BY <2>1, <3>1, <3>3, SMT DEF Flushed
    <3> QED  BY <2>1, <3>1, <3>2, <3>3, SMT
  <2> QED  BY <2>1, <2>2 DEF Push, InPlace, Taken, First, After, queueVars
<1> QED  BY <1>1, <1>2, <1>3

\* The flushed batch continues where the batch before it ends.
LEMMA FlushKeeps == ASSUME DeliveryInv, Flush PROVE DeliveryInv'
<1> USE DEF DeliveryInv
<1>1. Types'  BY SMT DEF Flush, Goto, Types, Numbers, Threads
<1>2. Turns'  BY DEF Flush, Goto, Types, Turns, Threads
<1>3. InPlace'
  <2> DEFINE n == Len(batches) + 1
  <2>1. /\ Len(batches') = n /\ batches'[n] = pending /\ n \in Nat \ {0}
        /\ \A j \in 1..Len(batches) : batches'[j] = batches[j]
    BY SMT DEF Flush, Types, Numbers
  <2>2. /\ Len(pending) \in Nat \ {0} /\ pending[1] = Flushed + 1
        /\ pending' = <<>> /\ Flushed' = pushed /\ Taken' = Taken
    BY SMT DEF Flush, InPlace, Types, Numbers, Flushed, Taken
  <2>3. ASSUME NEW j \in 1..Len(batches')
        PROVE  /\ batches'[j] # <<>>
               /\ \A i \in 1..Len(batches'[j]) : batches'[j][i] = First(j)' + i - 1
               /\ j = 1 => First(j)' = Taken' + 1
               /\ j > 1 => First(j)' = After(j - 1)'
               /\ j = Len(batches') => After(j)' = Flushed' + 1
    <3>1. CASE j < n
      <4>1. /\ j \in 1..Len(batches) /\ batches'[j] = batches[j]
            /\ j > 1 => j - 1 \in 1..Len(batches) /\ batches'[j - 1] = batches[j - 1]
        BY <2>1, <3>1, SMT
      <4> QED  BY <2>1, <2>2, <3>1, <4>1, SMT DEF InPlace, First, After
    <3>2. CASE j = n
      <4>1. batches'[j] = pending /\ pending # <<>> /\ First(j)' = Flushed + 1
        BY <2>1, <2>2, <3>2 DEF Flush, First
      <4>2. \A i \in 1..Len(pending) : pending[i] = Flushed + i  BY DEF InPlace
      <4>3. Flushed \in Int /\ pushed = Flushed + Len(pending)
        BY <2>2, SMT DEF Flushed, Types
      <4>4. \A i \in 1..Len(pending) : pending[i] = First(j)' + i - 1
        BY <2>2, <4>1, <4>2, <4>3, SMT
      <4>5. j = 1 => First(j)' = Taken' + 1
        <5> SUFFICES ASSUME j = 1 PROVE First(j)' = Taken' + 1  OBVIOUS
        <5>1. batches = <<>>  BY <2>1, <3>2, SMT DEF Types
        <5> QED  BY <2>2, <4>1, <5>1 DEF InPlace
      <4>6. j > 1 => First(j)' = After(j - 1)'
        <5> SUFFICES ASSUME j > 1 PROVE First(j)' = After(j - 1)'  OBVIOUS
        <5>1. j - 1 \in 1..Len(batches) /\ j - 1 = Len(batches) /\ batches'[j - 1] = batches[j - 1]
          BY <2>1, <3>2, SMT
        <5> QED  BY <4>1, <5>1, SMT DEF InPlace, After
      <4>7. After(j)' = Flushed' + 1  BY <2>2, <4>1, <4>3, SMT DEF After, First
      <4> QED  BY <4>1, <4>4, <4>5, <4>6, <4>7
    <3> QED  BY <2>1, <3>1, <3>2, SMT
  <2> QED  BY <2>1, <2>2, <2>3, SMT DEF Flush, InPlace
<1> QED  BY <1>1, <1>2, <1>3

\* The thread that has the turn runs the first action that has not run yet.
LEMMA RunKeeps ==
    ASSUME DeliveryInv, NEW t \in Threads, Run(t) PROVE DeliveryInv'
<1> USE DEF DeliveryInv
<1> DEFINE d == Len(delivered)
           other == IF t = "producer" THEN "driver" ELSE "producer"
<1>1. /\ other \in Threads /\ other # t /\ Threads = {t, other}
      /\ batch[t] # <<>> /\ batch[other] = <<>> /\ batch[t] \in Seq(Nat)
      /\ batch'[t] = Tail(batch[t]) /\ batch'[other] = <<>>
      /\ d \in Nat /\ Len(batch[t]) \in Nat \ {0} /\ Len(batch'[t]) = Len(batch[t]) - 1
      /\ Head(batch[t]) = d + 1
  <2>1. other \in Threads /\ other # t /\ Threads = {t, other}  BY DEF Threads
  <2>2. batch[t] # <<>> /\ batch[t] \in Seq(Nat) /\ d \in Nat
    BY SMT DEF Run, Types, Turns, Numbers
  <2>3. batch[other] = <<>>  BY <2>1 DEF Run, Types, Turns, Threads
  <2>4. batch'[t] = Tail(batch[t]) /\ batch'[other] = <<>>  BY <2>1, <2>3 DEF Run, Types
  <2>5. Len(batch[t]) \in Nat \ {0} /\ Len(batch'[t]) = Len(batch[t]) - 1  BY <2>2, <2>4, SMT
  <2>6. batch[t][1] = d + 1  BY <2>5, SMT DEF InPlace
  <2>7. Head(batch[t]) = d + 1  BY <2>2, <2>6, SMT
  <2> QED  BY <2>1, <2>2, <2>3, <2>4, <2>5, <2>7
<1>2. Types'
  <2>1. delivered' \in Numbers
    <3>1. delivered' = Append(delivered, Head(batch[t]))  BY DEF Run
    <3>2. delivered \in Seq(Nat)  BY DEF Types, Numbers
    <3>3. Head(batch[t]) \in Nat  BY <1>1, SMT
    <3> QED  BY <3>1, <3>2, <3>3, SMT DEF Numbers
  <2>2. batch' \in [Threads -> Numbers]
    <3>1. Tail(batch[t]) \in Numbers  BY <1>1, SMT DEF Numbers
    <3> QED  BY <3>1 DEF Run, Types
  <2>3. pc' \in [Threads -> {"idle", "wake", "wake_closed", "gone", "drain", "run", "run_drain",
                             "poll", "ready"}]
    BY DEF Run, Goto, Types
  <2> QED  BY <2>1, <2>2, <2>3 DEF Run, Types, queueVars
<1>3. Turns'
  <2>1. CASE Len(batch[t]) > 1
    <3>1. batch'[t] # <<>>
      <4>1. Len(batch'[t]) > 0  BY <1>1, <2>1, SMT
      <4>2. Len(<<>>) = 0  OBVIOUS
      <4> QED  BY <4>1, <4>2, SMT
    <3> QED  BY <1>1, <2>1, <3>1 DEF Run, Turns, queueVars
  <2>2. CASE ~(Len(batch[t]) > 1)
    <3>1. batch'[t] = <<>>  BY <1>1, <2>2, SMT
    <3>2. /\ pc'[other] = pc[other]
          /\ pc'[t] = IF pc[t] = "run_drain" THEN "drain" ELSE "idle"
      BY <1>1, <2>2 DEF Run, Goto, Types
    <3> QED  BY <1>1, <3>1, <3>2 DEF Run, Types, Turns, Threads, queueVars
  <2> QED  BY <2>1, <2>2
<1>4. InPlace'
  <2>1. /\ Len(delivered') = d + 1 /\ delivered'[d + 1] = d + 1
        /\ \A i \in 1..d : delivered'[i] = delivered[i]
    BY <1>1, SMT DEF Run, Types, Numbers
  <2>2. \A i \in 1..Len(delivered') : delivered'[i] = i
    BY <1>1, <2>1, SMT DEF InPlace
  <2>3. \A i \in 1..Len(batch'[t]) : batch'[t][i] = batch[t][i + 1]
    BY <1>1, SMT
  <2>4. \A i \in 1..Len(batch'[t]) : batch'[t][i] = Len(delivered') + i
    BY <1>1, <2>1, <2>3, SMT DEF InPlace
  <2>5. Taken' = Taken
    <3>1. Len(batch[other]) = 0 /\ Len(batch'[other]) = 0  BY <1>1
    <3>2. /\ d \in Nat /\ Len(batch[t]) \in Nat \ {0} /\ Len(delivered') = d + 1
          /\ Len(batch'[t]) = Len(batch[t]) - 1
      BY <1>1, <2>1
    <3>3. CASE t = "producer"
      <4>1. Len(batch["driver"]) = 0 /\ Len(batch'["driver"]) = 0  BY <3>1, <3>3
      <4>2. /\ Len(batch["producer"]) \in Nat \ {0}
            /\ Len(batch'["producer"]) = Len(batch["producer"]) - 1
        BY <3>2, <3>3
      <4> HIDE DEF other
      <4>3. Taken = d + Len(batch["producer"])  BY <3>2, <4>1, <4>2, SMT DEF Taken
      <4>4. Taken' = (d + 1) + (Len(batch["producer"]) - 1)
        <5>1. Taken' = Len(delivered') + Len(batch'["producer"]) + Len(batch'["driver"])  BY
                                                                                             DEF Taken
        <5>2. Len(delivered') = d + 1  BY <3>2
        <5> HIDE DEF d
        <5> QED  BY <3>2, <4>1, <4>2, <5>1, <5>2, SMT
      <4>5. (d + 1) + (Len(batch["producer"]) - 1) = d + Len(batch["producer"])
        <5>1. \A m, n \in Nat : (m + 1) + (n - 1) = m + n  BY SMT
        <5> HIDE DEF d
        <5> QED  BY <3>2, <4>2, <5>1
      <4> QED  BY <4>3, <4>4, <4>5
    <3>4. CASE t = "driver"
      <4>1. Len(batch["producer"]) = 0 /\ Len(batch'["producer"]) = 0  BY <3>1, <3>4
      <4>2. /\ Len(batch["driver"]) \in Nat \ {0}
            /\ Len(batch'["driver"]) = Len(batch["driver"]) - 1
        BY <3>2, <3>4
      <4> HIDE DEF other
      <4>3. Taken = d + Len(batch["driver"])  BY <3>2, <4>1, <4>2, SMT DEF Taken
      <4>4. Taken' = (d + 1) + (Len(batch["driver"]) - 1)
        <5>1. Taken' = Len(delivered') + Len(batch'["producer"]) + Len(batch'["driver"])  BY
                                                                                             DEF Taken
        <5>2. Len(delivered') = d + 1  BY <3>2
        <5> HIDE DEF d
        <5> QED  BY <3>2, <4>1, <4>2, <5>1, <5>2, SMT
      <4>5. (d + 1) + (Len(batch["driver"]) - 1) = d + Len(batch["driver"])
        <5>1. \A m, n \in Nat : (m + 1) + (n - 1) = m + n  BY SMT
        <5> HIDE DEF d
        <5> QED  BY <3>2, <4>2, <5>1
      <4> QED  BY <4>3, <4>4, <4>5
    <3> QED  BY <3>3, <3>4 DEF Threads
  <2> QED
    BY <1>1, <2>2, <2>4, <2>5, SMT DEF Run, InPlace, Flushed, First, After, queueVars
<1> QED  BY <1>2, <1>3, <1>4

\* Taking a batch moves the first of batches to a thread, while no other thread runs one.
LEMMA TakeInPlace ==
    ASSUME DeliveryInv, NEW t \in Threads, NEW next, Take(t, next),
           \A u \in Threads : batch[u] = <<>>,
           UNCHANGED <<pushed, pending, delivered>>
    PROVE  /\ InPlace'
           /\ Head(batches) # <<>>
           /\ batch' \in [Threads -> Numbers] /\ batches' \in Seq(Numbers)
<1> USE DEF DeliveryInv
<1> DEFINE other == IF t = "producer" THEN "driver" ELSE "producer"
           b == Head(batches)
<1>1. /\ other \in Threads /\ other # t /\ Threads = {t, other}
      /\ batch' = [batch EXCEPT ![t] = b] /\ batches' = Tail(batches) /\ batches # <<>>
      /\ batches \in Seq(Numbers)
  BY DEF Threads, Take, Types
<1>2. /\ b = batches[1] /\ b \in Numbers /\ Len(batches) \in Nat \ {0}
      /\ Len(batches') = Len(batches) - 1 /\ batches' \in Seq(Numbers)
      /\ \A j \in 1..Len(batches') : batches'[j] = batches[j + 1]
  BY <1>1, SMT
<1>3. batch'[t] = b /\ batch'[other] = <<>> /\ batch' \in [Threads -> Numbers]
  BY <1>1, <1>2 DEF Types
<1>4. Len(delivered) \in Nat /\ Taken = Len(delivered) /\ Len(b) \in Nat
  <2>1. Len(batch["producer"]) = 0 /\ Len(batch["driver"]) = 0  BY SMT DEF Threads
  <2>2. Len(delivered) \in Nat /\ Len(b) \in Nat  BY <1>2, SMT DEF Types, Numbers
  <2> QED  BY <2>1, <2>2, SMT DEF Taken
<1>5. /\ b # <<>> /\ First(1) = Len(delivered) + 1
      /\ \A i \in 1..Len(b) : b[i] = Len(delivered) + i
  <2>1. 1 \in 1..Len(batches)  BY <1>2, SMT
  <2>2. /\ batches[1] # <<>> /\ First(1) = Taken + 1
        /\ \A i \in 1..Len(batches[1]) : batches[1][i] = First(1) + i - 1
    BY <2>1 DEF InPlace
  <2> HIDE DEF b
  <2> QED  BY <1>2, <1>4, <2>2, SMT
<1>6. Taken' = Len(delivered) + Len(b)
  <2>1. Len(batch'[other]) = 0 /\ Len(batch'[t]) = Len(b)  BY <1>3
  <2>2. Taken' = Len(delivered) + Len(batch'[t]) + Len(batch'[other])
    <3>1. CASE t = "producer"
      <4>1. other = "driver"  BY <3>1
      <4> QED  BY <3>1, <4>1 DEF Taken
    <3>2. CASE t = "driver"
      <4>1. other = "producer"  BY <3>2
      <4>2. Len(batch'["producer"]) = 0 /\ Len(batch'["driver"]) \in Nat
        BY <1>4, <2>1, <3>2, <4>1
      <4> HIDE DEF other
      <4> QED  BY <1>4, <3>2, <4>1, <4>2, SMT DEF Taken
    <3> QED  BY <3>1, <3>2 DEF Threads
  <2> HIDE DEF b, other
  <2> QED  BY <1>4, <2>1, <2>2, SMT
<1>7. After(1) = Taken' + 1
  <2>1. After(1) = First(1) + Len(b)  BY <1>2 DEF First, After
  <2> HIDE DEF b
  <2> QED  BY <1>4, <1>5, <1>6, <2>1, SMT
<1>8. ASSUME NEW j \in 1..Len(batches')
      PROVE  /\ batches'[j] # <<>>
             /\ \A i \in 1..Len(batches'[j]) : batches'[j][i] = First(j)' + i - 1
             /\ j = 1 => First(j)' = Taken' + 1
             /\ j > 1 => First(j)' = After(j - 1)'
             /\ j = Len(batches') => After(j)' = Flushed' + 1
  <2>1. /\ j + 1 \in 1..Len(batches) /\ j + 1 > 1 /\ (j + 1) - 1 = j
        /\ batches'[j] = batches[j + 1]
        /\ j > 1 => batches'[j - 1] = batches[j]
        /\ j = Len(batches') => j + 1 = Len(batches)
    BY <1>2, SMT
  <2>2. First(j + 1) = After(j)  BY <2>1 DEF InPlace
  <2> QED  BY <1>7, <2>1, <2>2, SMT DEF InPlace, First, After, Flushed
<1>9. batches' = <<>> => Taken' = Flushed'
  <2> SUFFICES ASSUME batches' = <<>> PROVE Taken' = Flushed'  OBVIOUS
  <2>1. Len(batches) = 1  BY <1>2, SMT
  <2>2. After(1) = Flushed + 1  BY <2>1, SMT DEF InPlace
  <2>3. Taken' \in Int /\ Flushed \in Int /\ Flushed' = Flushed
    BY <1>4, <1>6, SMT DEF Flushed, Types, Numbers
  <2> QED  BY <1>7, <2>2, <2>3, SMT
<1>10. \A u \in Threads : \A i \in 1..Len(batch'[u]) : batch'[u][i] = Len(delivered') + i
  <2>1. \A i \in 1..Len(batch'[t]) : batch'[t][i] = Len(delivered') + i  BY <1>3, <1>5
  <2>2. Len(batch'[other]) = 0  BY <1>3
  <2> HIDE DEF b, other
  <2> QED  BY <1>1, <2>1, <2>2, SMT
<1> QED  BY <1>2, <1>3, <1>5, <1>8, <1>9, <1>10 DEF InPlace, Flushed

\* drain_fallback and Driver::poll take a batch when they have the turn.
LEMMA TakeKeeps ==
    ASSUME DeliveryInv, NEW t \in Threads,
           DrainTake(t) \/ (t = "driver" /\ PollTake)
    PROVE  DeliveryInv'
<1> USE DEF DeliveryInv
<1> DEFINE other == IF t = "producer" THEN "driver" ELSE "producer"
           next == IF pc[t] = "drain" THEN "run_drain" ELSE "run"
<1>1. /\ Take(t, next) /\ pc[t] \in {"drain", "poll"} /\ (pc[t] = "poll" => t = "driver")
      /\ UNCHANGED <<pushed, pending, delivered, draining, driver_alive>>
  BY DEF DrainTake, PollTake
<1>2. other \in Threads /\ other # t /\ Threads = {t, other}  BY DEF Threads
<1>3. batch[t] = <<>> /\ batch[other] = <<>>  BY <1>1, <1>2 DEF Turns, Threads
<1>4. /\ InPlace' /\ Head(batches) # <<>>
      /\ batch' \in [Threads -> Numbers] /\ batches' \in Seq(Numbers)
  <2>1. \A u \in Threads : batch[u] = <<>>  BY <1>2, <1>3
  <2> HIDE DEF next, DeliveryInv
  <2> QED  BY <1>1, <2>1, TakeInPlace
<1>5. /\ pc' = [pc EXCEPT ![t] = next]
      /\ pc'[t] = next /\ pc'[other] = pc[other]
      /\ batch'[t] # <<>> /\ batch'[other] = <<>>
  BY <1>1, <1>2, <1>3, <1>4 DEF Take, Goto, Types
<1>6. Types'  BY <1>1, <1>4, <1>5 DEF Types
<1>7. Turns'
  <2>1. CASE t = "producer"  BY <1>1, <1>3, <1>5, <2>1 DEF Turns, Threads
  <2>2. CASE t = "driver"  BY <1>1, <1>3, <1>5, <2>2, SMT DEF Turns, Threads
  <2> QED  BY <2>1, <2>2 DEF Threads
<1> QED  BY <1>4, <1>6, <1>7

\* Waking, polling in vain, closing and the end of draining move no action; who drains
\* follows the flags.
LEMMA FlagStepKeeps ==
    ASSUME DeliveryInv,
           \/ Wake("wake", "idle") \/ Wake("wake_closed", "gone") \/ CloseProducer
           \/ Register \/ PollEmpty \/ DropDriver \/ \E t \in Threads : DrainEnd(t)
    PROVE  DeliveryInv'
<1> USE DEF DeliveryInv
<1>1. UNCHANGED <<pushed, pending, batches, batch, delivered>>
  BY DEF Wake, CloseProducer, Register, PollEmpty, DropDriver, DrainEnd, queueVars
<1>2. InPlace'  BY <1>1, Unmoved
<1>3. CASE Wake("wake", "idle") \/ Wake("wake_closed", "gone") \/ CloseProducer
  <2>1. Types'  BY <1>1, <1>3 DEF Wake, CloseProducer, Goto, Types, Threads, queueVars
  <2>2. Turns'  BY <1>1, <1>3, SMT DEF Wake, CloseProducer, Goto, Types, Turns, Threads, queueVars
  <2> QED  BY <1>2, <2>1, <2>2
<1>4. CASE Register \/ PollEmpty
  <2>1. Types'  BY <1>1, <1>4 DEF Register, PollEmpty, Goto, Types, Threads, queueVars
  <2>2. Turns'  BY <1>1, <1>4, SMT DEF Register, PollEmpty, Goto, Types, Turns, Threads, queueVars
  <2> QED  BY <1>2, <2>1, <2>2
<1>5. CASE DropDriver
  <2>1. Types'  BY <1>1, <1>5 DEF DropDriver, Goto, Types, Threads
  <2>2. Turns'  BY <1>1, <1>5 DEF DropDriver, Goto, Types, Turns, Threads
  <2> QED  BY <1>2, <2>1, <2>2
<1>6. CASE \E t \in Threads : DrainEnd(t)
  <2>1. Types'
    <3>1. PICK t \in Threads : DrainEnd(t)  BY <1>6
    <3>2. CASE t = "producer"  BY <1>1, <3>1, <3>2 DEF DrainEnd, Goto, Types, Threads
    <3>3. CASE t = "driver"  BY <1>1, <3>1, <3>3 DEF DrainEnd, Goto, Types, Threads
    <3> QED  BY <3>1, <3>2, <3>3 DEF Threads
  <2>2. Turns'  BY <1>1, <1>6, SMT DEF DrainEnd, Goto, Types, Turns, Threads
  <2> QED  BY <1>2, <2>1, <2>2
<1> QED  BY <1>3, <1>4, <1>5, <1>6

\* Every step of the worker, of the executor and of a draining thread keeps the invariant.
LEMMA NextKeeps == DeliveryInv /\ [Next]_vars => DeliveryInv'
<1> SUFFICES ASSUME DeliveryInv, [Next]_vars PROVE DeliveryInv'  OBVIOUS
<1>1. CASE Producer
  BY <1>1, PushKeeps, FlushKeeps, FlagStepKeeps DEF Producer
<1>2. CASE \E t \in Threads : Thread(t)
  <2>1. PICK t \in Threads : Thread(t)  BY <1>2
  <2>2. CASE Run(t)  BY <2>2, RunKeeps
  <2>3. CASE DrainTake(t)  BY <2>3, TakeKeeps
  <2>4. CASE DrainEnd(t)  BY <2>4, FlagStepKeeps
  <2> QED  BY <2>1, <2>2, <2>3, <2>4 DEF Thread
<1>3. CASE Driver
  <2>1. "driver" \in Threads  BY DEF Threads
  <2>2. CASE PollTake  BY <2>1, <2>2, TakeKeeps
  <2>3. CASE Register \/ PollEmpty  BY <2>3, FlagStepKeeps
  <2> QED  BY <1>3, <2>2, <2>3 DEF Driver
<1>4. CASE DropDriver  BY <1>4, FlagStepKeeps
<1>5. CASE UNCHANGED vars
  BY <1>5, Unmoved DEF DeliveryInv, Types, Turns, vars, queueVars
<1> QED  BY <1>1, <1>2, <1>3, <1>4, <1>5 DEF Next

\* However many actions are pushed, in whatever batches, and whenever the executor polls or
\* drops the driver task: actions run in the order in which the worker pushed them, and none
\* runs twice (Shared::drain_fallback, Delivery::flush, Driver::poll and its drop).
THEOREM DeliveryInOrder == Spec => []DeliveredInOrder
<1>1. DeliveryInv => DeliveredInOrder
  BY SMT DEF DeliveryInv, Types, Numbers, InPlace, DeliveredInOrder
<1> QED  BY <1>1, InitEstablishes, NextKeeps, PTL DEF Spec
=============================================================================
