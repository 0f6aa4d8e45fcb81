---------------------------- MODULE HybridStore -----------------------------
(***************************************************************************)
(* The parts of HybridInv about the store, kept by every step: the control *)
(* lock and the claims, the requests under way and their answers, what the *)
(* catalog knows of the disk, and what lookups have read of it.  Then the  *)
(* types.                                                                  *)
(***************************************************************************)
EXTENDS HybridCalls

USE Zenon

(***************************************************************************)
(* Steps that touch neither the store nor the catalog                      *)
(***************************************************************************)
\* The phases of a job that holds the control lock, a claim or a request, or is to publish.
Engaged == {"evict", "evicted", "wait", "put", "publish", "get", "delete"}

SameJob(j) ==
    /\ j \in DOMAIN ops /\ j \in DOMAIN ops'
    /\ ops'[j].phase = ops[j].phase /\ ops'[j].lsn = ops[j].lsn /\ ops'[j].victim = ops[j].victim

\* Engaged jobs but i go on as they were, and no other job gets engaged.
OthersSame(i) ==
    /\ \A j \in DOMAIN ops' : j # i /\ ops'[j].phase \in Engaged => SameJob(j)
    /\ \A j \in DOMAIN ops : j # i /\ ops[j].phase \in Engaged => SameJob(j)

\* Lookups but l that await a read go on doing so, and no other begins to.
ReadersSame(l) ==
    \A m \in Lookups : m # l /\ (lookups'[m].pc = "read" \/ lookups[m].pc = "read") =>
        lookups'[m].pc = lookups[m].pc /\ lookups'[m].key = lookups[m].key

\* Nothing the store or the catalog sees, except that a job may publish.
Quiet ==
    /\ \A j \in DOMAIN ops' : ops'[j].phase \in Engaged => SameJob(j)
    /\ \A j \in DOMAIN ops : ops[j].phase \in Engaged \ {"publish"} => SameJob(j)
    /\ ReadersSame(None)
    /\ admission' = admission \/ (admission = "open" /\ admission' = "closed")
    /\ UNCHANGED <<idOf, control, catalog, disk, chain, reply, log>>

\* The steps of jobs that ask the store or hear from it.
Storing(i) ==
    Reserving(i) \/ Evicting(i) \/ Putting(i) \/ Versioning(i) \/ Getting(i) \/ Deleting(i)

\* The steps of lookups that do so, or are dropped.
Reading(l, x) == Looks(l, x) /\ (lookups[l].pc = "read" \/ x.pc = "read" \/ Heard(l))

\* A job that moves leaves the others alone.
LEMMA MovedOthers ==
    ASSUME NEW i, Moved(i)
    PROVE  OthersSame(i) /\ ReadersSame(None) /\ DOMAIN ops' = DOMAIN ops
  BY DEF Moved, Changed, OthersSame, SameJob, ReadersSame

\* A lookup that steps leaves the jobs and the other lookups alone.
LEMMA LooksOthers ==
    ASSUME HybridInv, NEW l \in Lookups, NEW x, Looks(l, x)
    PROVE  OthersSame(None) /\ ReadersSame(l) /\ DOMAIN ops' = DOMAIN ops
<1>1. ops' = ops /\ lookups' = [lookups EXCEPT ![l] = x] /\ lookups \in [Lookups -> Lookup]
  BY DEF Looks, HybridInv, CallTypes
<1> QED
  BY <1>1 DEF OthersSame, SameJob, ReadersSame

\* Every step is quiet or one of those the store is concerned with.
LEMMA QuietOrNot ==
    ASSUME HybridInv, Stepping, Kept
    PROVE  \/ Quiet
           \/ \E i \in DOMAIN ops : Thread(i) /\ Storing(i)
           \/ \E l \in Lookups : \E x : Reading(l, x)
           \/ Trimming \/ TrimAnswered
           \/ \E id \in Ids : \E r, a : Serving(id, r, a)
<1>1. lookups \in [Lookups -> Lookup] /\ idOf' = idOf
  BY DEF HybridInv, CallTypes, Kept
<1>2. ASSUME lookups' = lookups PROVE ReadersSame(None)
  BY <1>2 DEF ReadersSame
<1>3. ASSUME NEW i \in DOMAIN ops, Publishing(i) PROVE Quiet
  <2>1. Moved(i) /\ ops[i].phase = "publish" /\ ops'[i].phase = "release"
    BY <1>3 DEF Publishing
  <2>2. OthersSame(i) /\ ReadersSame(None)
    BY <2>1, MovedOthers
  <2> QED
    BY <1>1, <1>3, <2>1, <2>2 DEF Quiet, Publishing, OthersSame, Engaged
<1>4. ASSUME NEW i \in DOMAIN ops, Changed(i), ops[i].phase \notin Engaged, ops'[i].phase \notin Engaged,
             lookups' = lookups, UNCHANGED <<admission, control, catalog, disk, chain, reply, log>>
      PROVE  Quiet
  BY <1>1, <1>2, <1>4 DEF Quiet, Changed, SameJob
<1>5. ASSUME NEW i \in DOMAIN ops, Releasing(i) PROVE Quiet
  <2>1. ops[i].phase \notin Engaged /\ ops'[i].phase \notin Engaged
    BY <1>5 DEF Releasing, Engaged
  <2> QED
    BY <1>4, <1>5, <2>1 DEF Releasing
<1>6. ASSUME NEW i \in DOMAIN ops, TakenUp(i) PROVE Quiet
  <2>1. ops[i].phase \notin Engaged /\ ops'[i].phase \notin Engaged
    BY <1>6 DEF TakenUp, Taking, Engaged
  <2> QED
    BY <1>4, <1>6, <2>1 DEF TakenUp, Taking
<1>7. ASSUME NEW i \in DOMAIN ops, Fenced(i) PROVE Quiet
  <2>1. Changed(i) /\ ops[i].phase \in {"fence", "flush"} /\ ops'[i].phase \in {"flush", "done"}
    BY <1>7 DEF Fenced, Fences
  <2>2. ops[i].phase \notin Engaged /\ ops'[i].phase \notin Engaged
    BY <2>1 DEF Engaged
  <2> QED
    BY <1>4, <1>7, <2>1, <2>2 DEF Fenced
<1>8. ASSUME NEW i \in DOMAIN ops, Ending(i) PROVE Quiet
  <2>1. Finishing(i) /\ ops[i].phase = "finish" /\ ops'[i].phase = "done"
    BY <1>8 DEF Ending, Finishing
  <2>2. DOMAIN ops' = DOMAIN ops /\ \A j \in DOMAIN ops :
          \/ j = i
          \/ ops'[j] = ops[j]
          \/ ops[j].phase = "pending" /\ ops'[j].phase = "start"
    BY <2>1, FinishKeeps
  <2>3. \A j \in DOMAIN ops : ops[j].phase \in Engaged \/ ops'[j].phase \in Engaged => ops'[j] = ops[j]
    BY <2>1, <2>2 DEF Engaged
  <2> QED
    BY <1>1, <1>2, <1>8, <2>2, <2>3 DEF Quiet, SameJob, Ending
<1>9. ASSUME NEW n \in Nat, Added, n = Len(ops) + 1 PROVE /\ \A j \in DOMAIN ops' : ops'[j].phase \in Engaged => SameJob(j)
                                      /\ \A j \in DOMAIN ops : ops[j].phase \in Engaged => SameJob(j)
  <2>1. DOMAIN ops' = DOMAIN ops \cup {n} /\ ops'[n].phase = "queued" /\ \A j \in DOMAIN ops : ops'[j] = ops[j]
    BY <1>9 DEF Added
  <2> QED
    BY <2>1 DEF SameJob, Engaged
<1>10. ASSUME NEW n \in Nat, (\E k \in Keys : Mutating(n, k)) \/ Fencing(n) PROVE Quiet
  <2>1. /\ Added /\ n = Len(ops) + 1 /\ lookups' = lookups
        /\ admission = "open" /\ admission' \in {"open", "closed"}
        /\ UNCHANGED <<catalog, disk, chain, reply, log>>
    BY <1>10 DEF Mutating, Admitting, Fencing
  <2>2. control' = control
    BY <2>1 DEF Added, jobVars
  <2> QED
    BY <1>1, <1>2, <1>9, <2>1, <2>2 DEF Quiet
<1>11. ASSUME NEW n \in Nat, NEW l \in Lookups, Filling(n, l) PROVE Quiet
  <2>1. /\ Added /\ n = Len(ops) + 1 /\ lookups' = [lookups EXCEPT ![l] = NotLooking]
        /\ lookups[l].pc = "token" /\ admission' = admission
        /\ UNCHANGED <<catalog, disk, chain, reply, log>>
    BY <1>11 DEF Filling, Admitting
  <2>2. control' = control
    BY <2>1 DEF Added, jobVars
  <2>3. ReadersSame(None)
    BY <1>1, <2>1 DEF ReadersSame, NotLooking
  <2> QED
    BY <1>1, <1>9, <2>1, <2>2, <2>3 DEF Quiet
<1>12. ASSUME NEW l \in Lookups, NEW x, Looks(l, x) PROVE Quiet \/ Reading(l, x)
  <2>1. CASE lookups[l].pc = "read" \/ x.pc = "read"
    BY <1>12, <2>1 DEF Reading
  <2>2. CASE lookups[l].pc # "read" /\ x.pc # "read"
    <3>1. CASE UNCHANGED <<memory, catalog, chain, reply>>
      <4>1. /\ ops' = ops /\ lookups' = [lookups EXCEPT ![l] = x]
            /\ UNCHANGED <<idOf, admission, control, disk, log>>
        BY <1>12 DEF Looks
      <4>2. ReadersSame(None)
        BY <1>1, <2>2, <4>1 DEF ReadersSame
      <4> QED
        BY <3>1, <4>1, <4>2 DEF Quiet, SameJob
    <3>2. CASE ~UNCHANGED <<memory, catalog, chain, reply>>
      BY <1>12, <2>2, <3>2 DEF Looks, Reading
    <3> QED
      BY <3>1, <3>2
  <2> QED
    BY <2>1, <2>2
<1>13. ASSUME NEW k \in Keys, Forgetting(k) PROVE Quiet
  BY <1>2, <1>13 DEF Forgetting, Quiet, SameJob
<1>14. \A i : Jobbing(i) => Storing(i) \/ Publishing(i)
  BY DEF Jobbing, Storing
<1> QED
  BY <1>3, <1>5, <1>6, <1>7, <1>8, <1>10, <1>11, <1>12, <1>13, <1>14 DEF Stepping

(***************************************************************************)
(* The control lock and the claims                                         *)
(***************************************************************************)
\* While Cache::new trims there is no operation.
LEMMA TrimIsAlone ==
    ASSUME HybridInv, admission = "trim" \/ reply[Opener] # None
    PROVE  ops = <<>> /\ DOMAIN ops = {} /\ control = Opener /\ DOMAIN catalog.active = {}
           /\ admission = "trim"
<1>1. admission = "trim"
  BY DEF HybridInv, ReplyInv
<1>2. ops = <<>> /\ control = Opener
  BY <1>1 DEF HybridInv, ControlInv
<1>3. DOMAIN ops = {}
  BY <1>2, SMT
<1>4. DOMAIN catalog.active = {}
  BY <1>3 DEF HybridInv, ClaimInv
<1> QED
  BY <1>1, <1>2, <1>3, <1>4

\* The jobs that hold the control lock.
Controlling == {"evict", "evicted", "wait", "get", "delete"}

\* Whoever holds the control lock across an await keeps it until their step releases it, and
\* nobody else takes it meanwhile.
LEMMA ControlKept ==
    ASSUME HybridInv, Stepping, Kept
    PROVE  ControlInv'
<1>1. /\ admission = "trim" => ops = <<>> /\ control = Opener
      /\ \A j \in DOMAIN ops :
           /\ ops[j].phase \in Controlling => control = j
           /\ ops[j].phase \in {"evict", "evicted", "wait"} => ops[j].len <= catalog.limits.capacity
  BY DEF HybridInv, ControlInv, Controlling
<1>2. \A j \in DOMAIN ops : j # None /\ ops'[j].len = ops[j].len
  BY OpFacts, HybridAssumption DEF Kept, KeepsOp, HybridInv
<1>3. Controlling \subseteq Engaged /\ {"evict", "evicted", "wait"} \subseteq Controlling
  BY DEF Controlling, Engaged
<1>4. SUFFICES /\ admission' = "trim" => ops' = <<>> /\ control' = Opener
               /\ \A j \in DOMAIN ops' :
                    /\ ops'[j].phase \in Controlling => control' = j
                    /\ ops'[j].phase \in {"evict", "evicted", "wait"} => ops'[j].len <= catalog'.limits.capacity
  BY DEF ControlInv, Controlling
<1>5. ASSUME \A j \in DOMAIN ops' : ops'[j].phase \in Controlling => SameJob(j),
             control' = control, catalog'.limits = catalog.limits
      PROVE  \A j \in DOMAIN ops' :
               /\ ops'[j].phase \in Controlling => control' = j
               /\ ops'[j].phase \in {"evict", "evicted", "wait"} => ops'[j].len <= catalog'.limits.capacity
  <2>1. SUFFICES ASSUME NEW j \in DOMAIN ops', ops'[j].phase \in Controlling
                 PROVE  /\ control' = j
                        /\ ops'[j].phase \in {"evict", "evicted", "wait"} => ops'[j].len <= catalog'.limits.capacity
    BY <1>3
  <2>2. j \in DOMAIN ops /\ ops'[j].phase = ops[j].phase
    BY <1>5, <2>1 DEF SameJob
  <2> QED
    BY <1>1, <1>2, <1>5, <2>1, <2>2
<1>6. CASE Quiet
  <2>1. \A j \in DOMAIN ops' : ops'[j].phase \in Controlling => SameJob(j)
    BY <1>3, <1>6 DEF Quiet
  <2>2. ASSUME admission' = "trim" PROVE ops' = <<>> /\ control' = Opener
    <3>1. admission = "trim" /\ control' = control
      BY <1>6, <2>2 DEF Quiet
    <3>2. DOMAIN ops = {} /\ ~(\E n \in Nat : \/ \E k \in Keys : Mutating(n, k)
                                              \/ \E l \in Lookups : Filling(n, l)
                                              \/ Fencing(n))
      BY <3>1, TrimIsAlone DEF Mutating, Filling, Admitting, Fencing
    <3>3. DOMAIN ops' = {}
      BY <3>2, OpsMade
    <3>4. ops' = <<>>
      BY <3>3, SMT DEF Kept
    <3> QED
      BY <1>1, <3>1, <3>4
  <2> QED
    BY <1>5, <1>6, <2>1, <2>2 DEF Quiet
<1>7. ASSUME NEW i \in DOMAIN ops, Storing(i)
      PROVE  /\ admission' = "trim" => ops' = <<>> /\ control' = Opener
             /\ \A j \in DOMAIN ops' :
                  /\ ops'[j].phase \in Controlling => control' = j
                  /\ ops'[j].phase \in {"evict", "evicted", "wait"} => ops'[j].len <= catalog'.limits.capacity
  <2>1. Moved(i) /\ Jobbing(i)
    BY <1>7, JobbingMoves DEF Storing, Jobbing
  <2>2. OthersSame(i) /\ DOMAIN ops' = DOMAIN ops
    BY <2>1, MovedOthers
  <2>3. admission' # "trim"
    BY <2>1, JobbingTypes, TrimIsAlone
  <2>4. catalog'.limits = catalog.limits
    BY <1>7 DEF Storing, Reserving, Evicting, Putting, Versioning, Getting, Deleting, SameBut, SameSlots
  <2>5. ASSUME NEW j \in DOMAIN ops', j # i, ops'[j].phase \in Controlling
        PROVE  j \in DOMAIN ops /\ ops'[j].phase = ops[j].phase /\ control = j /\ control # None
    <3>1. SameJob(j)
      BY <1>3, <2>2, <2>5 DEF OthersSame
    <3> QED
      BY <1>1, <1>2, <2>5, <3>1 DEF SameJob
  <2>6. control' = control \/ control \in {None, i}
    <3>1. CASE Reserving(i)
      BY <3>1 DEF Reserving
    <3>2. CASE Putting(i)
      BY <3>2 DEF Putting
    <3>3. CASE Versioning(i)
      BY <3>3 DEF Versioning
    <3>4. CASE Evicting(i) \/ Getting(i) \/ Deleting(i)
      <4>1. ops[i].phase \in Controlling
        BY <3>4 DEF Evicting, Getting, Deleting, Controlling
      <4> QED
        BY <1>1, <4>1
    <3> QED
      BY <1>7, <3>1, <3>2, <3>3, <3>4 DEF Storing
  <2>7. ASSUME ops'[i].phase \in Controlling
        PROVE  /\ control' = i
               /\ ops'[i].phase \in {"evict", "evicted", "wait"} => ops[i].len <= catalog.limits.capacity
    <3>1. CASE Reserving(i)
      BY <2>7, <3>1 DEF Reserving, Controlling
    <3>2. CASE Putting(i)
      BY <2>7, <3>2 DEF Putting, Controlling
    <3>3. CASE Versioning(i)
      BY <2>7, <3>3 DEF Versioning, Controlling
    <3>4. CASE Evicting(i)
      BY <1>1, <2>7, <3>4 DEF Evicting, Controlling
    <3>5. CASE Getting(i)
      BY <1>1, <2>7, <3>5 DEF Getting, Controlling
    <3>6. CASE Deleting(i)
      BY <2>7, <3>6 DEF Deleting, Controlling
    <3> QED
      BY <1>7, <3>1, <3>2, <3>3, <3>4, <3>5, <3>6 DEF Storing
  <2>8. ASSUME NEW j \in DOMAIN ops', ops'[j].phase \in Controlling
        PROVE  /\ control' = j
               /\ ops'[j].phase \in {"evict", "evicted", "wait"} => ops'[j].len <= catalog'.limits.capacity
    <3>1. CASE j = i
      BY <1>2, <2>4, <2>7, <2>8, <3>1
    <3>2. CASE j # i
      <4>1. j \in DOMAIN ops /\ ops'[j].phase = ops[j].phase /\ control = j /\ control # None
        BY <2>5, <2>8, <3>2
      <4> QED
        BY <1>1, <1>2, <2>4, <2>6, <3>2, <4>1
    <3> QED
      BY <3>1, <3>2
  <2> QED
    BY <1>3, <2>3, <2>8
<1>8. ASSUME NEW l \in Lookups, NEW x, Reading(l, x)
      PROVE  /\ admission' = "trim" => ops' = <<>> /\ control' = Opener
             /\ \A j \in DOMAIN ops' :
                  /\ ops'[j].phase \in Controlling => control' = j
                  /\ ops'[j].phase \in {"evict", "evicted", "wait"} => ops'[j].len <= catalog'.limits.capacity
  <2>1. ops' = ops /\ UNCHANGED <<admission, control>> /\ catalog'.limits = catalog.limits
    BY <1>8 DEF Reading, Looks, SameSlots
  <2> QED
    BY <1>1, <1>5, <2>1 DEF SameJob
<1>9. CASE Trimming \/ TrimAnswered
  <2>1. /\ ops' = <<>> /\ ops = <<>> /\ admission = "trim"
        /\ (admission' = "trim" => control' = control)
    BY <1>9 DEF Trimming, TrimAnswered
  <2> QED
    BY <1>1, <2>1, SMT
<1>10. ASSUME NEW id \in Ids, NEW r, NEW a, Serving(id, r, a)
      PROVE  /\ admission' = "trim" => ops' = <<>> /\ control' = Opener
             /\ \A j \in DOMAIN ops' :
                  /\ ops'[j].phase \in Controlling => control' = j
                  /\ ops'[j].phase \in {"evict", "evicted", "wait"} => ops'[j].len <= catalog'.limits.capacity
  <2>1. UNCHANGED <<ops, admission, control, catalog>>
    BY <1>10 DEF Serving
  <2> QED
    BY <1>1, <1>5, <2>1 DEF SameJob
<1> QED
  BY <1>6, <1>7, <1>8, <1>9, <1>10, QuietOrNot

\* What ClaimInv says of job j.
ClaimOk(j) ==
    /\ ops[j].phase = "put" => Id(j) \in DOMAIN catalog.active
    /\ ops[j].phase = "evict" =>
         /\ ops[j].victim \in DOMAIN catalog.slots \ DOMAIN catalog.active
         /\ ops[j].victim # Id(j)
         /\ \A m \in DOMAIN ops : ops[m].phase = "publish" => Id(m) # ops[j].victim
    /\ ops[j].phase \in {"get", "delete"} =>
         Id(j) \in DOMAIN catalog.slots /\ ops[j].lsn = catalog.slots[Id(j)].lsn

\* A job that is not engaged claims nothing; one that is keeps its claim if its slots and the
\* writes in flight do not change and nobody begins to publish its victim.
LEMMA ClaimOkKept ==
    ASSUME HybridInv, Kept, NEW j \in DOMAIN ops',
           ops'[j].phase \in Engaged => SameJob(j),
           ops'[j].phase = "put" => Id(j) \in DOMAIN catalog'.active,
           ops'[j].phase = "evict" =>
             /\ ops[j].victim \in DOMAIN catalog'.slots \ DOMAIN catalog'.active
             /\ \A m \in DOMAIN ops' : ops'[m].phase = "publish" =>
                  m \in DOMAIN ops /\ (ops[m].phase = "publish" \/ Id(m) # ops[j].victim),
           ops'[j].phase \in {"get", "delete"} =>
             /\ Id(j) \in DOMAIN catalog'.slots
             /\ catalog'.slots[Id(j)].lsn = catalog.slots[Id(j)].lsn
    PROVE  ClaimOk(j)'
<1>1. \A m \in DOMAIN ops : Id(m)' = Id(m)
  BY DEF Kept, KeepsOp
<1>2. CASE ops'[j].phase \notin Engaged
  BY <1>2 DEF ClaimOk, Engaged
<1>3. CASE ops'[j].phase \in Engaged
  <2>1. /\ j \in DOMAIN ops /\ ops'[j].phase = ops[j].phase /\ ops'[j].lsn = ops[j].lsn
        /\ ops'[j].victim = ops[j].victim /\ Id(j)' = Id(j)
    BY <1>1, <1>3 DEF SameJob
  <2>2. ClaimOk(j)
    BY <2>1 DEF HybridInv, ClaimInv, ClaimOk
  <2>3. ASSUME ops'[j].phase = "evict", NEW m \in DOMAIN ops', ops'[m].phase = "publish"
        PROVE  Id(m)' # ops[j].victim
    BY <1>1, <2>1, <2>2, <2>3 DEF ClaimOk
  <2> QED
    BY <2>1, <2>2, <2>3 DEF ClaimOk
<1> QED
  BY <1>2, <1>3

\* Victims of evictions are apart from the chunks written, and a deletion knows the version:
\* the control lock and the order of a chunk's jobs see to it.
LEMMA ClaimKept ==
    ASSUME HybridInv, Stepping, Kept
    PROVE  ClaimInv'
<1> DEFINE Claimed1 == \A id \in DOMAIN catalog'.active :
                         \E j \in DOMAIN ops' : ops'[j].phase = "put" /\ Id(j)' = id
<1>0. SUFFICES Claimed1 /\ \A j \in DOMAIN ops' : ClaimOk(j)'
  BY DEF ClaimInv, ClaimOk
<1>1. /\ \A id \in DOMAIN catalog.active : \E j \in DOMAIN ops : ops[j].phase = "put" /\ Id(j) = id
      /\ \A j \in DOMAIN ops : ClaimOk(j) /\ Id(j)' = Id(j) /\ j # None
  BY OpFacts, HybridAssumption, SMT DEF HybridInv, ClaimInv, ClaimOk, Kept, KeepsOp
<1>2. ASSUME \A j \in DOMAIN ops : ops[j].phase = "put" /\ Id(j) \in DOMAIN catalog'.active => SameJob(j),
             DOMAIN catalog'.active \subseteq DOMAIN catalog.active
      PROVE  Claimed1
  BY <1>1, <1>2 DEF SameJob
<1>3. CASE Quiet
  <2>1. Claimed1
    BY <1>2, <1>3 DEF Quiet, Engaged
  <2>2. ASSUME NEW j \in DOMAIN ops' PROVE ClaimOk(j)'
    <3>1. \A m \in DOMAIN ops' : ops'[m].phase \in Engaged => m \in DOMAIN ops /\ ops'[m].phase = ops[m].phase
      BY <1>3 DEF Quiet, SameJob
    <3>2. ops'[j].phase \in Engaged => ClaimOk(j) /\ SameJob(j)
      BY <1>1, <1>3, <3>1 DEF Quiet
    <3>3. catalog' = catalog
      BY <1>3 DEF Quiet
    <3> QED
      BY <3>1, <3>2, <3>3, ClaimOkKept DEF ClaimOk, Engaged, SameJob
  <2> QED
    BY <2>1, <2>2
<1>4. ASSUME UNCHANGED <<idOf, ops>>, SameSlots(catalog, catalog')
      PROVE  Claimed1 /\ \A j \in DOMAIN ops' : ClaimOk(j)'
  BY <1>1, <1>4, SMT DEF SameSlots, ClaimOk, Id
<1>5. ASSUME NEW l \in Lookups, NEW x, Reading(l, x)
      PROVE  Claimed1 /\ \A j \in DOMAIN ops' : ClaimOk(j)'
  <2>1. SameSlots(catalog, catalog')
    BY <1>5 DEF Reading, Looks, SameSlots, HybridInv, JobTypes
  <2>2. UNCHANGED <<idOf, ops>>
    BY <1>5 DEF Reading, Looks
  <2> QED
    BY <1>4, <2>1, <2>2
<1>6. ASSUME NEW id \in Ids, NEW r, NEW a, Serving(id, r, a)
      PROVE  Claimed1 /\ \A j \in DOMAIN ops' : ClaimOk(j)'
  BY <1>4, <1>6 DEF Serving, SameSlots, HybridInv, JobTypes
<1>7. CASE Trimming \/ TrimAnswered
  <2>1. /\ admission = "trim" /\ ops' = ops /\ catalog'.active = catalog.active
    BY <1>7 DEF Trimming, TrimAnswered, SameSlots
  <2>2. DOMAIN ops = {} /\ DOMAIN catalog.active = {}
    BY <2>1, TrimIsAlone
  <2> QED
    BY <2>1, <2>2
<1>8. ASSUME NEW i \in DOMAIN ops, Thread(i), Storing(i)
      PROVE  Claimed1 /\ \A j \in DOMAIN ops' : ClaimOk(j)'
  <2>1. Moved(i) /\ i # None
    BY <1>1, <1>8, JobbingMoves DEF Storing, Jobbing
  <2>2. /\ DOMAIN ops' = DOMAIN ops
        /\ \A j \in DOMAIN ops : j # i => ops'[j] = ops[j] /\ SameJob(j)
    BY <2>1 DEF Moved, Changed, SameJob
  <2>3. \A j \in DOMAIN ops : ops[j].phase \in Controlling => control = j
    BY DEF HybridInv, ControlInv, Controlling
  <2>4. CASE Reserving(i)
    <3>1. ops[i].phase \in {"start", "evicted", "wait"}
      BY <2>4 DEF Reserving
    <3>2. \A m \in DOMAIN ops : ops[m].phase # "publish"
      BY <1>8, <3>1 DEF Thread
    <3>3. CASE ops'[i].phase \in {"release", "wait"}
      <4>1. /\ DOMAIN catalog'.slots = DOMAIN catalog.slots /\ catalog'.active = catalog.active
            /\ \A z \in DOMAIN catalog.slots : catalog'.slots[z].lsn = catalog.slots[z].lsn
        BY <2>4, <3>3 DEF Reserving, SameSlots
      <4>2. Claimed1
        BY <1>2, <2>2, <3>1, <4>1
      <4>3. ASSUME NEW j \in DOMAIN ops, j # i PROVE ClaimOk(j)'
        <5>1. \A m \in DOMAIN ops' : ops'[m].phase # "publish"
          BY <2>2, <3>2, <3>3
        <5> QED
          BY <1>1, <2>2, <4>1, <4>3, <5>1, SMT DEF ClaimOk
      <4>4. ClaimOk(i)'
        BY <3>3 DEF ClaimOk
      <4> QED
        BY <2>2, <4>2, <4>3, <4>4
    <3>4. CASE ops'[i].phase \in {"put", "evict"}
      <4>1. control \in {None, i}
        BY <2>4, <3>4 DEF Reserving
      <4>2. \A j \in DOMAIN ops : j # i => ops[j].phase \notin Controlling
        BY <1>1, <2>3, <4>1
      <4>3. CASE ops'[i].phase = "put"
        <5>1. DOMAIN catalog'.active = DOMAIN catalog.active \cup {Id(i)}
          BY <2>4, <4>3 DEF Reserving
        <5>2. Claimed1
          BY <1>1, <2>2, <3>1, <4>3, <5>1
        <5>3. ASSUME NEW j \in DOMAIN ops PROVE ClaimOk(j)'
          BY <1>1, <2>2, <4>2, <4>3, <5>1 DEF ClaimOk, Controlling
        <5> QED
          BY <2>2, <5>2, <5>3
      <4>4. CASE ops'[i].phase = "evict"
        <5>1. /\ DOMAIN catalog'.slots = DOMAIN catalog.slots /\ catalog'.active = catalog.active
              /\ ops'[i].victim \in Evictable(catalog, Id(i))
          BY <2>4, <4>4 DEF Reserving, SameSlots
        <5>2. Claimed1
          BY <1>2, <2>2, <3>1, <5>1
        <5>3. ASSUME NEW j \in DOMAIN ops, j # i PROVE ClaimOk(j)'
          BY <1>1, <2>2, <4>2, <5>1, <5>3 DEF ClaimOk, Controlling
        <5>4. ClaimOk(i)'
          BY <1>1, <2>2, <3>2, <4>4, <5>1 DEF ClaimOk, Evictable
        <5> QED
          BY <2>2, <5>2, <5>3, <5>4
      <4> QED
        BY <3>4, <4>3, <4>4
    <3>5. ops'[i].phase \in {"release", "wait", "put", "evict"}
      BY <2>4 DEF Reserving
    <3> QED
      BY <3>3, <3>4, <3>5
  <2>5. CASE Evicting(i) \/ Getting(i) \/ Deleting(i)
    <3>1. /\ ops[i].phase \in {"evict", "get", "delete"} /\ ops'[i].phase \in {"evicted", "release", "delete"}
          /\ catalog'.active = catalog.active
      BY <2>5 DEF Evicting, Getting, Deleting
    <3>2. \A j \in DOMAIN ops : j # i => ops[j].phase \notin Controlling
      BY <1>1, <2>3, <3>1 DEF Controlling
    <3>3. Claimed1
      BY <1>2, <2>2, <3>1
    <3>4. ASSUME NEW j \in DOMAIN ops, j # i PROVE ClaimOk(j)'
      BY <1>1, <2>2, <3>1, <3>2, <3>4 DEF ClaimOk, Controlling
    <3>5. ClaimOk(i)'
      <4>1. CASE ops'[i].phase = "delete"
        <5>1. ops'[i].lsn = ops[i].lsn /\ catalog' = catalog /\ ops[i].phase = "get"
          BY <2>5, <4>1 DEF Evicting, Getting, Deleting
        <5> QED
          BY <1>1, <4>1, <5>1 DEF ClaimOk
      <4>2. CASE ops'[i].phase # "delete"
        BY <3>1, <4>2 DEF ClaimOk
      <4> QED
        BY <4>1, <4>2
    <3> QED
      BY <2>2, <3>3, <3>4, <3>5
  <2>6. CASE Versioning(i)
    <3>1. ops[i].phase = "start" /\ control = None /\ catalog' = catalog /\ ops'[i].phase \in {"release", "get"}
      BY <2>6 DEF Versioning
    <3>2. \A j \in DOMAIN ops : ops[j].phase \notin Controlling
      BY <1>1, <2>3, <3>1
    <3>3. Claimed1
      BY <1>2, <2>2, <3>1
    <3>4. ASSUME NEW j \in DOMAIN ops, j # i PROVE ClaimOk(j)'
      BY <1>1, <2>2, <3>1, <3>2, <3>4 DEF ClaimOk, Controlling
    <3>5. ClaimOk(i)'
      BY <1>1, <2>6, <3>1 DEF ClaimOk, Versioning
    <3> QED
      BY <2>2, <3>3, <3>4, <3>5
  <2>7. CASE Putting(i)
    <3>1. /\ ops[i].phase = "put" /\ ops'[i].phase \in {"publish", "release"}
          /\ DOMAIN catalog'.active = DOMAIN catalog.active \ {Id(i)}
          /\ DOMAIN catalog'.slots \ {Id(i)} = DOMAIN catalog.slots \ {Id(i)}
          /\ \A z \in DOMAIN catalog.slots \ {Id(i)} : catalog'.slots[z].lsn = catalog.slots[z].lsn
      BY <2>7 DEF Putting, SameBut
    <3>2. \A j \in DOMAIN ops : j # i /\ ops[j].phase \in Working => Id(j) # Id(i)
      BY <3>1, Exclusive DEF Working
    <3>3. Id(i) \in DOMAIN catalog.active
      BY <1>1, <3>1 DEF ClaimOk
    <3>4. Claimed1
      BY <1>2, <2>2, <3>1
    <3>5. ASSUME NEW j \in DOMAIN ops, j # i PROVE ClaimOk(j)'
      <4>1. ops'[j] = ops[j] /\ ClaimOk(j) /\ Id(j)' = Id(j)
        BY <1>1, <2>2, <3>5
      <4>2. ops[j].phase = "put" => Id(j) \in DOMAIN catalog'.active
        BY <3>1, <3>2, <3>5, <4>1 DEF ClaimOk, Working
      <4>3. ops[j].phase = "evict" =>
              /\ ops[j].victim \in DOMAIN catalog'.slots \ DOMAIN catalog'.active
              /\ \A m \in DOMAIN ops' : ops'[m].phase = "publish" => Id(m)' # ops[j].victim
        <5>1. ops[j].phase = "evict" => ops[j].victim # Id(i)
          BY <3>3, <4>1 DEF ClaimOk
        <5> QED
          BY <1>1, <2>2, <3>1, <4>1, <5>1, SMT DEF ClaimOk
      <4>4. ops[j].phase \in {"get", "delete"} => Id(j) \in DOMAIN catalog'.slots /\ ops[j].lsn = catalog'.slots[Id(j)].lsn
        BY <3>1, <3>2, <3>5, <4>1 DEF ClaimOk, Working
      <4> QED
        BY <4>1, <4>2, <4>3, <4>4 DEF ClaimOk
    <3>6. ClaimOk(i)'
      BY <3>1 DEF ClaimOk
    <3> QED
      BY <2>2, <3>4, <3>5, <3>6
  <2> QED
    BY <1>8, <2>4, <2>5, <2>6, <2>7 DEF Storing
<1> QED
  BY <1>3, <1>5, <1>6, <1>7, <1>8, QuietOrNot

(***************************************************************************)
(* The store's answers                                                     *)
(***************************************************************************)
\* When the store changes a chunk, whoever asked for it is the only one concerned with it.
LEMMA ServingAlone ==
    ASSUME HybridInv, NEW id \in Ids, NEW r, NEW a, Serving(id, r, a), r.kind \in {"put", "delete"}
    PROVE  /\ r.who \in DOMAIN ops \/ (r.who = Opener /\ admission = "trim")
           /\ reply[r.who] = None /\ r.who # None /\ r.who \notin Lookups
           /\ \A j \in DOMAIN ops :
                /\ ops[j].phase \in {"put", "get", "delete", "publish"} /\ Id(j) = id => j = r.who
                /\ ops[j].phase = "evict" /\ ops[j].victim = id => j = r.who
           /\ id \in DOMAIN catalog.active => r.kind = "put"
           /\ r.who \in DOMAIN ops =>
                \/ ops[r.who].phase = r.kind /\ Id(r.who) = id
                \/ ops[r.who].phase = "evict" /\ ops[r.who].victim = id /\ r.kind = "delete"
<1>1. RequestOk(id, r)
  BY DEF Serving
<1>2. /\ \A j \in DOMAIN ops : j # None /\ j \notin Lookups
      /\ \A j \in DOMAIN ops : ops[j].phase = "put" => Id(j) \in DOMAIN catalog.active
      /\ \A z \in DOMAIN catalog.active : \E j \in DOMAIN ops : ops[j].phase = "put" /\ Id(j) = z
      /\ \A j \in DOMAIN ops : ops[j].phase = "evict" =>
           /\ ops[j].victim \notin DOMAIN catalog.active
           /\ \A m \in DOMAIN ops : ops[m].phase = "publish" => Id(m) # ops[j].victim
  BY OpFacts, HybridAssumption, ZenonT(30) DEF HybridInv, ClaimInv
<1>3. CASE /\ r.who \in DOMAIN ops /\ reply[r.who] = None /\ r.kind = ops[r.who].phase /\ Id(r.who) = id
  <2>1. ASSUME NEW j \in DOMAIN ops, ops[j].phase \in {"put", "get", "delete", "publish"}, Id(j) = id
        PROVE  j = r.who
    BY <1>3, <2>1, Exclusive DEF Working
  <2>2. ASSUME NEW j \in DOMAIN ops, ops[j].phase = "evict", ops[j].victim = id PROVE j = r.who
    <3>1. CASE r.kind = "put"
      BY <1>2, <1>3, <2>2, <3>1
    <3>2. CASE r.kind = "delete"
      BY <1>3, <2>2, <3>2, Exclusive, ZenonT(30)
    <3> QED
      BY <3>1, <3>2
  <2>3. id \in DOMAIN catalog.active => r.kind = "put"
    BY <1>2, <1>3, <2>1
  <2> QED
    BY <1>2, <1>3, <2>1, <2>2, <2>3
<1>4. CASE /\ r.who \in DOMAIN ops /\ reply[r.who] = None /\ r.kind = "delete"
           /\ ops[r.who].phase = "evict" /\ ops[r.who].victim = id
  <2>1. ASSUME NEW j \in DOMAIN ops, ops[j].phase \in {"put", "get", "delete", "publish"}, Id(j) = id
        PROVE  j = r.who
    <3>1. ops[j].phase \notin {"put", "publish"}
      BY <1>2, <1>4, <2>1
    <3> QED
      BY <1>4, <2>1, <3>1, Exclusive
  <2>2. ASSUME NEW j \in DOMAIN ops, ops[j].phase = "evict", ops[j].victim = id PROVE j = r.who
    BY <1>4, <2>2, Exclusive
  <2> QED
    BY <1>2, <1>4, <2>1, <2>2
<1>5. CASE r.who = Opener /\ reply[r.who] = None /\ r.kind = "delete" /\ admission = "trim"
  <2>1. DOMAIN ops = {} /\ DOMAIN catalog.active = {}
    BY <1>5, TrimIsAlone
  <2>2. Opener # None /\ Opener \notin Lookups
    BY HybridAssumption, SMT DEF Opener
  <2> QED
    BY <1>5, <2>1, <2>2
<1> QED
  BY <1>1, <1>3, <1>4, <1>5 DEF RequestOk

\* What ReplyInv says of the answer to operation i, to Cache::new and to lookup l.
ReplyOk(i) ==
    reply[i] # None =>
        /\ i \in DOMAIN ops /\ ops[i].phase \in {"put", "evict", "get", "delete"}
        /\ reply[i].status # "changed"
        /\ reply[i].status = "ok" =>
             /\ ops[i].phase = "put" =>
                  /\ reply[i].chunk = disk[Id(i)] /\ disk[Id(i)].value = i
                  /\ disk[Id(i)].key = ops[i].key /\ disk[Id(i)].len = ops[i].len
             /\ ops[i].phase = "evict" => disk[ops[i].victim] = NoChunk
             /\ ops[i].phase = "get" => reply[i].chunk = disk[Id(i)]
             /\ ops[i].phase = "delete" => disk[Id(i)] = NoChunk

OpenerOk ==
    reply[Opener] # None =>
        /\ admission = "trim" /\ reply[Opener].status # "changed"
        /\ reply[Opener].status = "ok" => disk[reply[Opener].id] = NoChunk

ReadOk(l) == reply[l] # None => lookups[l].pc = "read" /\ reply[l].status # "changed"

\* An answer not yet heard goes on to hold while its job waits and its chunk stays.
LEMMA ReplyOkKept ==
    ASSUME HybridInv, Kept, NEW i \in 1..MaxOps, reply'[i] = reply[i],
           reply[i] # None =>
             /\ SameJob(i)
             /\ ops[i].phase \in {"put", "get", "delete"} => disk'[Id(i)] = disk[Id(i)]
             /\ ops[i].phase = "evict" => disk'[ops[i].victim] = disk[ops[i].victim]
    PROVE  ReplyOk(i)'
<1>1. SUFFICES ASSUME reply[i] # None PROVE ReplyOk(i)'
  BY DEF ReplyOk
<1>2. ReplyOk(i)
  BY DEF HybridInv, ReplyInv, ReplyOk
<1>3. i \in DOMAIN ops /\ SameJob(i)
  BY <1>1, <1>2 DEF ReplyOk
<1>4. Id(i)' = Id(i) /\ ops'[i].key = ops[i].key /\ ops'[i].len = ops[i].len
  BY <1>3 DEF Kept, KeepsOp
<1> QED
  BY <1>1, <1>2, <1>3, <1>4 DEF ReplyOk, SameJob

\* An answer is still true when it is heard: nobody else may touch its chunk in between.
LEMMA ReplyKept ==
    ASSUME HybridInv, Stepping, Kept
    PROVE  ReplyInv'
<1>0. SUFFICES (\A i \in 1..MaxOps : ReplyOk(i)') /\ OpenerOk' /\ (\A l \in Lookups : ReadOk(l)')
  BY DEF ReplyInv, ReplyOk, OpenerOk, ReadOk
<1>1. (\A i \in 1..MaxOps : ReplyOk(i)) /\ OpenerOk /\ (\A l \in Lookups : ReadOk(l))
  BY DEF HybridInv, ReplyInv, ReplyOk, OpenerOk, ReadOk
<1>2. /\ StoreTypes /\ Opener \notin Lookups /\ Opener \notin 1..MaxOps
      /\ Lookups \cap (1..MaxOps) = {}
      /\ DOMAIN ops \subseteq 1..MaxOps
      /\ reply \in [{Opener} \cup Lookups \cup 1..MaxOps -> Reply \cup {None}]
  BY OpFacts, HybridAssumption, SMT DEF HybridInv, Opener, StoreTypes
<1>3. \A i \in 1..MaxOps : reply[i] # None => i \in DOMAIN ops /\ ops[i].phase \in Engaged \ {"publish"}
  BY <1>1 DEF ReplyOk, Engaged
<1>4. CASE Quiet
  <2>1. reply' = reply /\ disk' = disk
    BY <1>4 DEF Quiet
  <2>2. ASSUME NEW i \in 1..MaxOps PROVE ReplyOk(i)'
    BY <1>3, <1>4, <2>1, ReplyOkKept DEF Quiet
  <2>3. OpenerOk'
    BY <1>1, <1>4, <2>1 DEF OpenerOk, Quiet, Opener
  <2>4. ASSUME NEW l \in Lookups PROVE ReadOk(l)'
    <3>1. l # None
      BY HybridAssumption
    <3> QED
      BY <1>1, <1>4, <2>1, <3>1 DEF ReadOk, Quiet, ReadersSame
  <2> QED
    BY <2>2, <2>3, <2>4
<1>5. ASSUME NEW i \in DOMAIN ops, Storing(i)
      PROVE  (\A j \in 1..MaxOps : ReplyOk(j)') /\ OpenerOk' /\ (\A l \in Lookups : ReadOk(l)')
  <2>1. Moved(i) /\ i \in 1..MaxOps /\ disk' = disk /\ lookups' = lookups
    <3>1. Moved(i)
      BY <1>5, JobbingMoves DEF Storing, Jobbing
    <3>2. disk' = disk
      BY <1>5 DEF Storing, Reserving, Evicting, Putting, Versioning, Getting, Deleting
    <3> QED
      BY <1>2, <3>1, <3>2 DEF Moved
  <2>2. reply'[i] = None /\ \A w \in {Opener} \cup Lookups \cup 1..MaxOps : w # i => reply'[w] = reply[w]
    <3>1. CASE reply' = reply /\ ops[i].phase \in {"start", "evicted", "wait"}
      BY <1>1, <2>1, <3>1 DEF ReplyOk
    <3>2. CASE Heard(i)
      BY <1>2, <2>1, <3>2, HeardFacts
    <3> QED
      BY <1>5, <3>1, <3>2 DEF Storing, Reserving, Evicting, Putting, Versioning, Getting, Deleting
  <2>3. ASSUME NEW j \in 1..MaxOps PROVE ReplyOk(j)'
    <3>1. CASE j = i
      BY <2>2, <3>1 DEF ReplyOk
    <3>2. CASE j # i
      <4>1. reply'[j] = reply[j]
        BY <2>2, <3>2
      <4>2. reply[j] # None => SameJob(j)
        BY <1>3, <2>1, <3>2, MovedOthers DEF OthersSame
      <4> QED
        BY <2>1, <4>1, <4>2, ReplyOkKept
    <3> QED
      BY <3>1, <3>2
  <2>4. OpenerOk'
    <3>1. reply[Opener] = None
      BY <1>5, TrimIsAlone
    <3>2. reply'[Opener] = None
      BY <1>2, <2>1, <2>2, <3>1
    <3> QED
      BY <3>2 DEF OpenerOk, Opener
  <2>5. \A l \in Lookups : ReadOk(l)'
    BY <1>1, <1>2, <2>1, <2>2 DEF ReadOk
  <2> QED
    BY <2>3, <2>4, <2>5
<1>6. ASSUME NEW l \in Lookups, NEW x, Reading(l, x)
      PROVE  (\A j \in 1..MaxOps : ReplyOk(j)') /\ OpenerOk' /\ (\A m \in Lookups : ReadOk(m)')
  <2>1. /\ ops' = ops /\ UNCHANGED <<idOf, admission, disk>> /\ Looks(l, x)
    BY <1>6 DEF Reading, Looks
  <2>2. ReadersSame(l)
    BY <2>1, LooksOthers
  <2>3. reply'[l] = None /\ \A w \in {Opener} \cup Lookups \cup 1..MaxOps : w # l => reply'[w] = reply[w]
    <3>1. CASE Heard(l)
      BY <1>2, <3>1, HeardFacts
    <3>2. CASE lookups[l].pc = "get" /\ reply' = reply
      BY <1>1, <3>2 DEF ReadOk
    <3> QED
      BY <1>6, <3>1, <3>2 DEF Reading, Looks
  <2>4. ASSUME NEW j \in 1..MaxOps PROVE ReplyOk(j)'
    <3>1. reply'[j] = reply[j]
      BY <1>2, <2>3
    <3>2. reply[j] # None => SameJob(j)
      BY <1>3, <2>1 DEF SameJob
    <3> QED
      BY <2>1, <3>1, <3>2, ReplyOkKept
  <2>5. OpenerOk'
    BY <1>1, <1>2, <2>1, <2>3 DEF OpenerOk, Opener
  <2>6. \A m \in Lookups : ReadOk(m)'
    BY <1>1, <2>2, <2>3 DEF ReadOk, ReadersSame
  <2> QED
    BY <2>4, <2>5, <2>6
<1>7. CASE Trimming
  BY <1>1, <1>7, SMT DEF Trimming, ReplyOk, OpenerOk, ReadOk, Opener
<1>8. CASE TrimAnswered
  <2>1. /\ reply'[Opener] = None
        /\ \A w \in {Opener} \cup Lookups \cup 1..MaxOps : w # Opener => reply'[w] = reply[w]
    BY <1>2, <1>8, HeardFacts DEF TrimAnswered
  <2>2. ops = <<>> /\ ops' = ops /\ lookups' = lookups
    BY <1>8 DEF TrimAnswered
  <2>3. DOMAIN ops = {}
    BY <2>2, SMT
  <2>4. \A i \in 1..MaxOps : reply[i] = None
    BY <1>3, <2>3
  <2>5. \A i \in 1..MaxOps : ReplyOk(i)'
    BY <1>2, <2>1, <2>4 DEF ReplyOk
  <2>6. OpenerOk'
    BY <2>1 DEF OpenerOk, Opener
  <2>7. \A l \in Lookups : ReadOk(l)'
    BY <1>1, <1>2, <2>1, <2>2 DEF ReadOk
  <2> QED
    BY <2>5, <2>6, <2>7
<1>9. ASSUME NEW id \in Ids, NEW r, NEW a, Serving(id, r, a)
      PROVE  (\A j \in 1..MaxOps : ReplyOk(j)') /\ OpenerOk' /\ (\A l \in Lookups : ReadOk(l)')
  <2>1. /\ UNCHANGED <<idOf, admission, ops, lookups>> /\ a.id = id /\ a.status \in {"ok", "error"}
        /\ RequestOk(id, r) /\ a \in Reply /\ r \in Request
    BY <1>9 DEF Serving
  <2>2. disk \in [Ids -> Chunk] /\ \A z \in Ids : z # id => disk'[z] = disk[z]
    BY <1>2, <1>9 DEF Serving, StoreTypes
  <2>3. r.kind \notin {"put", "delete"} => disk' = disk
    BY <1>9 DEF Serving
  <2>4. r.who # None => r.who \in {Opener} \cup Lookups \cup 1..MaxOps /\ reply[r.who] = None
    BY <1>2, <2>1 DEF RequestOk
  <2>5. \A w \in {Opener} \cup Lookups \cup 1..MaxOps :
          reply'[w] = IF w = r.who /\ r.who # None THEN a ELSE reply[w]
    BY <1>2, <1>9, <2>4 DEF Serving
  <2>6. ASSUME NEW j \in 1..MaxOps, j = r.who PROVE ReplyOk(j)'
    <3>1. j # None /\ j # Opener /\ j \notin Lookups
      BY <1>2, <2>6, HybridAssumption, SMT
    <3>2. reply'[j] = a
      BY <2>5, <2>6, <3>1
    <3>3. \/ j \in DOMAIN ops /\ r.kind = ops[j].phase /\ Id(j) = id
          \/ j \in DOMAIN ops /\ r.kind = "delete" /\ ops[j].phase = "evict" /\ ops[j].victim = id
      BY <2>1, <2>6, <3>1 DEF RequestOk
    <3>4. j \in DOMAIN ops /\ ops[j].phase \in {"put", "evict", "get", "delete"} /\ Id(j)' = Id(j)
      BY <2>1, <3>3 DEF Request, Id
    <3>5. a.status = "ok" =>
            /\ ops[j].phase = "put" =>
                  /\ a.chunk = disk'[Id(j)] /\ a.chunk.value = j
                  /\ a.chunk.key = ops[j].key /\ a.chunk.len = ops[j].len
            /\ ops[j].phase = "evict" => disk'[ops[j].victim] = NoChunk
            /\ ops[j].phase = "get" => a.chunk = disk'[Id(j)]
            /\ ops[j].phase = "delete" => disk'[Id(j)] = NoChunk
      BY <1>9, <2>2, <2>6, <3>3, ZenonT(30) DEF Serving
    <3> QED
      BY <2>1, <3>2, <3>4, <3>5 DEF ReplyOk
  <2>7. ASSUME NEW j \in 1..MaxOps, j # r.who PROVE ReplyOk(j)'
    <3>1. reply'[j] = reply[j]
      BY <2>5, <2>7
    <3>2. reply[j] # None => SameJob(j)
      BY <1>3, <2>1 DEF SameJob
    <3>3. ASSUME reply[j] # None, ops[j].phase \in {"put", "get", "delete"} PROVE disk'[Id(j)] = disk[Id(j)]
      <4>1. j \in DOMAIN ops /\ Id(j) \in Ids
        BY <1>3, <3>3, AwaitFacts
      <4>2. r.kind \in {"put", "delete"} => Id(j) # id
        BY <1>9, <2>7, <3>3, <4>1, ServingAlone, ZenonT(30)
      <4> QED
        BY <2>2, <2>3, <4>1, <4>2
    <3>4. ASSUME reply[j] # None, ops[j].phase = "evict" PROVE disk'[ops[j].victim] = disk[ops[j].victim]
      <4>1. j \in DOMAIN ops
        BY <1>3, <3>4
      <4>2. r.kind \in {"put", "delete"} => ops[j].victim # id
        BY <1>9, <2>7, <3>4, <4>1, ServingAlone
      <4>3. ops[j].victim \in Ids
        BY <3>4, <4>1, CatalogFacts DEF HybridInv, ClaimInv, JobTypes
      <4> QED
        BY <2>2, <2>3, <4>2, <4>3
    <3> QED
      BY <3>1, <3>2, <3>3, <3>4, ReplyOkKept
  <2>8. OpenerOk'
    <3>1. CASE r.who = Opener
      <4>1. /\ r.kind = "delete" /\ admission = "trim" /\ Opener # None
        BY <1>2, <2>1, <3>1, HybridAssumption, SMT DEF RequestOk, Opener
      <4>2. a.status = "ok" => disk'[id] = NoChunk
        BY <1>9, <2>2, <4>1 DEF Serving
      <4> QED
        BY <2>1, <2>5, <3>1, <4>1, <4>2 DEF OpenerOk, Opener
    <3>2. CASE r.who # Opener
      <4>1. reply'[Opener] = reply[Opener]
        BY <2>5, <3>2
      <4>2. reply[Opener] # None => disk' = disk
        <5>1. SUFFICES ASSUME reply[Opener] # None, r.kind \in {"put", "delete"} PROVE FALSE
          BY <2>3
        <5>2. DOMAIN ops = {}
          BY <5>1, TrimIsAlone
        <5> QED
          BY <1>9, <3>2, <5>1, <5>2, ServingAlone
      <4> QED
        BY <1>1, <2>1, <4>1, <4>2 DEF OpenerOk, Opener
    <3> QED
      BY <3>1, <3>2
  <2>9. ASSUME NEW l \in Lookups PROVE ReadOk(l)'
    <3>1. CASE r.who = l
      <4>1. l # None /\ l \notin DOMAIN ops /\ l # Opener
        BY <1>2, HybridAssumption
      <4>2. lookups[l].pc = "read" /\ reply'[l] = a
        BY <2>1, <2>5, <3>1, <4>1 DEF RequestOk
      <4> QED
        BY <2>1, <4>2 DEF ReadOk
    <3>2. CASE r.who # l
      BY <1>1, <2>1, <2>5, <3>2 DEF ReadOk
    <3> QED
      BY <3>1, <3>2
  <2> QED
    BY <2>6, <2>7, <2>8, <2>9
<1> QED
  BY <1>4, <1>5, <1>6, <1>7, <1>8, <1>9, QuietOrNot

(***************************************************************************)
(* The catalog and the disk                                                *)
(***************************************************************************)
\* The catalog says the same of chunk id.
SameSlot(id) ==
    /\ id \in DOMAIN catalog'.slots <=> id \in DOMAIN catalog.slots
    /\ id \in DOMAIN catalog.slots =>
         /\ catalog'.slots[id].lsn = catalog.slots[id].lsn
         /\ catalog'.slots[id].len = catalog.slots[id].len

TrackOk(id) ==
    \/ Tracks(id)
    \/ \E i \in DOMAIN ops : Answered(i, id)
    \/ reply[Opener] # None /\ reply[Opener].status = "ok" /\ reply[Opener].id = id

\* A job's step changes what the catalog says of no chunk, or of the one whose request was
\* answered with success, and then the catalog says what is on the disk.
LEMMA StoringSlots ==
    ASSUME HybridInv, Kept, NEW i \in DOMAIN ops, Storing(i), NEW id \in Ids
    PROVE  \/ SameSlot(id) /\ ~Answered(i, id)
           \/ Tracks(id)'
<1>1. Moved(i) /\ disk' = disk /\ i \in 1..MaxOps /\ Id(i)' = Id(i) /\ catalog \in CatalogState
  <2>1. Moved(i)
    BY JobbingMoves DEF Storing, Jobbing
  <2>2. disk' = disk
    BY DEF Storing, Reserving, Evicting, Putting, Versioning, Getting, Deleting
  <2> QED
    BY <2>1, <2>2, OpFacts DEF HybridInv, Kept, KeepsOp, JobTypes
<1>2. ReplyOk(i)
  BY <1>1 DEF HybridInv, ReplyInv, ReplyOk
<1>3. ASSUME NEW z, SameBut(catalog, catalog', z), id # z PROVE SameSlot(id)
  BY <1>3 DEF SameBut, SameSlot
<1>4. CASE Reserving(i)
  <2>1. SameSlot(id)
    BY <1>4 DEF Reserving, SameSlots, SameSlot
  <2>2. ~Answered(i, id)
    BY <1>4 DEF Reserving, Answered
  <2> QED
    BY <2>1, <2>2
<1>5. CASE Evicting(i)
  <2>1. CASE reply[i].status = "ok"
    <3>1. /\ SameBut(catalog, catalog', ops[i].victim) /\ ops[i].victim \notin DOMAIN catalog'.slots
          /\ ops[i].phase = "evict" /\ reply[i] # None
      BY <1>5, <2>1 DEF Evicting
    <3>2. CASE id # ops[i].victim
      BY <1>3, <3>1, <3>2 DEF Answered
    <3>3. CASE id = ops[i].victim
      BY <1>1, <1>2, <2>1, <3>1, <3>3 DEF ReplyOk, Tracks
    <3> QED
      BY <3>2, <3>3
  <2>2. CASE reply[i].status # "ok"
    BY <1>5, <2>2 DEF Evicting, SameSlot, Answered
  <2> QED
    BY <2>1, <2>2
<1>6. CASE Putting(i)
  <2>1. CASE reply[i].status = "ok"
    <3>1. /\ SameBut(catalog, catalog', Id(i)) /\ Id(i) \in DOMAIN catalog'.slots
          /\ catalog'.slots[Id(i)].lsn = reply[i].chunk.lsn /\ catalog'.slots[Id(i)].len = ops[i].len
          /\ ops[i].phase = "put" /\ reply[i] # None
      BY <1>6, <2>1 DEF Putting
    <3>2. CASE id # Id(i)
      BY <1>3, <3>1, <3>2 DEF Answered
    <3>3. CASE id = Id(i)
      <4>1. /\ reply[i].chunk = disk[id] /\ disk[id].value = i /\ disk[id].len = ops[i].len
        BY <1>2, <2>1, <3>1, <3>3 DEF ReplyOk
      <4>2. disk[id] # NoChunk
        BY <1>1, <4>1, HybridAssumption, SMT DEF NoChunk
      <4> QED
        BY <1>1, <3>1, <3>3, <4>1, <4>2 DEF Tracks
    <3> QED
      BY <3>2, <3>3
  <2>2. CASE reply[i].status # "ok"
    BY <1>6, <2>2 DEF Putting, SameSlot, Answered
  <2> QED
    BY <2>1, <2>2
<1>7. CASE Versioning(i) \/ Getting(i)
  <2>1. catalog' = catalog /\ ops[i].phase \in {"start", "get"}
    BY <1>7 DEF Versioning, Getting
  <2> QED
    BY <2>1 DEF SameSlot, Answered
<1>8. CASE Deleting(i)
  <2>1. CASE reply[i].status = "ok"
    <3>1. /\ SameBut(catalog, catalog', Id(i)) /\ Id(i) \notin DOMAIN catalog'.slots
          /\ ops[i].phase = "delete" /\ reply[i] # None
      BY <1>8, <2>1 DEF Deleting
    <3>2. CASE id # Id(i)
      BY <1>3, <3>1, <3>2 DEF Answered
    <3>3. CASE id = Id(i)
      BY <1>1, <1>2, <2>1, <3>1, <3>3 DEF ReplyOk, Tracks
    <3> QED
      BY <3>2, <3>3
  <2>2. CASE reply[i].status # "ok"
    BY <1>8, <2>2 DEF Deleting, SameSlot, Answered
  <2> QED
    BY <2>1, <2>2
<1> QED
  BY <1>4, <1>5, <1>6, <1>7, <1>8 DEF Storing

\* The catalog misses nothing that happens on the disk but what an answer will tell it.
LEMMA TrackKept ==
    ASSUME HybridInv, Stepping, Kept
    PROVE  TrackInv'
<1>0. SUFFICES ASSUME NEW id \in Ids PROVE TrackOk(id)'
  BY DEF TrackInv, TrackOk
<1>1. TrackOk(id)
  BY DEF HybridInv, TrackInv, TrackOk
<1>2. /\ StoreTypes /\ Opener \notin Lookups /\ Opener \notin 1..MaxOps /\ Lookups \cap (1..MaxOps) = {}
      /\ DOMAIN ops \subseteq 1..MaxOps /\ Opener \notin DOMAIN ops /\ Lookups \cap DOMAIN ops = {}
      /\ reply \in [{Opener} \cup Lookups \cup 1..MaxOps -> Reply \cup {None}]
      /\ \A j \in DOMAIN ops : Id(j)' = Id(j)
  <2>1. Opener \in Nat /\ Opener \notin 1..MaxOps
    BY SMT DEF Opener
  <2>2. 1..MaxOps \subseteq Nat /\ Lookups \cap Nat = {}
    BY HybridAssumption, SMT
  <2>3. CallTypes /\ StoreTypes /\ DOMAIN ops \subseteq 1..MaxOps
    BY OpFacts DEF HybridInv
  <2>4. \A j \in DOMAIN ops : Id(j)' = Id(j)
    BY DEF Kept, KeepsOp
  <2> QED
    BY <2>1, <2>2, <2>3, <2>4 DEF StoreTypes
<1>3. ASSUME disk'[id] = disk[id], SameSlot(id), Tracks(id) PROVE Tracks(id)'
  BY <1>3 DEF SameSlot, Tracks
<1>4. ASSUME NEW j \in DOMAIN ops, Answered(j, id), SameJob(j), reply'[j] = reply[j]
      PROVE  j \in DOMAIN ops' /\ Answered(j, id)'
  BY <1>2, <1>4 DEF SameJob, Answered
<1>5. \A j : Answered(j, id) => ops[j].phase \in {"put", "delete", "evict"}
  BY DEF Answered
<1>6. CASE Quiet
  <2>1. disk' = disk /\ catalog' = catalog /\ reply' = reply
    BY <1>6 DEF Quiet
  <2>2. SameSlot(id)
    BY <2>1 DEF SameSlot
  <2>3. \A j \in DOMAIN ops : Answered(j, id) => SameJob(j)
    BY <1>5, <1>6 DEF Quiet, Engaged
  <2> QED
    BY <1>1, <1>3, <1>4, <2>1, <2>2, <2>3 DEF TrackOk, Opener
<1>7. ASSUME NEW i \in DOMAIN ops, Storing(i) PROVE TrackOk(id)'
  <2>1. CASE Tracks(id)'
    BY <2>1 DEF TrackOk
  <2>2. CASE SameSlot(id) /\ ~Answered(i, id)
    <3>1. Moved(i) /\ disk' = disk
      <4>1. Moved(i)
        BY <1>7, JobbingMoves DEF Storing, Jobbing
      <4>2. disk' = disk
        BY <1>7 DEF Storing, Reserving, Evicting, Putting, Versioning, Getting, Deleting
      <4> QED
        BY <4>1, <4>2
    <3>2. reply[Opener] = None
      BY <1>7, TrimIsAlone
    <3>3. \A j \in DOMAIN ops : j # i => reply'[j] = reply[j]
      BY <1>2, <1>7 DEF Storing, Reserving, Evicting, Putting, Versioning, Getting, Deleting, Heard
    <3>4. \A j \in DOMAIN ops : j # i /\ Answered(j, id) => SameJob(j)
      BY <1>5, <3>1, MovedOthers DEF OthersSame, Engaged
    <3>5. CASE Tracks(id)
      BY <1>3, <2>2, <3>1, <3>5 DEF TrackOk
    <3>6. CASE \E j \in DOMAIN ops : Answered(j, id)
      BY <1>4, <2>2, <3>3, <3>4, <3>6 DEF TrackOk
    <3> QED
      BY <1>1, <3>2, <3>5, <3>6 DEF TrackOk
  <2> QED
    BY <1>7, <2>1, <2>2, StoringSlots
<1>8. ASSUME NEW l \in Lookups, NEW x, Reading(l, x) PROVE TrackOk(id)'
  <2>1. ops' = ops /\ disk' = disk
    BY <1>8 DEF Reading, Looks
  <2>2. SameSlot(id)
    BY <1>8 DEF Reading, Looks, SameSlots, SameSlot
  <2>3. \A w \in {Opener} \cup 1..MaxOps : reply'[w] = reply[w]
    BY <1>2, <1>8 DEF Reading, Looks, Heard
  <2>4. \A j \in DOMAIN ops : SameJob(j) /\ reply'[j] = reply[j]
    BY <1>2, <2>1, <2>3 DEF SameJob
  <2>5. reply'[Opener] = reply[Opener]
    BY <2>3
  <2> QED
    BY <1>1, <1>3, <1>4, <2>1, <2>2, <2>4, <2>5 DEF TrackOk, Opener
<1>9. CASE Trimming
  <2>1. /\ ops = <<>> /\ reply[Opener] = None /\ disk' = disk /\ SameSlot(id)
    BY <1>9 DEF Trimming, SameSlots, SameSlot
  <2>2. Tracks(id)
    BY <1>1, <2>1, SMT DEF TrackOk
  <2> QED
    BY <1>3, <2>1, <2>2 DEF TrackOk
<1>10. CASE TrimAnswered
  <2>1. /\ ops = <<>> /\ reply[Opener] # None /\ disk' = disk
    BY <1>10 DEF TrimAnswered
  <2>2. CASE reply[Opener].status = "ok"
    <3>1. /\ SameBut(catalog, catalog', reply[Opener].id) /\ reply[Opener].id \notin DOMAIN catalog'.slots
          /\ disk[reply[Opener].id] = NoChunk
      BY <1>10, <2>2 DEF TrimAnswered, HybridInv, ReplyInv
    <3>2. CASE reply[Opener].id = id
      BY <2>1, <3>1, <3>2 DEF TrackOk, Tracks
    <3>3. CASE reply[Opener].id # id
      <4>1. SameSlot(id)
        BY <3>1, <3>3 DEF SameBut, SameSlot
      <4>2. Tracks(id)
        BY <1>1, <2>1, <3>3, SMT DEF TrackOk
      <4> QED
        BY <1>3, <2>1, <4>1, <4>2 DEF TrackOk
    <3> QED
      BY <3>2, <3>3
  <2>3. CASE reply[Opener].status # "ok"
    <3>1. SameSlot(id) /\ Tracks(id)
      BY <1>1, <1>10, <2>1, <2>3, SMT DEF TrimAnswered, SameSlot, TrackOk
    <3> QED
      BY <1>3, <2>1, <3>1 DEF TrackOk
  <2> QED
    BY <2>2, <2>3
<1>11. ASSUME NEW y \in Ids, NEW r, NEW a, Serving(y, r, a) PROVE TrackOk(id)'
  <2>1. /\ ops' = ops /\ idOf' = idOf /\ catalog' = catalog /\ a.id = y /\ RequestOk(y, r) /\ r \in Request
        /\ a \in Reply
    BY <1>11 DEF Serving
  <2>2. SameSlot(id) /\ \A j \in DOMAIN ops : SameJob(j)
    BY <2>1 DEF SameSlot, SameJob
  <2>3. r.who # None => r.who \in {Opener} \cup Lookups \cup 1..MaxOps /\ reply[r.who] = None
    BY <1>2, <2>1 DEF RequestOk
  <2>4. \A w \in {Opener} \cup Lookups \cup 1..MaxOps :
          reply'[w] = IF w = r.who /\ r.who # None THEN a ELSE reply[w]
    BY <1>2, <1>11, <2>3 DEF Serving
  <2>5. CASE disk'[id] = disk[id]
    <3>1. \A j \in DOMAIN ops : Answered(j, id) => reply'[j] = reply[j]
      BY <1>2, <2>3, <2>4 DEF Answered
    <3>2. reply[Opener] # None => reply'[Opener] = reply[Opener]
      BY <2>3, <2>4
    <3> QED
      BY <1>1, <1>3, <1>4, <2>2, <2>5, <3>1, <3>2 DEF TrackOk, Opener
  <2>6. CASE disk'[id] # disk[id]
    <3>1. id = y /\ a.status = "ok" /\ r.kind \in {"put", "delete"}
      BY <1>2, <1>11, <2>6 DEF Serving, StoreTypes
    <3>2. /\ r.who # None
          /\ r.who \in DOMAIN ops \/ r.who = Opener
          /\ r.who \in DOMAIN ops =>
                \/ ops[r.who].phase = r.kind /\ Id(r.who) = id
                \/ ops[r.who].phase = "evict" /\ ops[r.who].victim = id /\ r.kind = "delete"
      BY <1>11, <3>1, ServingAlone
    <3>3. reply'[r.who] = a /\ a # None
      BY <2>1, <2>3, <2>4, <3>2, HybridAssumption
    <3>4. CASE r.who \in DOMAIN ops
      <4>1. Answered(r.who, id)'
        BY <1>2, <2>1, <3>1, <3>2, <3>3, <3>4 DEF Answered, Id
      <4> QED
        BY <2>1, <3>4, <4>1 DEF TrackOk
    <3>5. CASE r.who = Opener
      BY <2>1, <3>1, <3>3, <3>5 DEF TrackOk, Opener
    <3> QED
      BY <3>2, <3>4, <3>5
  <2> QED
    BY <2>5, <2>6
<1> QED
  BY <1>6, <1>7, <1>8, <1>9, <1>10, <1>11, QuietOrNot

(***************************************************************************)
(* Requests under way                                                      *)
(***************************************************************************)
\* Whoever does not wait for the store has no request there.
LEMMA NoRequest ==
    ASSUME HybridInv, NEW w,
           \/ w \in DOMAIN ops /\ (ops[w].phase \notin {"put", "evict", "get", "delete"} \/ reply[w] # None)
           \/ w \in Lookups /\ (lookups[w].pc # "read" \/ reply[w] # None)
           \/ w = Opener /\ reply[w] # None
    PROVE  \A id \in Ids : \A n \in DOMAIN chain[id] : chain[id][n].who # w
<1>1. SUFFICES ASSUME NEW id \in Ids, NEW n \in DOMAIN chain[id], chain[id][n].who = w PROVE FALSE
  OBVIOUS
<1>2. RequestOk(id, chain[id][n]) /\ chain[id][n] \in Request
  BY RequestFacts
<1>3. /\ w # None /\ (w \in DOMAIN ops => w \notin Lookups /\ w # Opener)
      /\ (w \in Lookups => w # Opener) /\ chain[id][n].kind \in {"get", "put", "delete"}
  BY <1>2, OpFacts, HybridAssumption, SMT DEF HybridInv, Opener, Request
<1> QED
  BY <1>1, <1>2, <1>3 DEF RequestOk

\* A request goes on to be waited for.
LEMMA RequestKept ==
    ASSUME HybridInv, Kept, NEW id \in Ids, NEW r \in Request, RequestOk(id, r),
           r.who \in Lookups =>
             /\ reply'[r.who] = reply[r.who] /\ lookups'[r.who].pc = lookups[r.who].pc
             /\ lookups'[r.who].key = lookups[r.who].key,
           r.who \in DOMAIN ops => SameJob(r.who) /\ reply'[r.who] = reply[r.who],
           r.who \in DOMAIN ops /\ ops[r.who].phase = "evict" /\ ops[r.who].victim = id => SameSlot(id),
           r.who = Opener /\ admission = "trim" =>
             reply'[r.who] = reply[r.who] /\ admission' = "trim" /\ SameSlot(id)
    PROVE  RequestOk(id, r)'
<1>1. r.who \in DOMAIN ops => Id(r.who)' = Id(r.who) /\ idOf' = idOf
  BY DEF Kept, KeepsOp
<1>2. CASE r.kind = "get" /\ r.who = None
  BY <1>2 DEF RequestOk
<1>3. CASE /\ r.kind = "get" /\ r.who \in Lookups /\ reply[r.who] = None
           /\ lookups[r.who].pc = "read" /\ idOf[lookups[r.who].key] = id
  BY <1>3 DEF RequestOk, Kept
<1>4. CASE /\ r.who \in DOMAIN ops /\ reply[r.who] = None /\ r.kind = ops[r.who].phase
           /\ Id(r.who) = id
           /\ r.kind = "delete" => r.lsn = ops[r.who].lsn
  BY <1>1, <1>4 DEF RequestOk, SameJob
<1>5. CASE /\ r.who \in DOMAIN ops /\ reply[r.who] = None /\ r.kind = "delete"
           /\ ops[r.who].phase = "evict" /\ ops[r.who].victim = id
           /\ r.lsn = catalog.slots[id].lsn
  <2>1. id \in DOMAIN catalog.slots
    BY <1>5 DEF HybridInv, ClaimInv
  <2> QED
    BY <1>5, <2>1 DEF RequestOk, SameJob, SameSlot
<1>6. CASE /\ r.who = Opener /\ reply[r.who] = None /\ r.kind = "delete" /\ admission = "trim"
           /\ id \in DOMAIN catalog.slots /\ r.lsn = catalog.slots[id].lsn
  BY <1>6 DEF RequestOk, SameSlot, Opener
<1> QED
  BY <1>2, <1>3, <1>4, <1>5, <1>6 DEF RequestOk

\* The requests are the same.
LEMMA ChainSame ==
    ASSUME HybridInv, chain' = chain,
           \A id \in Ids : \A r \in Request : RequestOk(id, r) /\ (\E n \in DOMAIN chain[id] : chain[id][n] = r) =>
               RequestOk(id, r)'
    PROVE  ChainInv'
<1>1. ASSUME NEW id \in Ids, NEW n \in DOMAIN chain'[id] PROVE RequestOk(id, chain[id][n])'
  <2>1. PICK r : r = chain[id][n]
    OBVIOUS
  <2>2. RequestOk(id, r)' /\ chain'[id][n] = r
    BY <1>1, <2>1, RequestFacts
  <2> QED
    BY <2>2 DEF RequestOk
<1> QED
  BY <1>1, SMT DEF HybridInv, ChainInv

\* One request more, by somebody who had none.
LEMMA ChainAsk ==
    ASSUME HybridInv, NEW id \in Ids, NEW who \in Nat \cup Lookups, NEW kind \in {"get", "put", "delete"},
           NEW lsn \in Nat, Ask(id, who, kind, lsn),
           \A x \in Ids : \A n \in DOMAIN chain[x] : chain[x][n].who # who,
           RequestOk(id, [who |-> who, kind |-> kind, lsn |-> lsn])',
           \A x \in Ids : \A r \in Request : RequestOk(x, r) /\ (\E n \in DOMAIN chain[x] : chain[x][n] = r) =>
               RequestOk(x, r)'
    PROVE  ChainInv'
<1>1. PICK q : q = [who |-> who, kind |-> kind, lsn |-> lsn]
  OBVIOUS
<1>2. /\ \A x \in Ids : x # id => chain'[x] = chain[x]
      /\ chain'[id] = Append(chain[id], q)
  <2>1. StoreTypes /\ who \in Nat \cup Lookups \cup {None}
    BY DEF HybridInv
  <2>2. /\ \A x \in Ids : x # id => chain'[x] = chain[x]
        /\ id \in Ids => chain'[id] = Append(chain[id], [who |-> who, kind |-> kind, lsn |-> lsn])
    BY <2>1, AskFacts
  <2> QED
    BY <1>1, <2>2
<1>3. /\ chain[id] \in Seq(Request) /\ Len(chain[id]) \in Nat /\ DOMAIN chain[id] = 1..Len(chain[id])
      /\ q \in Request /\ q.who = who
  <2>1. chain[id] \in Seq(Request)
    BY DEF HybridInv, StoreTypes
  <2>2. q \in Request /\ q.who = who
    BY <1>1 DEF Request
  <2> QED
    BY <2>1, <2>2, SMT
<1>4. /\ DOMAIN chain'[id] = DOMAIN chain[id] \cup {Len(chain[id]) + 1}
      /\ chain'[id][Len(chain[id]) + 1] = q
      /\ \A n \in DOMAIN chain[id] : chain'[id][n] = chain[id][n]
      /\ Len(chain[id]) + 1 \notin DOMAIN chain[id]
  BY <1>2, <1>3, SMT
<1>5. ASSUME NEW x \in Ids, NEW n \in DOMAIN chain'[x]
      PROVE  \/ n \in DOMAIN chain[x] /\ chain'[x][n] = chain[x][n]
             \/ x = id /\ n = Len(chain[id]) + 1 /\ chain'[x][n] = q
  BY <1>2, <1>4
<1>6. ASSUME NEW x \in Ids, NEW n \in DOMAIN chain'[x] PROVE RequestOk(x, chain[x][n])'
  <2>1. PICK r : r = chain'[x][n]
    OBVIOUS
  <2>2. RequestOk(x, r)'
    <3>1. CASE n \in DOMAIN chain[x] /\ chain'[x][n] = chain[x][n]
      BY <2>1, <3>1, RequestFacts
    <3>2. CASE x = id /\ r = q
      BY <1>1, <3>2
    <3> QED
      BY <1>5, <1>6, <2>1, <3>1, <3>2
  <2> QED
    BY <2>1, <2>2 DEF RequestOk
<1>7. ASSUME NEW x \in Ids, NEW y \in Ids, NEW n \in DOMAIN chain'[x], NEW m \in DOMAIN chain'[y],
             chain'[y][m].who = chain'[x][n].who, chain'[y][m].who # None
      PROVE  y = x /\ m = n
  <2>1. CASE /\ n \in DOMAIN chain[x] /\ chain'[x][n] = chain[x][n]
             /\ m \in DOMAIN chain[y] /\ chain'[y][m] = chain[y][m]
    BY <1>7, <2>1, SMT DEF HybridInv, ChainInv
  <2>2. CASE n \in DOMAIN chain[x] /\ chain'[x][n] = chain[x][n] /\ chain'[y][m] = q
    BY <1>3, <1>7, <2>2
  <2>3. CASE m \in DOMAIN chain[y] /\ chain'[y][m] = chain[y][m] /\ chain'[x][n] = q
    BY <1>3, <1>7, <2>3
  <2>4. CASE x = id /\ n = Len(chain[id]) + 1 /\ y = id /\ m = Len(chain[id]) + 1
    BY <2>4
  <2> QED
    BY <1>5, <1>7, <2>1, <2>2, <2>3, <2>4
<1> QED
  BY <1>6, <1>7 DEF ChainInv

\* A job is neither a lookup nor Cache::new.
LEMMA JobIsNobodyElse ==
    ASSUME HybridInv, NEW i \in DOMAIN ops
    PROVE  i \notin Lookups /\ i # Opener /\ i # None /\ i \in 1..MaxOps
  BY OpFacts, HybridAssumption DEF HybridInv, Opener

\* The chains of requests when a job asks the store, or hears from it.
LEMMA StoringChain ==
    ASSUME HybridInv, Kept, NEW i \in DOMAIN ops, Storing(i)
    PROVE  ChainInv'
<1>1. /\ Moved(i) /\ OthersSame(i) /\ lookups' = lookups /\ idOf' = idOf /\ Id(i)' = Id(i)
      /\ ops[i].kind \in Mutations
  <2>1. Moved(i)
    BY JobbingMoves DEF Storing, Jobbing
  <2> QED
    BY <2>1, MovedOthers DEF Moved, Kept, KeepsOp
<1>2. /\ i \in 1..MaxOps /\ i \in Nat \cup Lookups /\ i # None /\ Id(i) \in Ids /\ i # Opener /\ i \notin Lookups
  BY <1>1, JobFacts DEF Opener
<1>3. \A x \in Ids : \A n \in DOMAIN chain[x] : chain[x][n].who # i
  <2>1. ops[i].phase \notin {"put", "evict", "get", "delete"} \/ reply[i] # None
    BY DEF Storing, Reserving, Evicting, Putting, Versioning, Getting, Deleting
  <2> QED
    BY <2>1, NoRequest
<1>4. /\ \A w : w # i /\ w \in DOMAIN reply => reply'[w] = reply[w]
      /\ reply'[i] = None
  <2>1. CASE Reserving(i) \/ Versioning(i)
    <3>1. reply' = reply /\ ops[i].phase \notin {"put", "evict", "get", "delete"}
      BY <2>1 DEF Reserving, Versioning
    <3> QED
      BY <1>2, <3>1 DEF HybridInv, ReplyInv
  <2>2. CASE Heard(i)
    BY <1>2, <2>2 DEF Heard, HybridInv, StoreTypes
  <2> QED
    BY <2>1, <2>2 DEF Storing, Evicting, Putting, Getting, Deleting
<1>5. ASSUME NEW x \in Ids, NEW r \in Request, RequestOk(x, r), NEW n \in DOMAIN chain[x], chain[x][n] = r
      PROVE  RequestOk(x, r)'
  <2>1. r.who # i
    BY <1>3, <1>5
  <2>2. r.who # None => r.who \in DOMAIN reply /\ reply[r.who] = None
    BY <1>5, RequestFacts DEF HybridInv, StoreTypes
  <2>3. r.who \in Lookups =>
             /\ reply'[r.who] = reply[r.who] /\ lookups'[r.who].pc = lookups[r.who].pc
             /\ lookups'[r.who].key = lookups[r.who].key
    BY <1>1, <1>4, <2>1, <2>2, HybridAssumption
  <2>4. ASSUME r.who \in DOMAIN ops PROVE SameJob(r.who) /\ reply'[r.who] = reply[r.who]
    <3>1. ops[r.who].phase \in Engaged
      <4>1. \/ r.kind = ops[r.who].phase
            \/ ops[r.who].phase = "evict"
        BY <1>5, <2>4, JobIsNobodyElse DEF RequestOk
      <4> QED
        BY <4>1 DEF Engaged, Request
    <3>2. r.who # None
      BY <2>4, JobIsNobodyElse
    <3> QED
      BY <1>1, <1>4, <2>1, <2>2, <2>4, <3>1, <3>2 DEF OthersSame
  <2>5. ASSUME r.who \in DOMAIN ops, ops[r.who].phase = "evict", ops[r.who].victim = x PROVE SameSlot(x)
    <3>1. CASE Reserving(i)
      BY <3>1 DEF Reserving, SameSlots, SameSlot
    <3>2. CASE Versioning(i) \/ Getting(i)
      BY <3>2 DEF Versioning, Getting, SameSlot
    <3>3. CASE Putting(i)
      <4>1. Id(i) \in DOMAIN catalog.active /\ x \notin DOMAIN catalog.active
        BY <2>5, <3>3 DEF HybridInv, ClaimInv, Putting
      <4> QED
        BY <3>3, <4>1 DEF Putting, SameBut, SameSlot
    <3>4. CASE Evicting(i) \/ Deleting(i)
      <4>1. ops[i].phase \in {"evict", "delete"}
        BY <3>4 DEF Evicting, Deleting
      <4> QED
        BY <2>1, <2>5, <4>1, Exclusive
    <3> QED
      BY <3>1, <3>2, <3>3, <3>4 DEF Storing
  <2>6. r.who = Opener /\ admission = "trim" => FALSE
    BY TrimIsAlone
  <2> QED
    BY <1>5, <2>3, <2>4, <2>5, <2>6, RequestKept
<1>6. CASE chain' = chain
  BY <1>5, <1>6, ChainSame
<1>7. ASSUME NEW x \in Ids, NEW kind \in {"get", "put", "delete"}, NEW lsn \in Nat, Ask(x, i, kind, lsn),
             RequestOk(x, [who |-> i, kind |-> kind, lsn |-> lsn])'
      PROVE  ChainInv'
  BY <1>2, <1>3, <1>5, <1>7, ChainAsk, SMT
<1>8. i \in DOMAIN ops'
  BY <1>1 DEF Moved, Changed
<1>9. PICK y \in Ids : y = Id(i) /\ idOf'[ops'[i].key] = y
  BY <1>1, <1>2 DEF Id
<1>10. ASSUME NEW kind \in {"get", "put", "delete"}, NEW lsn \in Nat, Ask(Id(i), i, kind, lsn),
              ops'[i].phase = kind, kind = "delete" => ops'[i].lsn = lsn
       PROVE  ChainInv'
  <2>1. RequestOk(y, [who |-> i, kind |-> kind, lsn |-> lsn])'
    BY <1>4, <1>8, <1>9, <1>10 DEF RequestOk, Id
  <2> QED
    BY <1>7, <1>9, <1>10, <2>1
<1>11. CASE Reserving(i)
  <2>1. CASE ops'[i].phase = "put" /\ Ask(Id(i), i, "put", 0)
    BY <1>10, <2>1
  <2>2. CASE /\ ops'[i].phase = "evict" /\ ops'[i].victim \in Evictable(catalog, Id(i))
             /\ SameSlots(catalog, catalog')
             /\ Ask(ops'[i].victim, i, "delete", catalog.slots[ops'[i].victim].lsn)
    <3>1. PICK v : v = ops'[i].victim
      OBVIOUS
    <3>2. v \in DOMAIN catalog.slots /\ catalog \in CatalogState
      BY <2>2, <3>1 DEF Evictable, HybridInv, JobTypes
    <3>3. v \in Ids /\ catalog.slots[v].lsn \in Nat
      BY <3>2, CatalogFacts DEF Slot
    <3>4. PICK lsn \in Nat : lsn = catalog.slots[v].lsn /\ catalog'.slots[v].lsn = lsn
      BY <2>2, <3>2, <3>3 DEF SameSlots
    <3>5. RequestOk(v, [who |-> i, kind |-> "delete", lsn |-> lsn])'
      BY <1>4, <1>8, <2>2, <3>1, <3>4 DEF RequestOk
    <3>6. Ask(v, i, "delete", lsn)
      BY <2>2, <3>1, <3>4
    <3> QED
      BY <1>7, <3>3, <3>5, <3>6
  <2> QED
    BY <1>6, <1>11, <2>1, <2>2 DEF Reserving
<1>12. CASE Versioning(i)
  BY <1>6, <1>10, <1>12 DEF Versioning
<1>13. CASE Getting(i)
  <2>1. ops[i].lsn \in Nat
    BY <1>1, JobFacts DEF Op
  <2>2. PICK lsn \in Nat : lsn = ops[i].lsn
    BY <2>1
  <2>3. CASE ops'[i].phase = "delete" /\ ops'[i].lsn = ops[i].lsn /\ Ask(Id(i), i, "delete", ops[i].lsn)
    BY <1>10, <2>2, <2>3
  <2> QED
    BY <1>6, <1>13, <2>3 DEF Getting
<1>14. CASE Evicting(i) \/ Putting(i) \/ Deleting(i)
  BY <1>6, <1>14 DEF Evicting, Putting, Deleting
<1> QED
  BY <1>11, <1>12, <1>13, <1>14 DEF Storing

\* Requests when only lookups, or nobody, have something to do with the step.
LEMMA RequestStays ==
    ASSUME HybridInv, Kept, NEW id \in Ids, NEW r \in Request, RequestOk(id, r),
           r.who # None => reply'[r.who] = reply[r.who],
           r.who \in Lookups => lookups'[r.who].pc = lookups[r.who].pc
                                /\ lookups'[r.who].key = lookups[r.who].key,
           r.who \in DOMAIN ops /\ ops[r.who].phase \in Engaged \ {"publish"} => SameJob(r.who),
           admission = "trim" => admission' = "trim", SameSlot(id)
    PROVE  RequestOk(id, r)'
<1>1. r.who \in Lookups \cup DOMAIN ops \cup {Opener} => r.who # None
  BY JobIsNobodyElse, HybridAssumption, SMT DEF Opener
<1>2. ASSUME r.who \in DOMAIN ops PROVE SameJob(r.who)
  <2>1. \/ r.kind = ops[r.who].phase
        \/ ops[r.who].phase = "evict"
    BY <1>2, JobIsNobodyElse DEF RequestOk
  <2>2. ops[r.who].phase \in Engaged \ {"publish"}
    BY <2>1 DEF Engaged, Request
  <2> QED
    BY <1>2, <2>2
<1> QED
  BY <1>1, <1>2, RequestKept

\* The chains when a lookup asks for a chunk, hears of it, or is dropped.
LEMMA ReadingChain ==
    ASSUME HybridInv, Kept, NEW l \in Lookups, NEW x, Reading(l, x)
    PROVE  ChainInv'
<1>1. /\ ReadersSame(l) /\ OthersSame(None) /\ admission' = admission /\ idOf' = idOf
      /\ lookups' = [lookups EXCEPT ![l] = x] /\ lookups \in [Lookups -> Lookup] /\ ops' = ops
  BY LooksOthers DEF Reading, Looks, HybridInv, CallTypes
<1>2. \A id \in Ids : SameSlot(id)
  BY DEF Reading, Looks, SameSlots, SameSlot
<1>3. \A w \in DOMAIN reply : w # l => reply'[w] = reply[w]
  BY DEF Reading, Looks, Heard, HybridInv, StoreTypes
<1>4. ASSUME NEW id \in Ids, NEW r \in Request, RequestOk(id, r), r.who # l,
             NEW n \in DOMAIN chain[id], chain[id][n] = r
      PROVE  RequestOk(id, r)'
  <2>1. r.who # None => reply'[r.who] = reply[r.who]
    BY <1>3, <1>4, RequestFacts DEF HybridInv, StoreTypes
  <2>2. r.who \in Lookups => lookups'[r.who].pc = lookups[r.who].pc
                             /\ lookups'[r.who].key = lookups[r.who].key
    BY <1>1, <1>4
  <2>3. r.who \in DOMAIN ops => SameJob(r.who)
    BY <1>1 DEF SameJob
  <2> QED
    BY <1>1, <1>2, <1>4, <2>1, <2>2, <2>3, RequestStays
<1>5. CASE (\A id \in Ids : \A n \in DOMAIN chain[id] : chain[id][n].who # l) /\ chain' = chain
  BY <1>4, <1>5, ChainSame
<1>6. CASE lookups[l].pc = "get" /\ x.pc = "read" /\ Ask(idOf[lookups[l].key], l, "get", 0) /\ reply' = reply
  <2>1. \A id \in Ids : \A n \in DOMAIN chain[id] : chain[id][n].who # l
    BY <1>6, NoRequest
  <2>2. lookups[l].key \in Keys /\ reply[l] = None /\ x.key = lookups[l].key
    <3>1. x.key = lookups[l].key
      BY <1>6 DEF Reading, Looks, Answers, Begins, Leaves, Walks
    <3> QED
      BY <1>6, <3>1 DEF HybridInv, LeaseInv, ReplyInv
  <2>3. PICK id \in Ids : id = idOf[lookups[l].key]
    BY <2>2 DEF HybridInv, CallTypes
  <2>4. lookups'[l].pc = "read" /\ idOf'[lookups'[l].key] = id /\ reply'[l] = None
    BY <1>1, <1>6, <2>2, <2>3
  <2>5. RequestOk(id, [who |-> l, kind |-> "get", lsn |-> 0])'
    BY <2>4 DEF RequestOk
  <2>6. Ask(id, l, "get", 0) /\ l \in Nat \cup Lookups
    BY <1>6, <2>3
  <2> QED
    BY <1>4, <2>1, <2>5, <2>6, ChainAsk
<1>7. CASE chain' = [id \in Ids |-> [n \in DOMAIN chain[id] |->
                        IF chain[id][n].who = l THEN [chain[id][n] EXCEPT !.who = None]
                        ELSE chain[id][n]]]
  <2>1. ASSUME NEW id \in Ids
        PROVE  /\ DOMAIN chain'[id] = DOMAIN chain[id]
               /\ \A n \in DOMAIN chain[id] :
                    chain'[id][n] = IF chain[id][n].who = l THEN [chain[id][n] EXCEPT !.who = None]
                                    ELSE chain[id][n]
    BY <1>7
  <2>2. ASSUME NEW id \in Ids, NEW n \in DOMAIN chain[id] PROVE RequestOk(id, chain[id][n])'
    <3>1. PICK r \in Request : r = chain[id][n] /\ RequestOk(id, r)
      BY <2>2, RequestFacts
    <3>2. CASE r.who = l
      <4>1. r.kind = "get"
        BY <3>1, <3>2, JobIsNobodyElse, HybridAssumption DEF RequestOk, Opener
      <4>2. [r EXCEPT !.who = None].kind = "get" /\ [r EXCEPT !.who = None].who = None
        BY <4>1 DEF Request
      <4>3. chain'[id][n].kind = "get" /\ chain'[id][n].who = None
        BY <2>1, <2>2, <3>1, <3>2, <4>2
      <4> QED
        BY <4>3 DEF RequestOk
    <3>3. CASE r.who # l
      <4>1. RequestOk(id, r)' /\ chain'[id][n] = r
        BY <1>4, <2>1, <2>2, <3>1, <3>3
      <4> QED
        BY <4>1 DEF RequestOk
    <3> QED
      BY <3>2, <3>3
  <2>3. ASSUME NEW id \in Ids, NEW n \in DOMAIN chain[id], chain'[id][n].who # None
        PROVE  chain'[id][n].who = chain[id][n].who
    <3>1. chain[id][n] \in Request
      BY <2>3, RequestFacts
    <3>2. CASE chain[id][n].who = l
      <4>1. chain'[id][n].who = None
        BY <2>1, <2>3, <3>1, <3>2 DEF Request
      <4> QED
        BY <2>3, <4>1
    <3> QED
      BY <2>1, <2>3, <3>2
  <2>4. \A id, y \in Ids : \A n \in DOMAIN chain[id] : \A m \in DOMAIN chain[y] :
           chain[y][m].who = chain[id][n].who /\ chain[y][m].who # None => y = id /\ m = n
    BY DEF HybridInv, ChainInv
  <2>5. ASSUME NEW id \in Ids, NEW y \in Ids, NEW n \in DOMAIN chain[id], NEW m \in DOMAIN chain[y],
               chain'[y][m].who = chain'[id][n].who, chain'[y][m].who # None
        PROVE  y = id /\ m = n
    BY <2>3, <2>4, <2>5, SMT
  <2> QED
    BY <2>1, <2>2, <2>5, SMT DEF ChainInv
<1>8. CASE lookups[l].pc = "read" /\ reply[l] # None /\ chain' = chain
  BY <1>5, <1>8, NoRequest
<1>9. CASE lookups[l].pc # "read" /\ chain' = chain
  BY <1>5, <1>9, NoRequest
<1> QED
  BY <1>6, <1>7, <1>8, <1>9 DEF Reading, Looks

\* The store takes the first request of a chunk from its chain.
LEMMA ServingChain ==
    ASSUME HybridInv, Kept, NEW id \in Ids, NEW r, NEW a, Serving(id, r, a)
    PROVE  ChainInv'
<1>1. /\ ops' = ops /\ lookups' = lookups /\ admission' = admission /\ idOf' = idOf /\ catalog' = catalog
      /\ chain' = [chain EXCEPT ![id] = Tail(chain[id])] /\ chain[id] # <<>> /\ r = chain[id][1]
      /\ reply' = IF r.who = None THEN reply ELSE [reply EXCEPT ![r.who] = a]
  BY DEF Serving
<1>2. /\ chain \in [Ids -> Seq(Request)]
      /\ Len(chain[id]) \in Nat /\ Len(chain[id]) > 0 /\ DOMAIN chain[id] = 1..Len(chain[id])
  <2>1. chain \in [Ids -> Seq(Request)]
    BY DEF HybridInv, StoreTypes
  <2>2. chain[id] \in Seq(Request) /\ chain[id] # <<>>
    BY <1>1, <2>1
  <2>3. Len(chain[id]) \in Nat /\ Len(chain[id]) # 0 /\ DOMAIN chain[id] = 1..Len(chain[id])
    BY <2>2, SMT
  <2> QED
    BY <2>1, <2>3, SMT
<1> DEFINE Was(y, n) == IF y = id THEN n + 1 ELSE n
<1>3. ASSUME NEW y \in Ids, NEW n \in DOMAIN chain'[y]
      PROVE  /\ Was(y, n) \in DOMAIN chain[y] /\ chain'[y][n] = chain[y][Was(y, n)] /\ n \in Nat
             /\ y = id => Was(y, n) # 1
  <2>1. CASE y = id
    <3>1. chain'[id] = Tail(chain[id]) /\ chain[id] \in Seq(Request) /\ chain[id] # <<>>
      BY <1>1, <1>2
    <3>2. /\ DOMAIN Tail(chain[id]) = 1..(Len(chain[id]) - 1)
          /\ \A m \in 1..(Len(chain[id]) - 1) : Tail(chain[id])[m] = chain[id][m + 1]
      BY <1>2, <3>1, SMT
    <3> QED
      BY <1>2, <1>3, <2>1, <3>1, <3>2, SMT
  <2>2. CASE y # id
    <3>1. chain'[y] = chain[y] /\ chain[y] \in Seq(Request)
      BY <1>1, <1>2, <2>2
    <3> QED
      BY <1>3, <2>2, <3>1, SMT
  <2> QED
    BY <2>1, <2>2
<1>4. \A z, y \in Ids : \A n \in DOMAIN chain[z] : \A m \in DOMAIN chain[y] :
         chain[y][m].who = chain[z][n].who /\ chain[y][m].who # None => y = z /\ m = n
  BY DEF HybridInv, ChainInv
<1>5. ASSUME NEW y \in Ids, NEW n \in DOMAIN chain'[y] PROVE RequestOk(y, chain[y][n])'
  <2>1. PICK q \in Request : q = chain[y][Was(y, n)] /\ RequestOk(y, q) /\ chain'[y][n] = q
    BY <1>3, RequestFacts, SMT
  <2>2. q.who # None => q.who # r.who
    <3>1. 1 \in DOMAIN chain[id]
      BY <1>2, SMT
    <3>2. Was(y, n) \in DOMAIN chain[y] /\ ~(y = id /\ Was(y, n) = 1)
      BY <1>3
    <3> HIDE DEF Was
    <3> QED
      BY <1>1, <1>4, <2>1, <3>1, <3>2, SMT
  <2>3. q.who # None => reply'[q.who] = reply[q.who]
    <3>1. q.who # None => q.who \in DOMAIN reply
      BY <1>3, <2>1, RequestFacts, SMT DEF HybridInv, StoreTypes
    <3> QED
      BY <1>1, <2>2, <3>1 DEF HybridInv, StoreTypes
  <2>4. RequestOk(y, q)'
    BY <1>1, <2>1, <2>3, RequestStays DEF SameJob, SameSlot
  <2> QED
    BY <2>1, <2>4 DEF RequestOk
<1>6. ASSUME NEW z \in Ids, NEW y \in Ids, NEW n \in DOMAIN chain'[z], NEW m \in DOMAIN chain'[y],
             chain'[y][m].who = chain'[z][n].who, chain'[y][m].who # None
      PROVE  y = z /\ m = n
  <2>1. /\ Was(z, n) \in DOMAIN chain[z] /\ chain'[z][n] = chain[z][Was(z, n)] /\ n \in Nat
        /\ Was(y, m) \in DOMAIN chain[y] /\ chain'[y][m] = chain[y][Was(y, m)] /\ m \in Nat
    BY <1>3
  <2>2. y = z /\ Was(y, m) = Was(z, n)
    <3> HIDE DEF Was
    <3> QED
      BY <1>4, <1>6, <2>1, SMT
  <2> QED
    BY <2>1, <2>2, SMT
<1> QED
  BY <1>5, <1>6 DEF ChainInv

\* Cache::new has one request under way, or none.
LEMMA TrimmingChain ==
    ASSUME HybridInv, Kept, Trimming \/ TrimAnswered
    PROVE  ChainInv'
<1>1. CASE Trimming
  <2>1. /\ admission = "trim" /\ reply' = reply /\ reply[Opener] = None
        /\ \A id \in Ids : chain[id] = <<>>
    BY <1>1 DEF Trimming
  <2>2. \A id \in Ids : DOMAIN chain[id] = {}
    BY <2>1, SMT
  <2>3. CASE chain' = chain
    BY <2>2, <2>3, ChainSame
  <2>4. ASSUME NEW v \in DOMAIN catalog.slots, Ask(v, Opener, "delete", catalog.slots[v].lsn),
               SameSlots(catalog, catalog'), admission' = admission
        PROVE  ChainInv'
    <3>1. v \in Ids /\ catalog.slots[v].lsn \in Nat
      BY <2>4, CatalogFacts DEF Slot, HybridInv, JobTypes
    <3>2. PICK lsn \in Nat : lsn = catalog.slots[v].lsn /\ catalog'.slots[v].lsn = lsn
      BY <2>4, <3>1 DEF SameSlots
    <3>3. v \in DOMAIN catalog'.slots
      BY <2>4 DEF SameSlots
    <3>4. RequestOk(v, [who |-> Opener, kind |-> "delete", lsn |-> lsn])'
      BY <2>1, <2>4, <3>2, <3>3 DEF RequestOk, Opener
    <3>5. Ask(v, Opener, "delete", lsn) /\ Opener \in Nat \cup Lookups
      BY <2>4, <3>2 DEF Opener
    <3> QED
      BY <2>2, <3>1, <3>4, <3>5, ChainAsk
  <2> QED
    BY <1>1, <2>3, <2>4 DEF Trimming
<1>2. CASE TrimAnswered
  <2>1. /\ chain' = chain /\ lookups' = lookups /\ ops' = ops /\ reply[Opener] # None /\ Heard(Opener)
        /\ admission = "trim"
    BY <1>2 DEF TrimAnswered
  <2>2. \A id \in Ids : \A n \in DOMAIN chain[id] : chain[id][n].who # Opener
    BY <2>1, NoRequest
  <2>3. ASSUME NEW id \in Ids, NEW r \in Request, RequestOk(id, r), NEW n \in DOMAIN chain[id],
               chain[id][n] = r
        PROVE  RequestOk(id, r)'
    <3>1. r.who # Opener /\ r.who \notin DOMAIN ops
      BY <2>1, <2>2, <2>3, TrimIsAlone
    <3>2. r.who # None => reply'[r.who] = reply[r.who]
      <4>1. r.who # None => r.who \in DOMAIN reply
        BY <2>3, RequestFacts DEF HybridInv, StoreTypes
      <4> QED
        BY <2>1, <3>1, <4>1 DEF Heard, HybridInv, StoreTypes
    <3> QED
      BY <2>1, <2>3, <3>1, <3>2, RequestKept, HybridAssumption
  <2> QED
    BY <2>1, <2>3, ChainSame
<1> QED
  BY <1>1, <1>2

\* Every request under way is waited for, by one who made no other.
LEMMA ChainKept ==
    ASSUME HybridInv, Stepping, Kept
    PROVE  ChainInv'
<1>1. CASE Quiet
  <2>1. /\ \A j \in DOMAIN ops : ops[j].phase \in Engaged \ {"publish"} => SameJob(j)
        /\ ReadersSame(None) /\ catalog' = catalog /\ chain' = chain /\ reply' = reply
        /\ admission = "trim" => admission' = "trim"
    BY <1>1 DEF Quiet
  <2>2. ASSUME NEW id \in Ids, NEW r \in Request, RequestOk(id, r) PROVE RequestOk(id, r)'
    <3>1. r.who \in Lookups => lookups'[r.who].pc = lookups[r.who].pc
                               /\ lookups'[r.who].key = lookups[r.who].key
      BY <2>1, <2>2, JobIsNobodyElse, HybridAssumption DEF RequestOk, ReadersSame, Opener
    <3> QED
      BY <2>1, <2>2, <3>1, RequestStays DEF SameSlot
  <2> QED
    BY <2>1, <2>2, ChainSame
<1>2. CASE \E i \in DOMAIN ops : Thread(i) /\ Storing(i)
  BY <1>2, StoringChain
<1>3. CASE \E l \in Lookups : \E x : Reading(l, x)
  BY <1>3, ReadingChain
<1>4. CASE Trimming \/ TrimAnswered
  BY <1>4, TrimmingChain
<1>5. CASE \E id \in Ids : \E r, a : Serving(id, r, a)
  BY <1>5, ServingChain
<1> QED
  BY <1>1, <1>2, <1>3, <1>4, <1>5, QuietOrNot

(***************************************************************************)
(* What is on the disk                                                     *)
(***************************************************************************)
\* Only a mutation's own job gives it an outcome, or lets go of what it is engaged in.
LEMMA OwnSteps ==
    ASSUME HybridInv, Stepping, Kept, NEW j \in DOMAIN ops, ops[j].kind \in Mutations, ~Jobbing(j)
    PROVE  /\ ops'[j].result = ops[j].result
           /\ ops[j].phase \in Engaged => ops'[j] = ops[j]
<1>1. ASSUME NEW i \in DOMAIN ops, Jobbing(i)
      PROVE  ops'[j] = ops[j]
  <2>1. Moved(i)
    BY <1>1, JobbingMoves
  <2> QED
    BY <1>1, <2>1 DEF Moved, Changed
<1>2. ASSUME NEW i \in DOMAIN ops, Releasing(i) \/ TakenUp(i)
      PROVE  /\ ops'[j].result = ops[j].result
             /\ ops[j].phase \in Engaged => ops'[j] = ops[j]
  <2>1. Changed(i) /\ ops'[i].result = ops[i].result /\ ops[i].phase \notin Engaged
    BY <1>2 DEF Releasing, TakenUp, Taking, Engaged
  <2> QED
    BY <2>1 DEF Changed
<1>3. ASSUME NEW i \in DOMAIN ops, Ending(i)
      PROVE  /\ ops'[j].result = ops[j].result
             /\ ops[j].phase \in Engaged => ops'[j] = ops[j]
  <2>1. Finishing(i) /\ ops[i].phase = "finish"
    BY <1>3 DEF Ending, Finishing
  <2>2. \A m \in DOMAIN ops : ops'[m].result = ops[m].result
    BY <2>1, FinishKeeps
  <2>3. \/ j = i
        \/ ops'[j] = ops[j]
        \/ ops[j].phase = "pending"
    BY <2>1, FinishKeeps
  <2> QED
    BY <2>1, <2>2, <2>3 DEF Engaged
<1>4. ASSUME NEW i \in DOMAIN ops, Fenced(i) PROVE ops'[j] = ops[j]
  <2>1. Changed(i) /\ ops[i].phase \in {"fence", "flush"}
    BY <1>4 DEF Fenced, Fences
  <2>2. i # j
    BY <2>1 DEF HybridInv, JobInv, PhaseInv, Waiting, Working
  <2> QED
    BY <2>1, <2>2 DEF Changed
<1>5. ASSUME NEW n \in Nat,
             (\E k \in Keys : Mutating(n, k)) \/ (\E l \in Lookups : Filling(n, l)) \/ Fencing(n)
      PROVE  ops'[j] = ops[j]
  BY <1>5 DEF Mutating, Filling, Admitting, Fencing, Added
<1>6. ASSUME (\E l \in Lookups : \E x : Looks(l, x)) \/ (\E k \in Keys : Forgetting(k))
             \/ Trimming \/ TrimAnswered \/ \E id \in Ids : \E r, a : Serving(id, r, a)
      PROVE  ops'[j] = ops[j]
  BY <1>6, CallsLeave
<1> QED
  BY <1>1, <1>2, <1>3, <1>4, <1>5, <1>6 DEF Stepping

\* A mutation that succeeds leaves its chunk on the disk with its value, or with another key,
\* or no chunk at all and none in the catalog.
LEMMA SuccessFacts ==
    ASSUME HybridInv, Stepping, Kept, NEW j \in DOMAIN ops, ops[j].kind \in Mutations,
           ops[j].result = None, ops'[j].result \in {"ok", "unwound"}
    PROVE  \/ disk[Id(j)] # NoChunk /\ disk[Id(j)].value = j
           \/ disk[Id(j)] # NoChunk /\ disk[Id(j)].key # ops[j].key
           \/ disk[Id(j)] = NoChunk /\ Id(j) \notin DOMAIN catalog'.slots
<1>1. Jobbing(j)
  BY OwnSteps, HybridAssumption
<1>2. j \in 1..MaxOps /\ j # None /\ Id(j) \in Ids
  BY JobFacts
<1>3. CASE Publishing(j)
  <2>1. disk[Id(j)].value = j
    BY <1>3 DEF HybridInv, DiskInv, Publishing
  <2> QED
    BY <1>2, <2>1, SMT DEF NoChunk
<1>4. CASE Versioning(j)
  <2>1. /\ ops[j].phase = "start" /\ control = None /\ catalog' = catalog
        /\ Id(j) \in DOMAIN catalog.active \/ Id(j) \notin DOMAIN catalog.slots
    BY <1>4, HybridAssumption DEF Versioning, Moved
  <2>2. \A i \in DOMAIN ops : ops[i].phase = "put" => Id(i) # Id(j)
    BY <2>1, Exclusive DEF Working
  <2>3. Id(j) \notin DOMAIN catalog.slots
    BY <2>1, <2>2 DEF HybridInv, ClaimInv
  <2>4. ASSUME NEW i \in DOMAIN ops, Answered(i, Id(j)) PROVE FALSE
    <3>1. ops[i].phase \in {"put", "delete", "evict"} /\ (ops[i].phase = "put" => Id(i) = Id(j))
      BY <2>4 DEF Answered
    <3>2. ops[i].phase \in {"delete", "evict"} => control = i
      BY DEF HybridInv, ControlInv
    <3> QED
      BY <2>1, <2>2, <3>1, <3>2, JobIsNobodyElse
  <2>5. Tracks(Id(j))
    BY <1>2, <2>4, TrimIsAlone DEF HybridInv, TrackInv
  <2> QED
    BY <2>1, <2>3, <2>5 DEF Tracks
<1>5. CASE Getting(j)
  BY <1>5, HybridAssumption DEF Getting, Moved
<1>6. CASE Deleting(j)
  BY <1>2, <1>6 DEF Deleting, HybridInv, ReplyInv
<1>7. CASE Reserving(j)
  BY <1>7, HybridAssumption DEF Reserving, Moved
<1>8. CASE Evicting(j) \/ Putting(j)
  BY <1>8, HybridAssumption DEF Evicting, Putting, Moved
<1> QED
  BY <1>1, <1>3, <1>4, <1>5, <1>6, <1>7, <1>8 DEF Jobbing

\* An answer stays until the one it is for has heard it.
LEMMA AnswersStay ==
    ASSUME HybridInv, Stepping, Kept, NEW j \in DOMAIN ops, ~Storing(j), reply[j] # None
    PROVE  reply'[j] = reply[j]
<1>1. /\ j \in DOMAIN reply /\ j \notin Lookups /\ j # Opener /\ StoreTypes
  BY JobIsNobodyElse DEF HybridInv, StoreTypes
<1>2. CASE Quiet \/ Trimming
  BY <1>2 DEF Quiet, Trimming
<1>3. ASSUME NEW i \in DOMAIN ops, Storing(i) PROVE reply'[j] = reply[j]
  <2>1. i # j
    BY <1>3
  <2>2. reply' = reply \/ Heard(i)
    BY <1>3 DEF Storing, Reserving, Evicting, Putting, Versioning, Getting, Deleting
  <2> QED
    BY <1>1, <2>1, <2>2 DEF Heard, StoreTypes
<1>4. ASSUME NEW l \in Lookups, NEW x, Reading(l, x) PROVE reply'[j] = reply[j]
  <2>1. reply' = reply \/ Heard(l)
    BY <1>4 DEF Reading, Looks
  <2> QED
    BY <1>1, <2>1 DEF Heard, StoreTypes
<1>5. CASE TrimAnswered
  BY <1>1, <1>5 DEF TrimAnswered, Heard, StoreTypes
<1>6. ASSUME NEW id \in Ids, NEW r, NEW a, Serving(id, r, a) PROVE reply'[j] = reply[j]
  <2>1. RequestOk(id, r) /\ reply' = IF r.who = None THEN reply ELSE [reply EXCEPT ![r.who] = a]
    BY <1>6 DEF Serving
  <2>2. r.who # None => r.who # j
    BY <2>1 DEF RequestOk
  <2> QED
    BY <1>1, <2>1, <2>2 DEF StoreTypes
<1> QED
  BY <1>2, <1>3, <1>4, <1>5, <1>6, QuietOrNot

\* What is stored stays stored.
LEMMA StoredKept ==
    ASSUME HybridInv, Stepping, Kept, NEW v \in DOMAIN ops, ops[v].kind \in Mutations, Stored(v)
    PROVE  Stored(v)'
<1>1. CASE ops[v].result \in {"ok", "unwound"}
  BY <1>1, HybridAssumption DEF Kept, KeepsOp, Stored
<1>2. CASE ops[v].phase = "publish"
  <2>1. CASE Jobbing(v)
    <3>1. Publishing(v)
      BY <1>2, <2>1 DEF Jobbing, Reserving, Evicting, Putting, Versioning, Getting, Deleting
    <3> QED
      BY <3>1 DEF Publishing, Stored
  <2>2. CASE ~Jobbing(v)
    BY <1>2, <2>2, OwnSteps DEF Engaged, Stored
  <2> QED
    BY <2>1, <2>2
<1>3. CASE ops[v].phase = "put" /\ reply[v] # None /\ reply[v].status = "ok"
  <2>1. CASE Jobbing(v)
    <3>1. Putting(v)
      BY <1>3, <2>1 DEF Jobbing, Reserving, Evicting, Publishing, Versioning, Getting, Deleting
    <3> QED
      BY <1>3, <3>1 DEF Putting, Stored
  <2>2. CASE ~Jobbing(v)
    <3>1. reply'[v] = reply[v]
      BY <1>3, <2>2, AnswersStay DEF Jobbing, Storing
    <3>2. ops'[v] = ops[v]
      BY <1>3, <2>2, OwnSteps DEF Engaged
    <3> QED
      BY <1>3, <3>1, <3>2 DEF Stored
  <2> QED
    BY <2>1, <2>2
<1> QED
  BY <1>1, <1>2, <1>3 DEF Stored

\* Versions only grow.
LEMMA LogGrows ==
    ASSUME HybridInv, Stepping, Kept
    PROVE  log.lsn \in Nat /\ log'.lsn \in Nat /\ log.lsn <= log'.lsn
<1>1. log.lsn \in Nat
  BY DEF HybridInv, StoreTypes
<1>2. ASSUME log' = log PROVE log'.lsn \in Nat /\ log.lsn <= log'.lsn
  BY <1>1, <1>2, SMT
<1>3. CASE Quiet \/ Trimming \/ TrimAnswered
  BY <1>2, <1>3 DEF Quiet, Trimming, TrimAnswered
<1>4. ASSUME NEW i \in DOMAIN ops, Storing(i) PROVE log' = log
  BY <1>4 DEF Storing, Reserving, Evicting, Putting, Versioning, Getting, Deleting
<1>5. ASSUME NEW l \in Lookups, NEW x, Reading(l, x) PROVE log' = log
  BY <1>5 DEF Reading, Looks
<1>6. ASSUME NEW id \in Ids, NEW r, NEW a, Serving(id, r, a) PROVE log'.lsn \in Nat /\ log.lsn <= log'.lsn
  <2>1. log' = log \/ log'.lsn = log.lsn + 1
    BY <1>6 DEF Serving
  <2> QED
    BY <1>1, <1>2, <2>1, SMT
<1> QED
  BY <1>1, <1>2, <1>3, <1>4, <1>5, <1>6, QuietOrNot

\* A chunk that is on the disk, or whose deletion the catalog has not heard of, stays current.
LEMMA CurrentKept ==
    ASSUME HybridInv, Stepping, Kept, NEW id \in Ids, NEW c \in Chunk, Current(id, c),
           \/ c = disk[id] /\ c # NoChunk
           \/ disk[id] = NoChunk /\ id \in DOMAIN catalog'.slots
    PROVE  Current(id, c)'
<1>1. /\ c.key \in Keys /\ idOf[c.key] = id /\ c.lsn \in 1..log.lsn
      /\ c.value = 0 \/ (c.value \in OpsOf(c.key) /\ Stored(c.value))
      /\ NothingNewer(c.key, c.value)
  BY DEF Current
<1>2. c.key \in Keys /\ idOf'[c.key] = id /\ c.lsn \in 1..log'.lsn
  <2>1. idOf' = idOf /\ log.lsn \in Nat /\ log'.lsn \in Nat /\ log.lsn <= log'.lsn /\ c.lsn \in Nat
    BY LogGrows DEF Kept, Chunk
  <2> QED
    BY <1>1, <2>1, SMT
<1>3. ASSUME c.value \in OpsOf(c.key), Stored(c.value)
      PROVE  c.value \in OpsOf(c.key)' /\ Stored(c.value)'
  <2>1. PICK v : v = c.value
    OBVIOUS
  <2>2. v \in DOMAIN ops /\ ops[v].kind \in Mutations /\ Stored(v)
    BY <1>3, <2>1 DEF OpsOf
  <2>3. Stored(v)'
    BY <2>2, StoredKept
  <2> QED
    BY <1>3, <2>1, <2>3, OpsOfKept
<1>4. ASSUME NEW j \in OpsOf(c.key)', j > c.value PROVE ops'[j].result \in {None, "error", "corrupt"}
  <2>1. CASE j \in DOMAIN ops
    <3>1. j \in OpsOf(c.key)
      BY <1>4, <2>1, OpsOfKept
    <3>2. /\ ops[j].result \in {None, "error", "corrupt"} /\ ops[j].kind \in Mutations
          /\ ops[j].key = c.key /\ Id(j) = id
      BY <1>1, <1>4, <3>1 DEF NothingNewer, OpsOf, Id
    <3>3. j \in DOMAIN ops' /\ ops'[j] \in Op
      BY <2>1, SMT DEF Kept, KeepsOp
    <3>4. CASE ops[j].result # None
      BY <2>1, <3>2, <3>4 DEF Kept, KeepsOp
    <3>5. CASE ops[j].result = None /\ ops'[j].result \in {"ok", "unwound"}
      <4>1. \/ disk[id] # NoChunk /\ disk[id].value = j
            \/ disk[id] # NoChunk /\ disk[id].key # c.key
            \/ disk[id] = NoChunk /\ id \notin DOMAIN catalog'.slots
        BY <2>1, <3>2, <3>5, SuccessFacts
      <4>2. j # c.value
        <5>1. j \in Nat /\ c.value \in Nat
          <6>1. \A i \in DOMAIN ops : i \in Nat
            BY OpFacts DEF HybridInv
          <6> QED
            BY <1>1, <2>1, <6>1, SMT DEF OpsOf
        <5> QED
          BY <1>4, <5>1, SMT
      <4> QED
        BY <4>1, <4>2
    <3>6. ops'[j].result \in {None, "ok", "error", "corrupt", "unwound"}
      BY <3>3 DEF Op
    <3> QED
      BY <3>4, <3>5, <3>6
  <2>2. CASE j \notin DOMAIN ops
    <3>1. Added /\ j \in DOMAIN ops'
      BY <1>4, <2>2 DEF Kept, OpsOf
    <3> QED
      BY <2>2, <3>1 DEF Added
  <2> QED
    BY <2>1, <2>2
<1>5. NothingNewer(c.key, c.value)'
  BY <1>4 DEF NothingNewer
<1> QED
  BY <1>1, <1>2, <1>3, <1>5 DEF Current

\* Nobody but the store changes the disk.
LEMMA DiskMoves ==
    ASSUME HybridInv, Stepping, Kept
    PROVE  disk' = disk \/ \E id \in Ids : \E r, a : Serving(id, r, a)
<1>1. ASSUME NEW i \in DOMAIN ops, Storing(i) PROVE disk' = disk
  BY <1>1 DEF Storing, Reserving, Evicting, Putting, Versioning, Getting, Deleting
<1>2. ASSUME NEW l \in Lookups, NEW x, Reading(l, x) PROVE disk' = disk
  BY <1>2 DEF Reading, Looks
<1>3. CASE Quiet \/ Trimming \/ TrimAnswered
  BY <1>3 DEF Quiet, Trimming, TrimAnswered
<1> QED
  BY <1>1, <1>2, <1>3, QuietOrNot

\* What the store changes of the disk: the chunk of the request it serves.
LEMMA ServingDisk ==
    ASSUME HybridInv, NEW id \in Ids, NEW r, NEW a, Serving(id, r, a)
    PROVE  /\ \A x \in Ids : x # id => disk'[x] = disk[x]
           /\ \/ disk' = disk
              \/ r.kind = "put" /\ a.status = "ok" /\ disk'[id] = a.chunk
              \/ r.kind = "delete" /\ disk'[id] = NoChunk /\ disk[id] # NoChunk
<1>1. disk \in [Ids -> Chunk]
  BY DEF HybridInv, StoreTypes
<1>2. \/ disk' = disk
      \/ r.kind = "put" /\ a.status = "ok" /\ disk' = [disk EXCEPT ![id] = a.chunk]
      \/ r.kind = "delete" /\ disk[id] # NoChunk /\ disk' = [disk EXCEPT ![id] = NoChunk]
  BY DEF Serving
<1> QED
  BY <1>1, <1>2

\* A chunk just written is current: its job is the newest of the chunk to have started.
LEMMA WrittenIsCurrent ==
    ASSUME HybridInv, Kept, NEW id \in Ids, NEW r, NEW a, Serving(id, r, a),
           r.kind = "put", a.status = "ok", NEW c, c = a.chunk
    PROVE  Current(id, c)'
<1>1. PICK w : w = r.who
  OBVIOUS
<1>2. /\ w \in DOMAIN ops /\ ops[w].phase = "put" /\ Id(w) = id
  <2>1. \/ w \in DOMAIN ops /\ ops[w].phase = r.kind /\ Id(w) = id
        \/ w = Opener /\ admission = "trim"
    <3>1. r.kind \in {"put", "delete"} /\ r.kind # "delete"
      OBVIOUS
    <3> QED
      BY <1>1, <3>1, ServingAlone
  <2>2. RequestOk(id, r)
    BY DEF Serving
  <2>3. w # Opener
    BY <1>1, <2>2, JobIsNobodyElse DEF RequestOk
  <2> QED
    BY <2>1, <2>3
<1>3. /\ c.lsn = log.lsn + 1 /\ c.value = w /\ c.key = ops[w].key /\ log'.lsn = log.lsn + 1
      /\ reply' = IF w = None THEN reply ELSE [reply EXCEPT ![w] = a]
      /\ ops' = ops /\ idOf' = idOf /\ a \in Reply
  <2>1. a.status # "error" /\ r.kind # "get" /\ r.kind # "delete"
    OBVIOUS
  <2> QED
    BY <1>1, <2>1 DEF Serving
<1>4. /\ w \in 1..MaxOps /\ w # None /\ w \in Nat /\ log.lsn \in Nat /\ ops[w].key \in Keys
      /\ ops[w].kind \in Mutations
  <2>1. ops[w].kind \in Mutations /\ w \in 1..MaxOps /\ w \in Nat
    BY <1>2, OpFacts DEF HybridInv, JobInv, PhaseInv, Mutations
  <2> QED
    BY <1>2, <2>1, JobFacts DEF HybridInv, StoreTypes
<1>5. reply'[w] = a /\ a # None
  BY <1>3, <1>4, HybridAssumption DEF HybridInv, StoreTypes
<1>6. c.key \in Keys /\ idOf'[c.key] = id /\ c.lsn \in 1..log'.lsn
  BY <1>2, <1>3, <1>4, SMT DEF Id
<1>7. c.value \in OpsOf(c.key)' /\ Stored(c.value)'
  <2>1. w \in OpsOf(c.key)' /\ Stored(w)'
    BY <1>2, <1>3, <1>4, <1>5 DEF OpsOf, Stored
  <2> QED
    BY <1>3, <2>1
<1>8. ASSUME NEW j \in OpsOf(c.key)', j > c.value PROVE ops'[j].result \in {None, "error", "corrupt"}
  <2>1. j \in DOMAIN ops /\ ops[j].kind \in Mutations /\ ops[j].key = ops[w].key /\ w < j
    BY <1>3, <1>8 DEF OpsOf
  <2>2. ~Started(j)
    BY <1>2, <1>4, <2>1 DEF HybridInv, JobInv, CoordinatorOrder, Ordered, Done, Id
  <2>3. ops[j].result = None
    BY <2>1, <2>2 DEF Started, HybridInv, JobInv, PhaseInv
  <2> QED
    BY <1>3, <2>3
<1>9. NothingNewer(c.key, c.value)'
  BY <1>8 DEF NothingNewer
<1> QED
  BY <1>6, <1>7, <1>9 DEF Current

\* What is on the disk is current, and a write to be published is there.
LEMMA DiskKept ==
    ASSUME HybridInv, Stepping, Kept
    PROVE  DiskInv'
<1>1. disk \in [Ids -> Chunk] /\ idOf' = idOf
  BY DEF HybridInv, StoreTypes, Kept
<1>2. ASSUME NEW id \in Ids, disk'[id] # NoChunk PROVE Current(id, disk[id])'
  <2>1. PICK c : c = disk'[id]
    OBVIOUS
  <2>2. Current(id, c)'
    <3>1. CASE disk'[id] = disk[id]
      <4>1. c \in Chunk /\ c = disk[id] /\ c # NoChunk
        BY <1>1, <1>2, <2>1, <3>1
      <4>2. Current(id, c)
        BY <4>1 DEF HybridInv, DiskInv
      <4> QED
        BY <4>1, <4>2, CurrentKept
    <3>2. CASE disk'[id] # disk[id]
      <4>0. PICK y \in Ids : \E r, a : Serving(y, r, a)
        BY <3>2, DiskMoves
      <4>1. PICK r, a : Serving(y, r, a)
        BY <4>0
      <4>2. y = id /\ r.kind = "put" /\ a.status = "ok" /\ disk'[id] = a.chunk
        BY <1>2, <3>2, <4>1, ServingDisk
      <4> QED
        BY <2>1, <4>1, <4>2, WrittenIsCurrent
    <3> QED
      BY <3>1, <3>2
  <2> QED
    BY <2>1, <2>2 DEF Current, NothingNewer, Stored
<1>3. ASSUME NEW i \in DOMAIN ops', ops'[i].phase = "publish"
      PROVE  disk'[Id(i)'].value = i /\ disk'[Id(i)'].key = ops'[i].key
  <2>1. ASSUME SameJob(i)
        PROVE  /\ i \in DOMAIN ops /\ ops[i].phase = "publish" /\ Id(i)' = Id(i) /\ ops'[i].key = ops[i].key
               /\ disk[Id(i)].value = i /\ disk[Id(i)].key = ops[i].key
    BY <1>3, <2>1 DEF SameJob, Kept, KeepsOp, HybridInv, DiskInv
  <2>2. ASSUME SameJob(i), disk' = disk
        PROVE  disk'[Id(i)'].value = i /\ disk'[Id(i)'].key = ops'[i].key
    BY <2>1, <2>2
  <2>3. CASE Quiet
    BY <1>3, <2>2, <2>3 DEF Quiet, Engaged
  <2>4. ASSUME NEW m \in DOMAIN ops, Storing(m)
        PROVE  disk'[Id(i)'].value = i /\ disk'[Id(i)'].key = ops'[i].key
    <3>1. OthersSame(m) /\ disk' = disk
      <4>1. Moved(m)
        BY <2>4, JobbingMoves DEF Jobbing, Storing
      <4>2. disk' = disk
        BY <2>4 DEF Storing, Reserving, Evicting, Putting, Versioning, Getting, Deleting
      <4> QED
        BY <4>1, <4>2, MovedOthers
    <3>2. CASE i # m
      BY <1>3, <2>2, <3>1, <3>2 DEF OthersSame, Engaged
    <3>3. CASE i = m
      <4>1. Putting(i) /\ reply[i].status = "ok"
        BY <1>3, <2>4, <3>3 DEF Storing, Reserving, Evicting, Putting, Versioning, Getting, Deleting
      <4>2. reply[i] # None /\ ops[i].phase = "put" /\ i \in 1..MaxOps /\ i \in DOMAIN ops
        BY <2>4, <3>3, <4>1, JobIsNobodyElse DEF Putting
      <4>3. disk[Id(i)].value = i /\ disk[Id(i)].key = ops[i].key
        BY <4>1, <4>2 DEF HybridInv, ReplyInv
      <4>4. Id(i)' = Id(i) /\ ops'[i].key = ops[i].key
        BY <4>2 DEF Kept, KeepsOp
      <4> QED
        BY <3>1, <4>3, <4>4
    <3> QED
      BY <3>2, <3>3
  <2>5. ASSUME NEW l \in Lookups, NEW x, Reading(l, x) PROVE SameJob(i) /\ disk' = disk
    BY <1>3, <2>5 DEF Reading, Looks, SameJob
  <2>6. CASE Trimming \/ TrimAnswered
    BY <1>3, <2>2, <2>6 DEF Trimming, TrimAnswered, SameJob
  <2>7. ASSUME NEW y \in Ids, NEW r, NEW a, Serving(y, r, a)
        PROVE  disk'[Id(i)'].value = i /\ disk'[Id(i)'].key = ops'[i].key
    <3>1. SameJob(i) /\ ops' = ops
      BY <1>3, <2>7 DEF Serving, SameJob
    <3>2. /\ i \in DOMAIN ops /\ ops[i].phase = "publish" /\ Id(i)' = Id(i) /\ ops'[i].key = ops[i].key
          /\ disk[Id(i)].value = i /\ disk[Id(i)].key = ops[i].key
      BY <2>1, <3>1
    <3>3. Id(i) \in Ids
      <4>1. ops[i].kind \in Mutations
        BY <3>2 DEF HybridInv, JobInv, PhaseInv, Mutations
      <4> QED
        BY <3>2, <4>1, JobFacts
    <3>4. CASE y # Id(i) \/ disk' = disk
      <4>1. disk'[Id(i)] = disk[Id(i)]
        BY <2>7, <3>3, <3>4, ServingDisk
      <4> QED
        BY <3>2, <4>1
    <3>5. CASE y = Id(i) /\ disk' # disk
      <4>1. r.kind \in {"put", "delete"}
        BY <2>7, <3>5, ServingDisk
      <4>2. i = r.who
        BY <2>7, <3>2, <3>5, <4>1, ServingAlone
      <4>3. ops[r.who].phase = r.kind \/ ops[r.who].phase = "evict"
        BY <2>7, <3>2, <4>1, <4>2, ServingAlone
      <4> QED
        BY <3>2, <4>1, <4>2, <4>3
    <3> QED
      BY <3>4, <3>5
  <2> QED
    BY <2>2, <2>3, <2>4, <2>5, <2>6, <2>7, QuietOrNot
<1> QED
  BY <1>2, <1>3 DEF DiskInv

(***************************************************************************)
(* What lookups have read                                                  *)
(***************************************************************************)
\* What ReadInv says of a chunk c that was read at id.
ReadCurrent(id, c) ==
    /\ c.lsn \in 1..log.lsn
    /\ c.lsn = disk[id].lsn => c = disk[id]
    /\ disk[id] = NoChunk /\ id \in DOMAIN catalog.slots
          /\ catalog.slots[id].lsn = c.lsn => Current(id, c)

\* A step leaves a slot as it is, unless it brings it in line with the disk.
LEMMA SlotMoves ==
    ASSUME HybridInv, Stepping, Kept, NEW id \in Ids
    PROVE  SameSlot(id) \/ Tracks(id)'
<1>1. CASE Quiet \/ \E y \in Ids : \E r, a : Serving(y, r, a)
  BY <1>1, SMT DEF Quiet, Serving, SameSlot
<1>2. ASSUME NEW i \in DOMAIN ops, Storing(i) PROVE SameSlot(id) \/ Tracks(id)'
  BY <1>2, StoringSlots
<1>3. ASSUME NEW l \in Lookups, NEW x, Reading(l, x) PROVE SameSlot(id)
  BY <1>3 DEF Reading, Looks, SameSlots, SameSlot
<1>4. CASE Trimming
  BY <1>4 DEF Trimming, SameSlots, SameSlot
<1>5. CASE TrimAnswered
  <2>1. CASE catalog' = catalog
    BY <2>1 DEF SameSlot
  <2>2. CASE catalog' # catalog
    <3>1. /\ reply[Opener] # None /\ reply[Opener].status = "ok" /\ disk' = disk
          /\ SameBut(catalog, catalog', reply[Opener].id)
          /\ reply[Opener].id \notin DOMAIN catalog'.slots
      BY <1>5, <2>2 DEF TrimAnswered
    <3>2. CASE id # reply[Opener].id
      BY <3>1, <3>2 DEF SameBut, SameSlot
    <3>3. CASE id = reply[Opener].id
      <4>1. disk[id] = NoChunk
        BY <3>1, <3>3 DEF HybridInv, ReplyInv
      <4> QED
        BY <3>1, <3>3, <4>1 DEF Tracks
    <3> QED
      BY <3>2, <3>3
  <2> QED
    BY <2>1, <2>2
<1> QED
  BY <1>1, <1>2, <1>3, <1>4, <1>5, QuietOrNot

\* A deletion names the version of the slot.
LEMMA DeletionNamesSlot ==
    ASSUME HybridInv, NEW id \in Ids, NEW r \in Request, RequestOk(id, r), r.kind = "delete"
    PROVE  r.lsn = catalog.slots[id].lsn
  BY SMT DEF RequestOk, HybridInv, ClaimInv

\* What a lookup has read stays current as long as its slot stays.
LEMMA ReadCurrentKept ==
    ASSUME HybridInv, Stepping, Kept, NEW id \in Ids, NEW c \in Chunk, ReadCurrent(id, c)
    PROVE  ReadCurrent(id, c)'
<1>1. /\ c.lsn \in 1..log.lsn /\ log.lsn \in Nat /\ log'.lsn \in Nat /\ log.lsn <= log'.lsn
      /\ c.lsn \in Nat /\ disk[id] \in Chunk
  BY LogGrows DEF ReadCurrent, Chunk, HybridInv, StoreTypes
<1>2. c.lsn \in 1..log'.lsn
  BY <1>1, SMT
<1>3. ASSUME c.lsn = disk'[id].lsn PROVE c = disk'[id]
  <2>1. CASE disk'[id] = disk[id]
    BY <1>3, <2>1 DEF ReadCurrent
  <2>2. CASE disk'[id] # disk[id]
    <3>1. PICK y \in Ids : \E r, a : Serving(y, r, a)
      BY <2>2, DiskMoves
    <3>2. PICK r, a : Serving(y, r, a)
      BY <3>1
    <3>3. y = id /\ (\/ r.kind = "put" /\ a.status = "ok" /\ disk'[id] = a.chunk
                     \/ r.kind = "delete" /\ disk'[id] = NoChunk)
      BY <2>2, <3>2, ServingDisk
    <3>4. CASE r.kind = "put" /\ a.status = "ok" /\ disk'[id] = a.chunk
      <4>1. a.chunk.lsn = log.lsn + 1
        BY <3>2, <3>4 DEF Serving
      <4> QED
        BY <1>1, <1>3, <3>4, <4>1, SMT
    <3>5. CASE disk'[id] = NoChunk
      <4>1. disk'[id].lsn = 0
        BY <3>5, SMT DEF NoChunk
      <4> QED
        BY <1>1, <1>3, <4>1, SMT
    <3> QED
      BY <3>3, <3>4, <3>5
  <2> QED
    BY <2>1, <2>2
<1>4. ASSUME disk'[id] = NoChunk, id \in DOMAIN catalog'.slots, catalog'.slots[id].lsn = c.lsn
      PROVE  Current(id, c)'
  <2>1. SameSlot(id)
    BY <1>4, SlotMoves DEF Tracks
  <2>2. id \in DOMAIN catalog.slots /\ catalog.slots[id].lsn = c.lsn
    BY <1>4, <2>1 DEF SameSlot
  <2>3. CASE disk[id] = NoChunk
    BY <1>4, <2>2, <2>3, CurrentKept DEF ReadCurrent
  <2>4. CASE disk[id] # NoChunk
    <3>1. PICK y \in Ids : \E r, a : Serving(y, r, a)
      BY <1>4, <2>4, DiskMoves
    <3>2. PICK r, a : Serving(y, r, a)
      BY <3>1
    <3>3. y = id /\ r \in Request /\ RequestOk(id, r)
      BY <1>4, <2>4, <3>2, ServingDisk, ZenonT(30) DEF Serving
    <3>4. r.kind = "delete"
      <4>1. ASSUME r.kind = "put", a.status = "ok" PROVE a.chunk # NoChunk
        <5>1. a.chunk.lsn = log.lsn + 1
          BY <3>2, <4>1 DEF Serving
        <5> QED
          BY <1>1, <5>1, SMT DEF NoChunk
      <4> QED
        BY <1>4, <2>4, <3>2, <3>3, <4>1, ServingDisk
    <3>5. c.lsn = disk[id].lsn
      BY <2>2, <3>3, <3>4, DeletionFinds, DeletionNamesSlot, ZenonT(30)
    <3>6. c = disk[id]
      BY <3>5 DEF ReadCurrent
    <3>7. Current(id, c)
      BY <2>4, <3>6 DEF HybridInv, DiskInv
    <3> QED
      BY <2>4, <3>6, <3>7, CurrentKept
  <2> QED
    BY <2>3, <2>4
<1> QED
  BY <1>2, <1>3, <1>4 DEF ReadCurrent

\* What a lookup has read is the chunk of its version, and current until its slot goes.
LEMMA ReadKept ==
    ASSUME HybridInv, Stepping, Kept
    PROVE  ReadInv'
<1>1. /\ reply \in [{Opener} \cup Lookups \cup 1..MaxOps -> Reply \cup {None}] /\ idOf \in [Keys -> Ids]
      /\ idOf' = idOf /\ None \notin Lookups /\ disk \in [Ids -> Chunk]
  BY HybridAssumption DEF HybridInv, StoreTypes, CallTypes, Kept
<1>2. SUFFICES ASSUME NEW l \in Lookups, reply'[l] # None, reply'[l].status = "ok", reply'[l].chunk # NoChunk
               PROVE  ReadCurrent(idOf[lookups[l].key], reply[l].chunk)'
  BY DEF ReadInv, ReadCurrent
<1>3. CASE reply'[l] = reply[l] /\ lookups'[l].key = lookups[l].key
  <2>1. lookups[l].pc = "read" /\ reply[l] # None /\ reply[l].status = "ok" /\ reply[l].chunk # NoChunk
    BY <1>2, <1>3 DEF HybridInv, ReplyInv
  <2>2. lookups[l].key \in Keys
    BY <2>1 DEF HybridInv, LeaseInv
  <2>3. PICK id \in Ids : id = idOf[lookups[l].key]
    BY <1>1, <2>2
  <2>4. PICK c \in Chunk : c = reply[l].chunk
    BY <1>1, <2>1 DEF Reply
  <2>5. ReadCurrent(id, c)
    BY <2>1, <2>3, <2>4 DEF HybridInv, ReadInv, ReadCurrent
  <2>6. ReadCurrent(id, c)'
    BY <2>5, ReadCurrentKept
  <2>7. id = idOf'[lookups'[l].key] /\ c = reply'[l].chunk
    BY <1>1, <1>3, <2>3, <2>4
  <2> QED
    BY <2>6, <2>7 DEF ReadCurrent, Current, NothingNewer, Stored
<1>4. ASSUME NEW y \in Ids, NEW r, NEW a, Serving(y, r, a), r.who = l
      PROVE  ReadCurrent(idOf[lookups[l].key], reply[l].chunk)'
  <2>1. /\ RequestOk(y, r) /\ lookups' = lookups /\ reply' = [reply EXCEPT ![l] = a]
    BY <1>1, <1>4 DEF Serving
  <2>2. r.kind = "get" /\ idOf[lookups[l].key] = y
    BY <1>1, <1>4, <2>1, JobIsNobodyElse, HybridAssumption DEF RequestOk, Opener
  <2>3. reply'[l] = a
    BY <1>1, <2>1
  <2>4. a.chunk = disk[y] /\ disk' = disk /\ log' = log
    BY <1>2, <1>4, <2>2, <2>3 DEF Serving
  <2>5. Current(y, disk[y])
    BY <1>2, <2>3, <2>4 DEF HybridInv, DiskInv
  <2>6. disk[y].lsn \in 1..log.lsn
    BY <2>5 DEF Current
  <2>7. reply'[l].chunk = disk'[y] /\ idOf'[lookups'[l].key] = y
    BY <1>1, <2>1, <2>2, <2>3, <2>4
  <2> QED
    BY <1>2, <2>4, <2>6, <2>7 DEF ReadCurrent
<1>5. ASSUME ReadersSame(None), reply'[l] = reply[l] PROVE lookups'[l].key = lookups[l].key
  <2>1. lookups[l].pc = "read"
    BY <1>2, <1>5 DEF HybridInv, ReplyInv
  <2> QED
    BY <1>1, <1>5, <2>1 DEF ReadersSame
<1>6. CASE Quiet
  BY <1>3, <1>5, <1>6 DEF Quiet
<1>7. ASSUME NEW i \in DOMAIN ops, Storing(i) PROVE ReadCurrent(idOf[lookups[l].key], reply[l].chunk)'
  <2>1. Moved(i) /\ (reply' = reply \/ Heard(i)) /\ i # l
    <3>1. reply' = reply \/ Heard(i)
      BY <1>7 DEF Storing, Reserving, Evicting, Putting, Versioning, Getting, Deleting
    <3> QED
      BY <1>7, <3>1, JobbingMoves, JobIsNobodyElse DEF Storing, Jobbing
  <2>2. reply'[l] = reply[l]
    BY <1>1, <2>1 DEF Heard
  <2> QED
    BY <1>3, <2>1, <2>2 DEF Moved
<1>8. ASSUME NEW m \in Lookups, NEW x, Reading(m, x)
      PROVE  ReadCurrent(idOf[lookups[l].key], reply[l].chunk)'
  <2>1. ReadersSame(m) /\ (reply' = reply \/ Heard(m))
    BY <1>8, LooksOthers DEF Reading, Looks
  <2>2. m # l
    <3>1. CASE Heard(l)
      BY <1>1, <1>2, <3>1 DEF Heard
    <3>2. CASE ~Heard(l) /\ m = l
      <4>1. lookups[l].pc = "get" /\ reply' = reply
        BY <1>8, <3>2 DEF Reading, Looks
      <4> QED
        BY <1>2, <4>1 DEF HybridInv, ReplyInv
    <3>3. CASE ~Heard(l) /\ m # l
      BY <3>3
    <3> QED
      BY <3>1, <3>2, <3>3
  <2>3. reply'[l] = reply[l]
    BY <1>1, <2>1, <2>2 DEF Heard
  <2>4. lookups[l].pc = "read"
    BY <1>2, <2>3 DEF HybridInv, ReplyInv
  <2> QED
    BY <1>3, <2>1, <2>2, <2>3, <2>4 DEF ReadersSame
<1>9. CASE Trimming \/ TrimAnswered
  <2>1. lookups' = lookups /\ (reply' = reply \/ Heard(Opener)) /\ Opener # l
    BY <1>9, HybridAssumption DEF Trimming, TrimAnswered, Opener
  <2> QED
    BY <1>1, <1>3, <2>1 DEF Heard
<1>10. ASSUME NEW y \in Ids, NEW r, NEW a, Serving(y, r, a), r.who # l
       PROVE  ReadCurrent(idOf[lookups[l].key], reply[l].chunk)'
  <2>1. lookups' = lookups /\ (reply' = reply \/ reply' = [reply EXCEPT ![r.who] = a])
    BY <1>10 DEF Serving
  <2> QED
    BY <1>1, <1>3, <1>10, <2>1
<1> QED
  BY <1>4, <1>6, <1>7, <1>8, <1>9, <1>10, QuietOrNot

(***************************************************************************)
(* Types                                                                   *)
(***************************************************************************)
\* The store's answers are of their type.
LEMMA ServingTypes ==
    ASSUME HybridInv, NEW id, NEW r, NEW a, Serving(id, r, a)
    PROVE  StoreTypes'
<1>1. StoreTypes /\ id \in Ids /\ chain[id] \in Seq(Request) /\ chain[id] # <<>> /\ NoChunk \in Chunk
  BY DEF HybridInv, StoreTypes, Serving, NoChunk, Chunk
<1>2. Tail(chain[id]) \in Seq(Request)
  BY <1>1, SMT
<1>3. chain' \in [Ids -> Seq(Request)]
  BY <1>1, <1>2 DEF StoreTypes, Serving
<1>4. disk' \in [Ids -> Chunk]
  <2>1. a.chunk \in Chunk
    BY DEF Serving, Reply
  <2> QED
    BY <1>1, <2>1 DEF StoreTypes, Serving
<1>5. reply' \in [{Opener} \cup Lookups \cup 1..MaxOps -> Reply \cup {None}]
  BY <1>1 DEF StoreTypes, Serving
<1>6. log' \in [lsn : Nat, free : Int, room : Int]
  BY DEF Serving
<1> QED
  BY <1>3, <1>4, <1>5, <1>6 DEF StoreTypes

\* So are the requests of lookups, and what remains of those that were dropped.
LEMMA LooksTypes ==
    ASSUME HybridInv, NEW l \in Lookups, NEW x, Looks(l, x)
    PROVE  JobTypes' /\ StoreTypes'
<1>1. StoreTypes /\ JobTypes /\ catalog \in CatalogState /\ l \in {Opener} \cup Lookups \cup 1..MaxOps
  BY LookupFacts DEF HybridInv, JobTypes
<1>2. UNCHANGED <<taken, queues, fence, failures, control, disk, log>>
  BY DEF Looks
<1>3. catalog' \in CatalogState
  BY <1>1 DEF Looks, SameSlots
<1>4. reply' \in [{Opener} \cup Lookups \cup 1..MaxOps -> Reply \cup {None}]
  <2>1. reply' = reply \/ Heard(l)
    BY DEF Looks
  <2> QED
    BY <1>1, <2>1, HeardFacts DEF StoreTypes
<1>5. chain' \in [Ids -> Seq(Request)]
  <2>1. CASE chain' = chain
    BY <1>1, <2>1 DEF StoreTypes
  <2>2. CASE Ask(idOf[lookups[l].key], l, "get", 0)
    <3>1. "get" \in {"get", "put", "delete"} /\ 0 \in Nat /\ l \in Nat \cup Lookups \cup {None}
      OBVIOUS
    <3> QED
      BY <1>1, <2>2, <3>1, AskFacts
  <2>3. CASE chain' = [id \in Ids |-> [n \in DOMAIN chain[id] |->
                          IF chain[id][n].who = l THEN [chain[id][n] EXCEPT !.who = None]
                          ELSE chain[id][n]]]
    <3>1. ASSUME NEW id \in Ids PROVE chain'[id] \in Seq(Request)
      <4>1. chain[id] \in Seq(Request) /\ chain[id] \in [1..Len(chain[id]) -> Request]
            /\ Len(chain[id]) \in Nat /\ DOMAIN chain[id] = 1..Len(chain[id])
        BY <1>1, SMT DEF StoreTypes
      <4>2. \A q \in Request : [q EXCEPT !.who = None] \in Request
        BY DEF Request
      <4>3. chain'[id] \in [1..Len(chain[id]) -> Request]
        BY <2>3, <4>1, <4>2
      <4> QED
        BY <4>1, <4>3, SMT
    <3> QED
      BY <2>3, <3>1
  <2> QED
    BY <2>1, <2>2, <2>3 DEF Looks
<1>6. JobTypes'
  BY <1>1, <1>2, <1>3 DEF JobTypes
<1>7. StoreTypes'
  BY <1>1, <1>2, <1>4, <1>5 DEF StoreTypes
<1> QED
  BY <1>6, <1>7

\* Every step keeps the types.
LEMMA TypesKept ==
    ASSUME HybridInv, Stepping, Kept, registry' \in [Keys -> KeyState \cup {None}],
           lookups' \in [Lookups -> Lookup]
    PROVE  CallTypes' /\ JobTypes' /\ StoreTypes'
<1>1. JobTypes /\ StoreTypes /\ CallTypes /\ catalog \in CatalogState
  BY DEF HybridInv, JobTypes
<1>2. admission' \in {"trim", "open", "closed", "failed"} => CallTypes'
  <2>1. memory' \in [Keys -> Nat \cup {None}] /\ lookups' \in [Lookups -> Lookup]
        /\ registry' \in [Keys -> KeyState \cup {None}]
    BY MemoryKept
  <2>2. idOf' \in [Keys -> Ids] /\ ops' \in Seq(Op) /\ Len(ops') <= MaxOps
    BY <1>1 DEF Kept, CallTypes
  <2> QED
    BY <2>1, <2>2 DEF CallTypes
<1>3. admission \in {"trim", "open", "closed", "failed"}
  BY <1>1 DEF CallTypes
<1>4. UNCHANGED <<disk, chain, reply, log>> => StoreTypes'
  BY <1>1 DEF StoreTypes
<1>5. ASSUME NEW i \in DOMAIN ops, Jobbing(i) PROVE CallTypes' /\ JobTypes' /\ StoreTypes'
  BY <1>2, <1>3, <1>5, JobbingTypes
<1>6. ASSUME NEW i \in DOMAIN ops, Releasing(i) PROVE CallTypes' /\ JobTypes' /\ StoreTypes'
  <2>1. JobTypes'
    BY <1>1, <1>6 DEF Releasing, JobTypes
  <2> QED
    BY <1>2, <1>3, <1>4, <1>6, <2>1 DEF Releasing
<1>7. ASSUME NEW i \in DOMAIN ops, Ending(i) PROVE CallTypes' /\ JobTypes' /\ StoreTypes'
  <2>1. Id(i) \in Ids /\ queues[Id(i)] \in Seq(Nat) /\ queues \in [Ids -> Seq(Nat)]
    BY <1>1, <1>7, JobFacts DEF Ending, Finishing, JobTypes
  <2>2. queues[Id(i)] # <<>> => Tail(queues[Id(i)]) \in Seq(Nat)
    BY <2>1, SMT
  <2>3. queues' \in [Ids -> Seq(Nat)]
    BY <1>7, <2>1, <2>2 DEF Ending, Finishing
  <2>4. JobTypes'
    BY <1>1, <1>7, <2>3 DEF Ending, Finishing, JobTypes
  <2> QED
    BY <1>2, <1>3, <1>4, <1>7, <2>4 DEF Ending
<1>8. ASSUME NEW i \in DOMAIN ops, Fenced(i) PROVE CallTypes' /\ JobTypes' /\ StoreTypes'
  <2>1. fence' \in {fence, None} /\ failures' \in {failures, None}
    BY <1>8 DEF Fenced, Fences
  <2>2. JobTypes'
    BY <1>1, <1>8, <2>1 DEF Fenced, JobTypes
  <2> QED
    BY <1>2, <1>3, <1>4, <1>8, <2>2 DEF Fenced
<1>9. ASSUME NEW i \in DOMAIN ops, TakenUp(i) PROVE CallTypes' /\ JobTypes' /\ StoreTypes'
  <2>1. i \in Nat /\ taken' = i /\ fence' \in {fence, i} /\ failures' = failures
    BY <1>1, <1>9, OpFacts DEF TakenUp, Taking
  <2>2. queues' \in [Ids -> Seq(Nat)]
    <3>1. CASE queues' = queues
      BY <1>1, <3>1 DEF JobTypes
    <3>2. CASE ops[i].kind \in Mutations /\ queues' = [queues EXCEPT ![Id(i)] = Append(@, i)]
      <4>1. Id(i) \in Ids /\ queues[Id(i)] \in Seq(Nat)
        BY <1>1, <3>2, JobFacts DEF JobTypes
      <4>2. Append(queues[Id(i)], i) \in Seq(Nat)
        BY <2>1, <4>1, SMT
      <4> QED
        BY <1>1, <3>2, <4>1, <4>2 DEF JobTypes
    <3> QED
      BY <1>9, <3>1, <3>2 DEF TakenUp, Taking
  <2>3. JobTypes'
    BY <1>1, <1>9, <2>1, <2>2 DEF TakenUp, JobTypes
  <2> QED
    BY <1>2, <1>3, <1>4, <1>9, <2>3 DEF TakenUp
<1>10. ASSUME NEW n, (\E k \in Keys : Mutating(n, k)) \/ (\E l \in Lookups : Filling(n, l)) \/ Fencing(n)
       PROVE  CallTypes' /\ JobTypes' /\ StoreTypes'
  <2>1. /\ Added /\ admission' \in {"open", "closed"} /\ UNCHANGED <<catalog, disk, chain, reply, log>>
    BY <1>10 DEF Mutating, Filling, Admitting, Fencing
  <2>2. JobTypes'
    BY <1>1, <2>1 DEF Added, JobTypes, jobVars
  <2> QED
    BY <1>2, <1>4, <2>1, <2>2
<1>11. ASSUME NEW l \in Lookups, NEW x, Looks(l, x) PROVE CallTypes' /\ JobTypes' /\ StoreTypes'
  <2>1. admission' = admission
    BY <1>11 DEF Looks
  <2> QED
    BY <1>2, <1>3, <1>11, <2>1, LooksTypes
<1>12. ASSUME NEW k \in Keys, Forgetting(k) PROVE CallTypes' /\ JobTypes' /\ StoreTypes'
  <2>1. JobTypes'
    BY <1>1, <1>12 DEF Forgetting, JobTypes
  <2> QED
    BY <1>2, <1>3, <1>4, <1>12, <2>1 DEF Forgetting
<1>13. ASSUME NEW id \in Ids, NEW r, NEW a, Serving(id, r, a) PROVE CallTypes' /\ JobTypes' /\ StoreTypes'
  <2>1. JobTypes'
    BY <1>1, <1>13 DEF Serving, JobTypes
  <2>2. admission' = admission
    BY <1>13 DEF Serving
  <2> QED
    BY <1>2, <1>3, <1>13, <2>1, <2>2, ServingTypes
<1>14. CASE Trimming
  <2>1. /\ catalog' \in CatalogState /\ control' \in {control, None}
        /\ UNCHANGED <<taken, queues, fence, failures, disk, reply, log>>
        /\ admission' \in {admission, "open"}
    BY <1>1, <1>14 DEF Trimming, SameSlots
  <2>2. JobTypes'
    BY <1>1, <2>1 DEF JobTypes
  <2>3. chain' \in [Ids -> Seq(Request)]
    <3>1. CASE chain' = chain
      BY <1>1, <3>1 DEF StoreTypes
    <3>2. CASE \E id \in DOMAIN catalog.slots : Ask(id, Opener, "delete", catalog.slots[id].lsn)
      <4>1. PICK id \in DOMAIN catalog.slots : Ask(id, Opener, "delete", catalog.slots[id].lsn)
        BY <3>2
      <4>2. PICK lsn \in Nat : lsn = catalog.slots[id].lsn
        BY <1>1, CatalogFacts DEF Slot
      <4>3. Ask(id, 0, "delete", lsn) /\ "delete" \in {"get", "put", "delete"}
            /\ 0 \in Nat \cup Lookups \cup {None}
        BY <4>1, <4>2 DEF Opener
      <4> QED
        BY <1>1, <4>3, AskFacts
    <3> QED
      BY <1>14, <3>1, <3>2 DEF Trimming
  <2>4. StoreTypes'
    BY <1>1, <2>1, <2>3 DEF StoreTypes
  <2> QED
    BY <1>2, <1>3, <2>1, <2>2, <2>4
<1>15. CASE TrimAnswered
  <2>1. /\ catalog' \in CatalogState /\ control' \in {control, None}
        /\ UNCHANGED <<taken, queues, fence, failures, disk, chain, log>>
        /\ admission' \in {admission, "failed"} /\ Heard(Opener)
    BY <1>1, <1>15 DEF TrimAnswered, SameBut
  <2>2. JobTypes'
    BY <1>1, <2>1 DEF JobTypes
  <2>3. reply' \in [{Opener} \cup Lookups \cup 1..MaxOps -> Reply \cup {None}]
    BY <1>1, <2>1, HeardFacts
  <2>4. StoreTypes'
    BY <1>1, <2>1, <2>3 DEF StoreTypes
  <2> QED
    BY <1>2, <1>3, <2>1, <2>2, <2>4
<1> QED
  BY <1>5, <1>6, <1>7, <1>8, <1>9, <1>10, <1>11, <1>12, <1>13, <1>14, <1>15 DEF Stepping
=============================================================================
