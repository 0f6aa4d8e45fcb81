---------------------------- MODULE HybridProofs ----------------------------
(***************************************************************************)
(* The steps of the store and of Cache::new have their effects too, so     *)
(* every step of HybridCache keeps HybridInv; and what follows: the        *)
(* coordinator's order, the catalog's account of the disk, and that        *)
(* neither memory nor a lookup serves a value that was replaced.           *)
(***************************************************************************)
EXTENDS HybridSteps, HybridStore

USE Zenon

(***************************************************************************)
(* What the store and Cache::new do                                        *)
(***************************************************************************)
\* The log takes a frame.
LEMMA AppendFacts ==
    ASSUME StoreTypes, NEW len \in Nat, AppendLog(len)
    PROVE  log' \in [lsn : Nat, free : Int, room : Int] /\ log'.lsn = log.lsn + 1
<1>1. log.lsn \in Nat /\ log.free \in Int /\ log.room \in Int /\ SegmentLen \in Nat
  BY HybridAssumption DEF StoreTypes
<1>2. CASE log.room >= len
  <2>1. log' = [log EXCEPT !.lsn = log.lsn + 1, !.room = log.room - len]
    BY <1>2 DEF AppendLog
  <2>2. log \in [lsn : Nat, free : Int, room : Int]
    BY DEF StoreTypes
  <2>3. log.lsn + 1 \in Nat /\ log.room - len \in Int
    BY <1>1, SMT
  <2> QED
    BY <2>1, <2>2, <2>3
<1>3. CASE ~(log.room >= len)
  <2>1. log' = [lsn |-> log.lsn + 1, free |-> log.free - 1, room |-> SegmentLen - len]
    BY <1>3 DEF AppendLog
  <2> QED
    BY <1>1, <2>1, SMT
<1> QED
  BY <1>2, <1>3

\* The store's worker on one request.
LEMMA ServeEffect ==
    ASSUME HybridInv, NEW id \in Ids, Serve(id)
    PROVE  \E r, a : Serving(id, r, a)
<1> DEFINE r == chain[id][1]
           Reply0(status, chunk) == [id |-> id, status |-> status, chunk |-> chunk]
<1>1. /\ StoreTypes /\ chain[id] \in Seq(Request) /\ chain[id] # <<>> /\ disk[id] \in Chunk
      /\ chain' = [chain EXCEPT ![id] = Tail(chain[id])]
      /\ UNCHANGED <<idOf, memory, registry, admission, ops, taken, queues, fence, failures, control>>
      /\ UNCHANGED <<catalog, lookups>>
  BY DEF HybridInv, StoreTypes, Serve, callVars, jobVars
<1>2. 1 \in DOMAIN chain[id] /\ Head(chain[id]) = r
  BY <1>1, SMT
<1>3. /\ r \in Request /\ RequestOk(id, r)
      /\ r.who # None => r.who \in {Opener} \cup Lookups \cup 1..MaxOps
      /\ r.kind = "put" => r.who \in DOMAIN ops /\ ops[r.who].phase = "put" /\ Id(r.who) = id
  BY <1>2, RequestFacts
<1>4. NoChunk \in Chunk
  BY DEF NoChunk, Chunk
<1>5. \A status \in {"ok", "error"}, chunk \in Chunk :
         LET a == Reply0(status, chunk)
         IN  a \in Reply /\ a.id = id /\ a.status = status /\ a.chunk = chunk
  BY DEF Reply
<1>6. log \in [lsn : Nat, free : Int, room : Int]
  BY <1>1 DEF StoreTypes
<1> HIDE DEF r
<1>7. ASSUME Answer(id, r.who, "error", NoChunk), UNCHANGED <<disk, log>>
      PROVE  \E a : Serving(id, r, a)
  <2> DEFINE a == Reply0("error", NoChunk)
  <2>1. a \in Reply /\ a.id = id /\ a.status = "error"
    BY <1>4, <1>5
  <2>2. reply' = IF r.who = None THEN reply ELSE [reply EXCEPT ![r.who] = a]
    BY <1>7 DEF Answer
  <2> HIDE DEF a
  <2>3. Serving(id, r, a)
    BY <1>1, <1>3, <1>6, <1>7, <2>1, <2>2 DEF Serving, r
  <2> QED
    BY <2>3
<1>8. ASSUME r.kind = "get", Answer(id, r.who, "ok", disk[id]), UNCHANGED <<disk, log>>
      PROVE  \E a : Serving(id, r, a)
  <2> DEFINE a == Reply0("ok", disk[id])
  <2>1. a \in Reply /\ a.id = id /\ a.status = "ok" /\ a.chunk = disk[id]
    BY <1>1, <1>5
  <2>2. reply' = IF r.who = None THEN reply ELSE [reply EXCEPT ![r.who] = a]
    BY <1>8 DEF Answer
  <2> HIDE DEF a
  <2>3. Serving(id, r, a)
    BY <1>1, <1>3, <1>6, <1>8, <2>1, <2>2 DEF Serving, r
  <2> QED
    BY <2>3
<1>9. ASSUME r.kind = "put", Put(id, r.who) PROVE \E a : Serving(id, r, a)
  <2> DEFINE chunk == [lsn |-> log.lsn + 1, value |-> r.who, key |-> ops[r.who].key,
                       len |-> ops[r.who].len]
             a == Reply0("ok", chunk)
  <2>1. AppendLog(chunk.len) /\ disk' = [disk EXCEPT ![id] = chunk] /\ Answer(id, r.who, "ok", chunk)
    BY <1>9 DEF Put
  <2>2. r.who \in DOMAIN ops /\ ops[r.who] \in Op /\ r.who \in Nat /\ log.lsn + 1 \in Nat
    BY <1>3, <1>6, <1>9, OpFacts, SMT DEF HybridInv
  <2>3. /\ chunk \in Chunk /\ chunk.lsn = log.lsn + 1 /\ chunk.value = r.who
        /\ chunk.key = ops[r.who].key /\ chunk.len = ops[r.who].len /\ chunk.len \in Nat
    BY <2>2 DEF Op, Chunk
  <2> HIDE DEF chunk
  <2>4. a \in Reply /\ a.id = id /\ a.status = "ok" /\ a.chunk = chunk
    BY <1>5, <2>3
  <2>5. log' \in [lsn : Nat, free : Int, room : Int] /\ log'.lsn = log.lsn + 1
    BY <1>1, <2>1, <2>3, AppendFacts
  <2>6. reply' = IF r.who = None THEN reply ELSE [reply EXCEPT ![r.who] = a]
    BY <2>1 DEF Answer
  <2> HIDE DEF a
  <2>7. Serving(id, r, a)
    BY <1>1, <1>3, <1>9, <2>1, <2>3, <2>4, <2>5, <2>6 DEF Serving, r
  <2> QED
    BY <2>7
<1>10. ASSUME r.kind = "delete", Delete(id, r) PROVE \E a : Serving(id, r, a)
  <2> DEFINE a == Reply0("ok", NoChunk)
  <2>1. disk[id] # NoChunk /\ disk[id].lsn = r.lsn
    BY <1>3, <1>10, DeletionFinds
  <2>2. /\ AppendLog(TombstoneLen) /\ disk' = [disk EXCEPT ![id] = NoChunk]
        /\ Answer(id, r.who, "ok", NoChunk)
    BY <1>10, <2>1 DEF Delete
  <2>3. a \in Reply /\ a.id = id /\ a.status = "ok"
    BY <1>4, <1>5
  <2>4. log' \in [lsn : Nat, free : Int, room : Int] /\ log'.lsn = log.lsn + 1
    BY <1>1, <2>2, AppendFacts DEF TombstoneLen
  <2>5. reply' = IF r.who = None THEN reply ELSE [reply EXCEPT ![r.who] = a]
    BY <2>2 DEF Answer
  <2> HIDE DEF a
  <2>6. Serving(id, r, a)
    BY <1>1, <1>3, <1>10, <2>1, <2>2, <2>3, <2>4, <2>5 DEF Serving, r
  <2> QED
    BY <2>6
<1>11. \/ Answer(id, r.who, "error", NoChunk) /\ UNCHANGED <<disk, log>>
       \/ r.kind = "get" /\ Answer(id, r.who, "ok", disk[id]) /\ UNCHANGED <<disk, log>>
       \/ r.kind = "put" /\ Put(id, r.who)
       \/ r.kind = "delete" /\ Delete(id, r)
  BY <1>2 DEF Serve, Perform
<1> QED
  BY <1>7, <1>8, <1>9, <1>10, <1>11

\* Cache::new asks for a deletion or is ready.
LEMMA TrimEffect ==
    ASSUME HybridInv, TrimStep
    PROVE  Trimming
<1> DEFINE v == Victim(catalog, None)
<1>1. /\ admission = "trim" /\ reply[Opener] = None /\ \A id \in Ids : chain[id] = <<>>
      /\ UNCHANGED <<idOf, memory, registry, ops, lookups, taken, queues, fence, failures>>
      /\ UNCHANGED <<disk, reply, log>>
  BY DEF TrimStep
<1>2. ops = <<>> /\ StoreTypes /\ catalog \in CatalogState
  BY <1>1 DEF HybridInv, ControlInv, JobTypes
<1>3. CASE OverLimits(catalog)
  <2>1. /\ catalog' = v.cat /\ Ask(v.id, Opener, "delete", catalog.slots[v.id].lsn)
        /\ UNCHANGED <<admission, control>>
    BY <1>3 DEF TrimStep
  <2>2. SameSlots(catalog, v.cat) /\ v.id \in Evictable(catalog, None) \cup {None}
    BY <1>2, VictimFacts DEF SameSlots
  <2> HIDE DEF v
  <2>3. CASE v.id \in DOMAIN catalog.slots
    BY <1>1, <1>2, <2>1, <2>2, <2>3 DEF Trimming
  <2>4. CASE v.id \notin DOMAIN catalog.slots
    <3>1. v.id \notin Ids
      BY <2>2, <2>4, HybridAssumption DEF Evictable
    <3>2. chain' = chain
      BY <1>2, <2>1, <3>1 DEF Ask, StoreTypes
    <3> QED
      BY <1>1, <1>2, <2>1, <2>2, <3>2 DEF Trimming
  <2> QED
    BY <2>3, <2>4
<1>4. CASE ~OverLimits(catalog)
  BY <1>1, <1>2, <1>4 DEF TrimStep, Trimming
<1> QED
  BY <1>3, <1>4

\* Cache::new hears of the deletion.
LEMMA TrimmedEffect ==
    ASSUME HybridInv, Trimmed
    PROVE  TrimAnswered
<1>1. /\ admission = "trim" /\ reply[Opener] # None /\ Heard(Opener)
      /\ UNCHANGED <<idOf, memory, registry, ops, lookups, taken, queues, fence, failures>>
      /\ UNCHANGED <<disk, chain, log>>
  BY DEF Trimmed
<1>2. ops = <<>> /\ catalog \in CatalogState
  BY <1>1 DEF HybridInv, ControlInv, JobTypes
<1>3. CASE reply[Opener].status = "ok"
  <2>1. catalog' = removeSlot(catalog, reply[Opener].id) /\ UNCHANGED <<admission, control>>
    BY <1>3 DEF Trimmed
  <2> QED
    BY <1>1, <1>2, <1>3, <2>1, RemoveSlot DEF TrimAnswered
<1>4. CASE reply[Opener].status # "ok"
  BY <1>1, <1>2, <1>4 DEF Trimmed, TrimAnswered
<1> QED
  BY <1>3, <1>4

(***************************************************************************)
(* All steps                                                               *)
(***************************************************************************)
\* Every step of the specification has one of the effects above.
LEMMA StepEffect ==
    ASSUME HybridInv, Next
    PROVE  Stepping
<1>1. ASSUME NEW i \in DOMAIN ops, JobStep(i) PROVE Stepping
  <2>1. Thread(i)
    BY <1>1 DEF JobStep
  <2>2. CASE Reserve(i)
    BY <2>1, <2>2, ReserveEffect DEF Stepping, Jobbing
  <2>3. CASE Evicted(i)
    BY <2>1, <2>3, EvictedEffect DEF Stepping, Jobbing
  <2>4. CASE PutDone(i)
    BY <2>1, <2>4, PutDoneEffect DEF Stepping, Jobbing
  <2>5. CASE Publish(i)
    BY <2>1, <2>5, PublishEffect DEF Stepping, Jobbing
  <2>6. CASE InvalidateVersion(i)
    BY <2>1, <2>6, VersionEffect DEF Stepping, Jobbing
  <2>7. CASE InvalidateGet(i)
    BY <2>1, <2>7, GetEffect DEF Stepping, Jobbing
  <2>8. CASE InvalidateDelete(i)
    BY <2>1, <2>8, DeleteEffect DEF Stepping, Jobbing
  <2>9. CASE Release(i)
    BY <2>9, ReleaseEffect DEF Stepping
  <2>10. CASE Finish(i)
    <3>1. Ending(i)
      BY <2>10, FinishEffect DEF Ending, Finish, storeVars
    <3> QED
      BY <3>1 DEF Stepping
  <2>11. CASE FenceStart(i)
    <3>1. Fenced(i)
      BY <2>11, FenceEffect DEF Fenced, FenceStart, jobVars, storeVars
    <3> QED
      BY <3>1 DEF Stepping
  <2>12. CASE FenceEnd(i)
    <3>1. Fenced(i)
      BY <2>12, FenceEffect DEF Fenced, FenceEnd
    <3> QED
      BY <3>1 DEF Stepping
  <2> QED
    BY <1>1, <2>2, <2>3, <2>4, <2>5, <2>6, <2>7, <2>8, <2>9, <2>10, <2>11, <2>12 DEF JobStep
<1>2. ASSUME NEW l \in Lookups, LookupStep(l) \/ LookupDrop(l) \/ \E k \in Keys : LookupBegin(l, k)
      PROVE  Stepping
  <2>1. \E x : Looks(l, x)
    BY <1>2, BeginEffect, CheckEffect, ProbeEffect, LookupGetEffect, ReadEffect, MissEffect, DropEffect
       DEF LookupStep
  <2> QED
    BY <2>1 DEF Stepping
<1>3. ASSUME NEW l \in Lookups, NEW len \in Lens, Populate(l, len) PROVE Stepping
  <2>1. len \in Nat
    BY HybridAssumption
  <2> QED
    BY <1>3, <2>1, PopulateEffect DEF Stepping
<1>4. ASSUME NEW k \in Keys, NEW len \in Lens, Insert(k, len) PROVE Stepping
  <2>1. "insert" \in Mutations /\ len \in Nat /\ Mutate("insert", k, len)
    BY <1>4, HybridAssumption DEF Insert, Mutations
  <2>2. \E n \in Nat : Mutating(n, k)
    BY <2>1, MutateEffect
  <2> QED
    BY <2>2 DEF Stepping
<1>5. ASSUME NEW k \in Keys, Invalidate(k) PROVE Stepping
  <2>1. "invalidate" \in Mutations /\ 0 \in Nat /\ Mutate("invalidate", k, 0)
    BY <1>5 DEF Invalidate, Mutations
  <2>2. \E n \in Nat : Mutating(n, k)
    BY <2>1, MutateEffect
  <2> QED
    BY <2>2 DEF Stepping
<1>6. ASSUME NEW k \in Keys, MemoryEvict(k) PROVE Stepping
  <2>1. Forgetting(k)
    BY <1>6 DEF MemoryEvict, Forgetting, jobVars, storeVars
  <2> QED
    BY <2>1 DEF Stepping
<1>7. ASSUME NEW kind \in {"flush", "close"}, Fence(kind) PROVE Stepping
  BY <1>7, FenceAdmitEffect DEF Stepping
<1>8. ASSUME Intake PROVE Stepping
  <2>1. PICK i \in DOMAIN ops : Taking(i)
    BY <1>8, IntakeEffect
  <2>2. TakenUp(i)
    BY <1>8, <2>1 DEF TakenUp, Intake, storeVars
  <2> QED
    BY <2>2 DEF Stepping
<1>9. ASSUME TrimStep PROVE Stepping
  BY <1>9, TrimEffect DEF Stepping
<1>10. ASSUME Trimmed PROVE Stepping
  BY <1>10, TrimmedEffect DEF Stepping
<1>11. ASSUME NEW id \in Ids, Serve(id) PROVE Stepping
  BY <1>11, ServeEffect DEF Stepping
<1>12. CASE Call
  BY <1>2, <1>3, <1>4, <1>5, <1>6, <1>7, <1>12 DEF Call
<1>13. CASE Background
  BY <1>1, <1>2, <1>8, <1>9, <1>10, <1>11, <1>13 DEF Background
<1> QED
  BY <1>12, <1>13 DEF Next

(***************************************************************************)
(* The induction                                                           *)
(***************************************************************************)
\* No step of the cache breaks the invariant.
LEMMA StepKeeps ==
    ASSUME HybridInv, Next
    PROVE  HybridInv'
<1>1. Stepping
  BY StepEffect
<1>2. Kept
  BY <1>1, OpsKept
<1>3. CallTypes' /\ JobTypes' /\ StoreTypes'
  BY <1>1, <1>2, LeaseKept, FloorKept, TypesKept
<1>4. LeaseInv' /\ GenerationInv' /\ FillsFresh'
  BY <1>1, <1>2, LeaseKept, GenerationKept, FillsKept
<1>5. JobInv' /\ NoneCorrupt'
  BY <1>1, <1>2, JobsKept, CorruptKept
<1>6. ControlInv' /\ ClaimInv'
  BY <1>1, <1>2, ControlKept, ClaimKept
<1>7. ChainInv' /\ ReplyInv' /\ TrackInv'
  BY <1>1, <1>2, ChainKept, ReplyKept, TrackKept
<1>8. DiskInv' /\ ReadInv' /\ MemoryInv' /\ FloorInv'
  BY <1>1, <1>2, DiskKept, ReadKept, MemoryKept, FloorKept
<1> QED
  BY <1>3, <1>4, <1>5, <1>6, <1>7, <1>8 DEF HybridInv

\* Neither does a step that changes nothing.
LEMMA StutterKeeps ==
    ASSUME HybridInv, UNCHANGED vars
    PROVE  HybridInv'
<1>1. /\ UNCHANGED <<idOf, memory, registry, admission, ops, taken, queues, fence, failures, control>>
      /\ UNCHANGED <<catalog, lookups, begun, disk, chain, reply, log, errors>>
  BY DEF vars, callVars, jobVars, storeVars
<1>2. CallTypes' /\ JobTypes' /\ StoreTypes'
  BY <1>1 DEF HybridInv, CallTypes, JobTypes, StoreTypes
<1>3. LeaseInv'
  <2>1. \A k \in Keys : Holders(k)' = Holders(k) /\ Unsettled(k)' = Unsettled(k)
    BY <1>1 DEF Holders, Unsettled, OpsOf
  <2> QED
    BY <1>1, <2>1 DEF HybridInv, LeaseInv, KeyInv
<1>4. GenerationInv'
  BY <1>1 DEF HybridInv, GenerationInv, Unsettled, OpsOf
<1>5. FillsFresh' /\ NoneCorrupt'
  BY <1>1 DEF HybridInv, FillsFresh, OpsOf, NoneCorrupt
<1>6. JobInv'
  BY <1>1, SameJobs DEF HybridInv
<1>7. ControlInv' /\ ClaimInv'
  BY <1>1, SMT DEF HybridInv, ControlInv, ClaimInv, Id
<1>8. ChainInv'
  <2>1. \A id \in Ids : \A r \in Request : RequestOk(id, r) => RequestOk(id, r)'
    BY <1>1, SMT DEF RequestOk, Id
  <2> QED
    BY <1>1, <2>1, ChainSame
<1>9. ReplyInv'
  BY <1>1 DEF HybridInv, ReplyInv, Id
<1>10. TrackInv'
  BY <1>1 DEF HybridInv, TrackInv, Tracks, Answered, Id
<1>11. DiskInv'
  BY <1>1 DEF HybridInv, DiskInv, Current, NothingNewer, Stored, OpsOf, Id
<1>12. ReadInv'
  <2>1. \A id, c : Current(id, c) => Current(id, c)'
    BY <1>1 DEF Current, NothingNewer, Stored, OpsOf
  <2> QED
    BY <1>1, <2>1 DEF HybridInv, ReadInv
<1>13. MemoryInv'
  BY <1>1 DEF HybridInv, MemoryInv, Serves, OpsOf
<1>14. FloorInv'
  BY <1>1 DEF HybridInv, FloorInv, OpsOf, Done
<1> QED
  BY <1>2, <1>3, <1>4, <1>5, <1>6, <1>7, <1>8, <1>9, <1>10, <1>11, <1>12, <1>13, <1>14 DEF HybridInv

\* A finite set of chunks can be given a version each.
LEMMA VersionsExist ==
    ASSUME NEW S, IsFiniteSet(S)
    PROVE  /\ Cardinality(S) \in Nat
           /\ \E f \in [S -> 1..Cardinality(S)] : \A x, y \in S : f[x] = f[y] => x = y
<1>1. Cardinality(S) \in Nat /\ ExistsBijection(1..Cardinality(S), S)
  BY FS_CardinalityType
<1>2. PICK g \in Bijection(1..Cardinality(S), S) : TRUE
  BY <1>1 DEF ExistsBijection
<1>3. \A x \in S : \E m \in 1..Cardinality(S) : g[m] = x
  BY <1>2 DEF Bijection, Surjection
<1> DEFINE f == [x \in S |-> CHOOSE m \in 1..Cardinality(S) : g[m] = x]
<1>4. \A x \in S : f[x] \in 1..Cardinality(S) /\ g[f[x]] = x
  BY <1>3
<1>5. f \in [S -> 1..Cardinality(S)]
  BY <1>4
<1>6. \A x, y \in S : f[x] = f[y] => x = y
  BY <1>4
<1> QED
  BY <1>1, <1>5, <1>6

\* The catalog that Catalog::new makes of the inventory has a slot for each chunk of it.
LEMMA InventoryFacts ==
    ASSUME NEW limits \in [capacity : Nat, entries : Nat, reserve : Nat, policy : {"fifo", "sieve"}],
           NEW S \in SUBSET Ids, NEW lsn \in [S -> Nat], Cardinality(S) \in Nat
    PROVE  LET cat == InsertAll(limits, S, lsn)
           IN  /\ cat \in CatalogState /\ DOMAIN cat.slots = S /\ DOMAIN cat.active = {}
               /\ \A id \in S : cat.slots[id].lsn = lsn[id] /\ cat.slots[id].len = 1
<1> DEFINE s == [id \in S |-> [lsn |-> lsn[id], len |-> 1, position |-> lsn[id], visited |-> FALSE]]
           E == EmptyCatalog(limits)
           n == Cardinality(S)
           cat == [E EXCEPT !.slots = s, !.clock = n, !.bytes = n]
<1>1. s \in [S -> Slot]
  BY DEF Slot
<1>2. s \in Maps(Ids, Slot) /\ DOMAIN s = S /\ \A id \in S : s[id].lsn = lsn[id] /\ s[id].len = 1
  BY <1>1 DEF Maps
<1> HIDE DEF s
<1>3. \A R : [id \in {} |-> None] \in Maps(Ids, R)
  <2>1. \A R : [id \in {} |-> None] \in [{} -> R]
    OBVIOUS
  <2>2. {} \in SUBSET Ids
    OBVIOUS
  <2>3. ASSUME NEW R
        PROVE  [id \in {} |-> None] \in UNION {[D -> R] : D \in SUBSET Ids}
    <3>1. [{} -> R] \in {[D -> R] : D \in SUBSET Ids}
      BY <2>2
    <3>2. [id \in {} |-> None] \in [{} -> R]
      BY <2>1
    <3>3. PICK A : A = {[D -> R] : D \in SUBSET Ids}
      OBVIOUS
    <3>4. \A x, y : x \in y /\ y \in A => x \in UNION A
      OBVIOUS
    <3> QED
      BY <3>1, <3>2, <3>3, <3>4
  <2> QED
    BY <2>3 DEF Maps
<1>4. E \in CatalogState /\ DOMAIN E.active = {}
  <2>1. DOMAIN [id \in {} |-> None] = {}
    OBVIOUS
  <2>2. PICK e : e = [id \in {} |-> None]
    OBVIOUS
  <2>3. E = [limits |-> limits, slots |-> e, clock |-> 0, hand |-> 0, bytes |-> 0,
             active |-> e, extra |-> 0, new |-> 0, allocation |-> 0, waiters |-> {}]
    BY <2>2 DEF EmptyCatalog
  <2>4. e \in Maps(Ids, Slot) /\ e \in Maps(Ids, Reservation) /\ DOMAIN e = {}
    BY <1>3, <2>1, <2>2
  <2> QED
    BY <2>3, <2>4, SMT DEF CatalogState
<1> HIDE DEF E
<1>5. n \in Nat /\ n \in Int
  BY SMT
<1> HIDE DEF n
<1>6. cat \in CatalogState /\ cat.slots = s /\ cat.active = E.active
  BY <1>2, <1>4, <1>5 DEF CatalogState
<1>7. InsertAll(limits, S, lsn) = cat
  BY DEF InsertAll, E, s, n
<1> QED
  BY <1>2, <1>4, <1>6, <1>7, SMT

\* An opened cache whose inventory is on the disk meets the invariant.
LEMMA InitKeeps ==
    ASSUME Init
    PROVE  HybridInv
<1>1. PICK o \in Openings :
         LET ids == {o.idOf[k] : k \in o.found}
             lsn == CHOOSE f \in [ids -> 1..Cardinality(ids)] :
                        \A x, y \in ids : f[x] = f[y] => x = y
         IN  /\ idOf = o.idOf
             /\ disk = [id \in Ids |-> IF id \notin ids THEN NoChunk ELSE
                            [lsn |-> lsn[id], value |-> 0, len |-> 1,
                             key |-> CHOOSE k \in o.found : o.idOf[k] = id]]
             /\ catalog = InsertAll(o.limits, ids, lsn)
             /\ log = [lsn |-> Cardinality(ids), free |-> o.free, room |-> 0]
  BY DEF Init
<1> DEFINE ids == {o.idOf[k] : k \in o.found}
           n == Cardinality(ids)
           lsn == CHOOSE f \in [ids -> 1..n] : \A x, y \in ids : f[x] = f[y] => x = y
           key(id) == CHOOSE k \in o.found : o.idOf[k] = id
<1>2. /\ o.idOf \in [Keys -> Ids] /\ o.found \in SUBSET Keys /\ o.free \in Nat
      /\ o.limits \in [capacity : Nat, entries : Nat, reserve : Nat, policy : {"fifo", "sieve"}]
      /\ IsFiniteSet(Ids)
  BY HybridAssumption
<1>3. ids \in SUBSET Ids /\ \A id \in ids : key(id) \in Keys /\ o.idOf[key(id)] = id
  BY <1>2
<1>4. n \in Nat /\ lsn \in [ids -> 1..n]
  <2>1. IsFiniteSet(ids)
    BY <1>2, <1>3, FS_Subset
  <2> HIDE DEF ids
  <2>2. /\ n \in Nat
        /\ \E f \in [ids -> 1..n] : \A x, y \in ids : f[x] = f[y] => x = y
    BY <2>1, VersionsExist
  <2> QED
    BY <2>2
<1>5. /\ idOf = o.idOf
      /\ disk = [id \in Ids |-> IF id \notin ids THEN NoChunk ELSE
                      [lsn |-> lsn[id], value |-> 0, len |-> 1, key |-> key(id)]]
      /\ catalog = InsertAll(o.limits, ids, lsn)
      /\ log = [lsn |-> n, free |-> o.free, room |-> 0]
  BY <1>1
<1> HIDE DEF ids, n, lsn, key
<1>6. /\ memory = [k \in Keys |-> None] /\ registry = [k \in Keys |-> None]
      /\ admission = "trim" /\ ops = <<>>
      /\ taken = 0 /\ queues = [id \in Ids |-> <<>>] /\ fence = None /\ failures = None
      /\ control = Opener
      /\ lookups = [l \in Lookups |-> NotLooking]
      /\ chain = [id \in Ids |-> <<>>]
      /\ reply = [who \in {Opener} \cup Lookups \cup 1..MaxOps |-> None]
  BY DEF Init
<1>7. Len(ops) = 0 /\ DOMAIN ops = {} /\ ops \in Seq(Op) /\ MaxOps \in Nat
  BY <1>6, HybridAssumption, SMT
<1>8. \A k : OpsOf(k) = {}
  BY <1>7 DEF OpsOf
<1>9. lsn \in [ids -> Nat]
  BY <1>4, SMT
<1>10. /\ catalog \in CatalogState /\ DOMAIN catalog.slots = ids /\ DOMAIN catalog.active = {}
       /\ \A id \in ids : catalog.slots[id].lsn = lsn[id] /\ catalog.slots[id].len = 1
  BY <1>2, <1>3, <1>4, <1>5, <1>9, InventoryFacts, SMT DEF n
<1>11. ASSUME NEW id \in Ids
       PROVE  /\ disk[id] \in Chunk
              /\ id \notin ids => disk[id] = NoChunk
              /\ id \in ids => /\ disk[id].lsn = lsn[id] /\ disk[id].value = 0 /\ disk[id].len = 1
                               /\ disk[id].key = key(id) /\ disk[id] # NoChunk
  <2>1. CASE id \notin ids
    BY <1>5, <2>1 DEF NoChunk, Chunk
  <2>2. CASE id \in ids
    <3>1. disk[id] = [lsn |-> lsn[id], value |-> 0, len |-> 1, key |-> key(id)]
      BY <1>5, <2>2
    <3>2. lsn[id] \in Nat /\ key(id) \in Keys
      BY <1>3, <1>9, <2>2
    <3> QED
      BY <2>2, <3>1, <3>2, HybridAssumption, SMT DEF Chunk, NoChunk
  <2> QED
    BY <2>1, <2>2
<1>12. NotLooking \in Lookup /\ NotLooking.pc = "returned" /\ NotLooking.fresh
  BY DEF NotLooking, Lookup
<1>13. CallTypes
  BY <1>2, <1>5, <1>6, <1>7, <1>12, SMT DEF CallTypes
<1>14. JobTypes
  BY <1>6, <1>10, HybridAssumption, SMT DEF JobTypes, Opener
<1>15. StoreTypes
  <2>1. disk \in [Ids -> Chunk]
    BY <1>5, <1>11
  <2>2. log \in [lsn : Nat, free : Int, room : Int]
    BY <1>2, <1>4, <1>5, SMT
  <2> QED
    BY <1>6, <2>1, <2>2, SMT DEF StoreTypes
<1>16. LeaseInv /\ GenerationInv
  <2>1. \A k \in Keys : Holders(k) = {} /\ registry[k] = None
    BY <1>6, <1>8, <1>12 DEF Holders
  <2> QED
    BY <1>6, <1>12, <2>1 DEF LeaseInv, KeyInv, GenerationInv
<1>17. FillsFresh /\ NoneCorrupt
  BY <1>7 DEF FillsFresh, NoneCorrupt
<1>18. JobInv
  <2>1. PhaseInv /\ FailureInv /\ CoordinatorOrder
    BY <1>7 DEF PhaseInv, FailureInv, CoordinatorOrder
  <2>2. IntakeInv
    BY <1>6, <1>7, SMT DEF IntakeInv
  <2>3. QueueInv
    <3>1. \A id \in Ids : queues[id] = <<>> /\ DOMAIN queues[id] = {}
      BY <1>6, SMT
    <3> QED
      BY <1>7, <3>1 DEF QueueInv
  <2> QED
    BY <2>1, <2>2, <2>3 DEF JobInv
<1>19. ControlInv /\ ClaimInv
  BY <1>6, <1>7, <1>10 DEF ControlInv, ClaimInv
<1>20. ChainInv
  <2>1. \A id \in Ids : DOMAIN chain[id] = {}
    BY <1>6, SMT
  <2> QED
    BY <2>1 DEF ChainInv
<1>21. ReplyInv /\ ReadInv
  <2>1. \A w \in {Opener} \cup Lookups \cup 1..MaxOps : reply[w] = None
    BY <1>6
  <2> QED
    BY <2>1 DEF ReplyInv, ReadInv
<1>22. TrackInv
  <2>1. ASSUME NEW id \in Ids PROVE Tracks(id)
    BY <1>10, <1>11 DEF Tracks
  <2> QED
    BY <2>1 DEF TrackInv
<1>23. DiskInv
  <2>1. ASSUME NEW id \in Ids, disk[id] # NoChunk PROVE Current(id, disk[id])
    <3>1. id \in ids /\ disk[id].lsn = lsn[id] /\ disk[id].value = 0 /\ disk[id].key = key(id)
      BY <1>11, <2>1
    <3>2. key(id) \in Keys /\ idOf[key(id)] = id
      BY <1>3, <1>5, <3>1
    <3>3. lsn[id] \in 1..log.lsn
      BY <1>4, <1>5, <3>1
    <3>4. NothingNewer(disk[id].key, disk[id].value)
      BY <1>8 DEF NothingNewer
    <3> QED
      BY <3>1, <3>2, <3>3, <3>4 DEF Current
  <2> QED
    BY <1>7, <2>1 DEF DiskInv
<1>24. MemoryInv /\ FloorInv
  <2>1. \A k \in Keys : memory[k] = None
    BY <1>6
  <2>2. \A l \in Lookups : lookups[l].pc = "returned" /\ lookups[l].fresh
    BY <1>6, <1>12
  <2> QED
    BY <2>1, <2>2 DEF MemoryInv, FloorInv
<1> QED
  BY <1>13, <1>14, <1>15, <1>16, <1>17, <1>18, <1>19, <1>20, <1>21, <1>22, <1>23, <1>24 DEF HybridInv

\* The inductive invariant holds throughout.
LEMMA Invariance ==
    Spec => []HybridInv
<1>1. Init => HybridInv
  BY InitKeeps
<1>2. HybridInv /\ [Next]_vars => HybridInv'
  BY StepKeeps, StutterKeeps
<1> QED
  BY <1>1, <1>2, PTL DEF Spec

(***************************************************************************)
(* Theorems                                                                *)
(***************************************************************************)
\* Jobs of one chunk run one at a time in admission order; a fence runs when everything before
\* it is finished and nothing after it has begun, and the first fence after a failed mutation
\* reports it (scheduler's run, the failures of cache.rs).
THEOREM JobsInOrder ==
    Spec => []CoordinatorOrder
<1>1. HybridInv => CoordinatorOrder
  BY DEF HybridInv, JobInv
<1> QED
  BY <1>1, Invariance, PTL

\* Memory never serves a value that a later mutation replaced (the checks in lookup and
\* insert_prepared).
THEOREM MemoryIsFresh ==
    Spec => []NoStaleResident
<1>1. HybridInv => NoStaleResident
  BY DEF HybridInv, MemoryInv, Serves, NoStaleResident
<1> QED
  BY <1>1, Invariance, PTL

\* A lookup returns nothing older than what had been answered when it began, and a fill is
\* admitted only if its key was not mutated since the miss (lookup and FillToken of cache.rs).
THEOREM LookupsAreFresh ==
    Spec => []LookupsFresh
<1>1. HybridInv => LookupsFresh
  BY DEF HybridInv, FloorInv, FillsFresh, LookupsFresh
<1> QED
  BY <1>1, Invariance, PTL

\* A chunk on which nothing is under way is in the catalog exactly if it is on the disk, in the
\* same version, whatever failed before (the error paths of Catalog::write and invalidate).
THEOREM CatalogFollowsStore ==
    Spec => []CatalogTracksStore
<1>1. ASSUME HybridInv, admission \in {"open", "closed"}, NEW id \in Ids, Settled(id)
      PROVE  Tracks(id)
  <2>1. ASSUME NEW i \in DOMAIN ops, Answered(i, id) PROVE FALSE
    <3>1. \/ ops[i].phase \in {"put", "delete"} /\ Id(i) = id
          \/ ops[i].phase = "evict" /\ ops[i].victim = id
      BY <2>1 DEF Answered
    <3>2. ops[i].phase = "put" => Id(i) \in DOMAIN catalog.active
      BY <1>1 DEF HybridInv, ClaimInv
    <3> QED
      BY <1>1, <3>1, <3>2 DEF Settled
  <2>2. reply[Opener] = None
    BY <1>1 DEF HybridInv, ReplyInv
  <2> QED
    BY <1>1, <2>1, <2>2 DEF HybridInv, TrackInv
<1>2. HybridInv => CatalogTracksStore
  BY <1>1 DEF CatalogTracksStore, Tracks, HybridInv, NoneCorrupt
<1> QED
  BY <1>2, Invariance, PTL
=============================================================================
