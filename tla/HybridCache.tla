---------------------------- MODULE HybridCache ----------------------------
(***************************************************************************)
(* The hybrid cache on one disk (moat-cache/src/cache.rs, registry.rs,     *)
(* scheduler.rs, with Catalog): callers look keys up and admit mutations   *)
(* and fences, the coordinator thread runs the admitted jobs, the store    *)
(* answers each chunk's requests in the order they were made, and the      *)
(* memory cache may drop any entry at any time.  One action is one         *)
(* critical section, or one stretch of a job between two awaits.           *)
(* HybridState has the state.                                              *)
(***************************************************************************)
EXTENDS HybridState

\* The slots in log order, which is the order of eviction.
InsertAll(limits, inventory, lsn) ==
    [EmptyCatalog(limits) EXCEPT
       !.slots = [id \in inventory |-> [lsn |-> lsn[id], len |-> 1, position |-> lsn[id],
                                        visited |-> FALSE]],
       !.clock = Cardinality(inventory), !.bytes = Cardinality(inventory)]

Init ==
    /\ \E o \in Openings :
         LET ids == {o.idOf[k] : k \in o.found}
             lsn == CHOOSE f \in [ids -> 1..Cardinality(ids)] :
                        \A x, y \in ids : f[x] = f[y] => x = y
         IN  /\ idOf = o.idOf
             /\ disk = [id \in Ids |-> IF id \notin ids THEN NoChunk ELSE
                            [lsn |-> lsn[id], value |-> 0, len |-> 1,
                             key |-> CHOOSE k \in o.found : o.idOf[k] = id]]
             /\ catalog = InsertAll(o.limits, ids, lsn)
             /\ log = [lsn |-> Cardinality(ids), free |-> o.free, room |-> 0]
    /\ memory = [k \in Keys |-> None] /\ registry = [k \in Keys |-> None]
    /\ admission = "trim" /\ ops = <<>>
    /\ taken = 0 /\ queues = [id \in Ids |-> <<>>] /\ fence = None /\ failures = None
    /\ control = Opener
    /\ lookups = [l \in Lookups |-> NotLooking] /\ begun = 0
    /\ chain = [id \in Ids |-> <<>>] /\ errors = 0
    /\ reply = [who \in {Opener} \cup Lookups \cup 1..MaxOps |-> None]

(***************************************************************************)
(* The store: requests on a chunk are served in the order they were made   *)
(***************************************************************************)
Answer(id, who, status, chunk) ==
    reply' = IF who = None THEN reply
             ELSE [reply EXCEPT ![who] = [id |-> id, status |-> status, chunk |-> chunk]]

\* A frame goes behind the last one, or into a new segment if it does not fit there.
HasRoom(len) == log.room >= len \/ log.free > 0

AppendLog(len) ==
    log' = IF log.room >= len THEN [log EXCEPT !.lsn = @ + 1, !.room = @ - len]
           ELSE [lsn |-> log.lsn + 1, free |-> log.free - 1, room |-> SegmentLen - len]

Put(id, who) ==
    LET chunk == [lsn |-> log.lsn + 1, value |-> who, key |-> ops[who].key, len |-> ops[who].len]
    IN  /\ HasRoom(chunk.len) /\ AppendLog(chunk.len)
        /\ disk' = [disk EXCEPT ![id] = chunk]
        /\ Answer(id, who, "ok", chunk)

\* A conditional deletion; one of a chunk that is gone reports so and is as good as done.
Delete(id, r) ==
    IF disk[id].lsn = r.lsn
    THEN /\ HasRoom(TombstoneLen) /\ AppendLog(TombstoneLen)
         /\ disk' = [disk EXCEPT ![id] = NoChunk]
         /\ Answer(id, r.who, "ok", NoChunk)
    ELSE /\ Answer(id, r.who, IF disk[id] = NoChunk THEN "ok" ELSE "changed", NoChunk)
         /\ UNCHANGED <<disk, log>>

Perform(id, r) ==
    \/ r.kind = "get" /\ Answer(id, r.who, "ok", disk[id]) /\ UNCHANGED <<disk, log>>
    \/ r.kind = "put" /\ Put(id, r.who)
    \/ r.kind = "delete" /\ Delete(id, r)

\* The disk has no room for the request's frame.
Full(r) ==
    \/ r.kind = "put" /\ ~HasRoom(ops[r.who].len)
    \/ r.kind = "delete" /\ ~HasRoom(TombstoneLen)

\* A request that fails changes nothing.
Serve(id) ==
    LET r == Head(chain[id])
    IN  /\ chain[id] # <<>>
        /\ chain' = [chain EXCEPT ![id] = Tail(@)]
        /\ \/ Perform(id, r) /\ UNCHANGED errors
           \/ /\ errors < MaxErrors \/ Full(r)
              /\ errors' = IF Full(r) THEN errors ELSE errors + 1
              /\ Answer(id, r.who, "error", NoChunk)
              /\ UNCHANGED <<disk, log>>
        /\ UNCHANGED <<idOf, callVars, jobVars, catalog, lookups, begun>>

(***************************************************************************)
(* Cache::new: shrink the inventory to the limits                          *)
(***************************************************************************)
TrimStep ==
    /\ admission = "trim" /\ reply[Opener] = None
    /\ \A id \in Ids : chain[id] = <<>>
    /\ IF OverLimits(catalog)
       THEN LET v == Victim(catalog, None)
            IN  /\ catalog' = v.cat
                /\ Ask(v.id, Opener, "delete", catalog.slots[v.id].lsn)
                /\ UNCHANGED <<admission, control>>
       ELSE admission' = "open" /\ control' = None /\ UNCHANGED <<catalog, chain>>
    /\ UNCHANGED <<idOf, memory, registry, ops, taken, queues, fence, failures, lookups, begun,
                   disk, reply, log, errors>>

\* An error closes the store and there is no cache.
Trimmed ==
    /\ admission = "trim" /\ reply[Opener] # None
    /\ Heard(Opener)
    /\ IF reply[Opener].status = "ok"
       THEN catalog' = removeSlot(catalog, reply[Opener].id) /\ UNCHANGED <<admission, control>>
       ELSE admission' = "failed" /\ control' = None /\ UNCHANGED catalog
    /\ UNCHANGED <<idOf, memory, registry, ops, taken, queues, fence, failures, lookups, begun,
                   disk, chain, log, errors>>

(***************************************************************************)
(* Admission                                                               *)
(***************************************************************************)
Leases == MapThenSumSet(LAMBDA k : IF registry[k] = None THEN 0 ELSE registry[k].leases, Keys)

Unfinished == {i \in DOMAIN ops : ops[i].phase # "done" /\ ops[i].kind # "close"}

PermitFor(len) ==
    /\ Cardinality(Unfinished) < MaxJobs
    /\ MapThenSumSet(LAMBDA i : ops[i].len, Unfinished) + len <= MaxBytes

Admit(kind, key, len, generation, born) ==
    /\ admission = "open" /\ Len(ops) < MaxOps
    /\ ops' = Append(ops, [kind |-> kind, key |-> key, len |-> len, generation |-> generation,
                           born |-> born, phase |-> "queued", lsn |-> 0, victim |-> None,
                           result |-> None])

\* Under the admission lock and the key's: the generation moves on, the resident value goes
\* and the job is sent.  A call refused for want of a lease or a permit leaves nothing.
Mutate(kind, k, len) ==
    /\ Leases < MaxLeases /\ PermitFor(len)
    /\ LET e == advance(acquire(registry[k]))
       IN  /\ Admit(kind, k, len, e.generation, None)
           /\ registry' = [registry EXCEPT ![k] = e]
    /\ memory' = [memory EXCEPT ![k] = None]
    /\ UNCHANGED <<idOf, admission, jobVars, catalog, lookups, begun, storeVars>>

Insert(k, len) == Mutate("insert", k, len)
Invalidate(k) == Mutate("invalidate", k, 0)

\* A fill consumes its token; a stale token or a refused permit only drops it.
Populate(l, len) ==
    LET k == lookups[l].key
    IN  /\ lookups[l].pc = "token"
        /\ lookups' = [lookups EXCEPT ![l] = NotLooking]
        /\ IF admission = "open" /\ ValidToken(l) /\ PermitFor(len)
           THEN /\ LET e == advance(registry[k])
                   IN  /\ Admit("insert", k, len, e.generation, lookups[l].floor)
                       /\ registry' = [registry EXCEPT ![k] = e]
                /\ memory' = [memory EXCEPT ![k] = None]
           ELSE /\ registry' = [registry EXCEPT ![k] = dropLease(@)]
                /\ UNCHANGED <<ops, memory>>
        /\ UNCHANGED <<idOf, admission, jobVars, catalog, begun, storeVars>>

Fence(kind) ==
    /\ kind = "flush" => PermitFor(0)
    /\ Admit(kind, None, 0, 0, None)
    /\ admission' = IF kind = "close" THEN "closed" ELSE admission
    /\ UNCHANGED <<idOf, memory, registry, jobVars, catalog, lookups, begun, storeVars>>

\* Policy pressure, clear_memory or resize_memory.
MemoryEvict(k) ==
    /\ memory[k] # None
    /\ memory' = [memory EXCEPT ![k] = None]
    /\ UNCHANGED <<idOf, registry, admission, ops, jobVars, catalog, lookups, begun, storeVars>>

(***************************************************************************)
(* Lookups                                                                 *)
(***************************************************************************)
At(l, pc) == lookups' = [lookups EXCEPT ![l].pc = pc]

\* Whether a lookup of k that began when floor was the newest success may return value.
Fresh(k, floor, value) ==
    value # None =>
        /\ value >= floor
        /\ value # 0 => ops[value].key = k /\ ops[value].result \in {"ok", "unwound", None}

Return(l, value) ==
    LET lookup == lookups[l]
    IN  /\ lookups' = [lookups EXCEPT ![l] =
                          [NotLooking EXCEPT !.fresh = Fresh(lookup.key, lookup.floor, value)]]
        /\ registry' = [registry EXCEPT ![lookup.key] = dropLease(@)]

\* A first probe of memory; on a miss the lookup takes a lease, unless none is left.
LookupBegin(l, k) ==
    /\ lookups[l].pc = "returned" /\ admission = "open" /\ begun < MaxLookups
    /\ begun' = begun + 1
    /\ IF memory[k] # None \/ Leases = MaxLeases
       THEN /\ lookups' = [lookups EXCEPT ![l] =
                              [NotLooking EXCEPT !.fresh = Fresh(k, Newest(k), memory[k])]]
            /\ UNCHANGED registry
       ELSE /\ lookups' = [lookups EXCEPT ![l] =
                              [NotLooking EXCEPT !.key = k, !.floor = Newest(k), !.pc = "check"]]
            /\ registry' = [registry EXCEPT ![k] = acquire(@)]
    /\ UNCHANGED <<idOf, memory, admission, ops, jobVars, catalog, storeVars>>

\* While mutations are pending, wait for the last of them; else note the generation.
LookupCheck(l) ==
    LET k == lookups[l].key
        e == registry[k]
    IN  /\ \/ lookups[l].pc = "check"
           \/ lookups[l].pc = "wait" /\ l \notin e.waiters
        /\ IF e.pending # 0
           THEN /\ At(l, "wait")
                /\ registry' = [registry EXCEPT ![k].waiters = @ \cup {l}]
           ELSE /\ lookups' = [lookups EXCEPT ![l].pc = "probe", ![l].generation = e.generation]
                /\ UNCHANGED registry
        /\ UNCHANGED <<idOf, memory, admission, ops, jobVars, catalog, begun, storeVars>>

LookupProbe(l) ==
    LET k == lookups[l].key
    IN  /\ lookups[l].pc = "probe"
        /\ IF admission = "closed" THEN Return(l, None)
           ELSE IF memory[k] # None THEN Return(l, memory[k])
           ELSE /\ At(l, IF version(catalog, idOf[k]) = None THEN "miss" ELSE "get")
                /\ UNCHANGED registry
        /\ UNCHANGED <<idOf, memory, admission, ops, jobVars, catalog, begun, storeVars>>

StoreClosed == \E i \in DOMAIN ops : ops[i].kind = "close" /\ ops[i].phase \in {"flush", "done"}

LookupGet(l) ==
    /\ lookups[l].pc = "get"
    /\ IF StoreClosed THEN Return(l, None) /\ UNCHANGED chain
       ELSE At(l, "read") /\ Ask(idOf[lookups[l].key], l, "get", 0) /\ UNCHANGED registry
    /\ UNCHANGED <<idOf, memory, admission, ops, jobVars, catalog, begun,
                   disk, reply, log, errors>>

PromotesLoosely(l, lsn) == ValidHit(catalog, idOf[lookups[l].key], lsn)

\* The lookup may promote what it read: no mutation since, and the chunk is still current.
Promotes(l, lsn) ==
    LET e == registry[lookups[l].key]
    IN  /\ e.generation = lookups[l].generation /\ e.pending = 0 /\ admission # "closed"
        /\ ValidHit(catalog, idOf[lookups[l].key], lsn)

\* The memory cache may refuse the promoted value and keep what it has, or find no room.
LookupRead(l) ==
    LET k == lookups[l].key
        r == reply[l]
    IN  /\ lookups[l].pc = "read" /\ r # None
        /\ Heard(l)
        /\ IF r.status = "error"
           THEN Return(l, None) /\ UNCHANGED <<memory, catalog>>
           ELSE IF r.chunk.key # k
           THEN At(l, "miss") /\ UNCHANGED <<registry, memory, catalog>>
           ELSE IF Promotes(l, r.chunk.lsn)
           THEN /\ Return(l, r.chunk.value)
                /\ catalog' = Visit(catalog, idOf[k])
                /\ memory' \in {memory, [memory EXCEPT ![k] = r.chunk.value],
                               [memory EXCEPT ![k] = None]}
           ELSE At(l, "check") /\ UNCHANGED <<registry, memory, catalog>>
        /\ UNCHANGED <<idOf, admission, ops, jobVars, begun, disk, chain, log, errors>>

\* A miss hands its lease over to a fill token, whose floor is the last operation admitted.
LookupMiss(l) ==
    LET e == registry[lookups[l].key]
    IN  /\ lookups[l].pc = "miss"
        /\ IF e.generation = lookups[l].generation /\ e.pending = 0
           THEN lookups' = [lookups EXCEPT ![l].pc = "token", ![l].floor = Len(ops)]
           ELSE At(l, "check")
        /\ UNCHANGED <<idOf, callVars, jobVars, catalog, begun, storeVars>>

\* The caller drops the lookup at an await, or its token.
LookupDrop(l) ==
    LET k == lookups[l].key
    IN  /\ lookups[l].pc \in {"wait", "read", "token"}
        /\ lookups' = [lookups EXCEPT ![l] = NotLooking]
        /\ registry' = [registry EXCEPT ![k] =
                           IF @.leases = 1 THEN None
                           ELSE [dropLease(@) EXCEPT !.waiters = registry[k].waiters \ {l}]]
        /\ chain' = [id \in Ids |-> [n \in DOMAIN chain[id] |->
                        IF chain[id][n].who = l THEN [chain[id][n] EXCEPT !.who = None]
                        ELSE chain[id][n]]]
        /\ Heard(l)
        /\ UNCHANGED <<idOf, memory, admission, ops, jobVars, catalog, begun,
                       disk, log, errors>>

(***************************************************************************)
(* The coordinator                                                         *)
(***************************************************************************)
Phase(i, phase) == ops' = [ops EXCEPT ![i].phase = phase]

\* A job starts unless an earlier one of its chunk is under way; a fence stops the intake.
Place(i) ==
    IF ops[i].kind \notin Mutations
    THEN Phase(i, "fence") /\ fence' = i /\ UNCHANGED queues
    ELSE IF \E j \in RunningJobs : Id(j) = Id(i)
    THEN /\ Phase(i, "pending") /\ UNCHANGED fence
         /\ queues' = [queues EXCEPT ![Id(i)] = Append(@, i)]
    ELSE Phase(i, "start") /\ UNCHANGED <<queues, fence>>

Intake ==
    /\ fence = None /\ taken < Len(ops) /\ Thread(None)
    /\ taken' = taken + 1
    /\ Place(taken + 1)
    /\ UNCHANGED <<idOf, memory, registry, admission, failures, control, catalog, lookups, begun,
                   storeVars>>

\* The outcome of a job; the first failure waits for a fence.
Outcome(i, result, phase) ==
    /\ ops' = [ops EXCEPT ![i].phase = phase, ![i].result = result]
    /\ failures' = IF Failed(result) /\ failures = None THEN i ELSE failures

(***************************************************************************)
(* Catalog::write                                                          *)
(***************************************************************************)
\* The put is made before the control lock is released, and awaited after.
Reserved(i) ==
    LET claim == Claim(catalog, Id(i), ops[i].len)
    IN  /\ Fits(catalog, claim) /\ HasHeadroom(catalog, claim, log.free * SegmentLen)
        /\ catalog' = reserveSlot(catalog, Id(i), claim)
        /\ Ask(Id(i), i, "put", 0)
        /\ control' = None
        /\ Phase(i, "put") /\ UNCHANGED failures

Evict(i, v) ==
    /\ catalog' = v.cat
    /\ Ask(v.id, i, "delete", catalog.slots[v.id].lsn)
    /\ ops' = [ops EXCEPT ![i].phase = "evict", ![i].victim = v.id]
    /\ control' = i /\ UNCHANGED failures

\* Without headroom or a victim only a write in flight can help; the lock stays held.
WaitOrFail(i, cat) ==
    /\ UNCHANGED chain
    /\ IF DOMAIN cat.active # {}
       THEN /\ catalog' = [cat EXCEPT !.waiters = @ \cup {i}]
            /\ Phase(i, "wait") /\ control' = i /\ UNCHANGED failures
       ELSE /\ catalog' = cat /\ control' = None
            /\ Outcome(i, "error", "release")

TooLarge(i) ==
    Outcome(i, "error", "release") /\ UNCHANGED <<catalog, chain, control>>

\* A write that cannot fit fails before it takes the lock.
Reserve(i) ==
    LET claim == Claim(catalog, Id(i), ops[i].len)
        v == Victim(catalog, Id(i))
    IN  /\ ops[i].kind = "insert"
        /\ \/ ops[i].phase = "start" /\ (control = None \/ ops[i].len > catalog.limits.capacity)
           \/ ops[i].phase = "evicted"
           \/ ops[i].phase = "wait" /\ i \notin catalog.waiters
        /\ IF ops[i].len > catalog.limits.capacity THEN TooLarge(i)
           ELSE IF ~HasHeadroom(catalog, claim, log.free * SegmentLen) THEN WaitOrFail(i, catalog)
           ELSE IF Fits(catalog, claim) THEN Reserved(i)
           ELSE IF v.id # None THEN Evict(i, v) ELSE WaitOrFail(i, v.cat)
        /\ UNCHANGED <<idOf, memory, registry, admission, taken, queues, fence, lookups, begun,
                       disk, reply, log, errors>>

Evicted(i) ==
    /\ ops[i].phase = "evict" /\ reply[i] # None
    /\ Heard(i)
    /\ IF reply[i].status = "ok"
       THEN /\ catalog' = removeSlot(catalog, ops[i].victim)
            /\ ops' = [ops EXCEPT ![i].phase = "evicted", ![i].victim = None]
            /\ UNCHANGED <<control, failures>>
       ELSE /\ UNCHANGED catalog /\ control' = None
            /\ Outcome(i, IF reply[i].status = "changed" THEN "corrupt" ELSE "error", "release")
    /\ UNCHANGED <<idOf, memory, registry, admission, taken, queues, fence, lookups, begun,
                   disk, chain, log, errors>>

\* The reservation is committed, or dropped with the write's error.
PutDone(i) ==
    /\ ops[i].phase = "put" /\ reply[i] # None
    /\ Heard(i)
    /\ IF reply[i].status = "ok"
       THEN /\ catalog' = finish(insertSlot(catalog, Id(i), reply[i].chunk.lsn, ops[i].len), Id(i))
            /\ Phase(i, "publish") /\ UNCHANGED failures
       ELSE /\ catalog' = finish(catalog, Id(i))
            /\ Outcome(i, "error", "release")
    /\ UNCHANGED <<idOf, memory, registry, admission, taken, queues, fence, control, lookups, begun,
                   disk, chain, log, errors>>

\* Memory may refuse the value; what was resident goes in any case.  A listener that panics
\* unwinds the job: its caller hears Closed and no fence hears of it.
Publish(i) ==
    /\ ops[i].phase = "publish"
    /\ IF Publishes(i)
       THEN \E v \in {i, None} : memory' = [memory EXCEPT ![ops[i].key] = v]
       ELSE UNCHANGED memory
    /\ \/ Outcome(i, "ok", "release") /\ UNCHANGED errors
       \/ errors < MaxErrors /\ errors' = errors + 1 /\ Outcome(i, "unwound", "release")
    /\ UNCHANGED <<idOf, registry, admission, taken, queues, fence, control, catalog, lookups,
                   begun, disk, chain, reply, log>>

(***************************************************************************)
(* Invalidation, which holds the control lock throughout                   *)
(***************************************************************************)
InvalidateVersion(i) ==
    LET lsn == version(catalog, Id(i))
    IN  /\ ops[i].kind = "invalidate" /\ ops[i].phase = "start" /\ control = None
        /\ IF lsn = None
           THEN Outcome(i, "ok", "release") /\ UNCHANGED <<chain, control>>
           ELSE /\ ops' = [ops EXCEPT ![i].phase = "get", ![i].lsn = lsn]
                /\ Ask(Id(i), i, "get", 0) /\ control' = i /\ UNCHANGED failures
        /\ UNCHANGED <<idOf, memory, registry, admission, taken, queues, fence, catalog, lookups,
                       begun, disk, reply, log, errors>>

\* A chunk that holds another key with the same identity is not this key's to delete.
OwnChunk(i, chunk) == chunk.key = ops[i].key

InvalidateGet(i) ==
    LET r == reply[i]
        End(result, cat) ==
            catalog' = cat /\ control' = None /\ Outcome(i, result, "release") /\ UNCHANGED chain
    IN  /\ ops[i].phase = "get" /\ r # None
        /\ Heard(i)
        /\ IF r.status # "ok" THEN End("error", catalog)
           ELSE IF r.chunk = NoChunk THEN End("ok", removeExpected(catalog, Id(i), ops[i].lsn))
           ELSE IF r.chunk.lsn # ops[i].lsn THEN End("corrupt", catalog)
           ELSE IF ~OwnChunk(i, r.chunk) THEN End("ok", catalog)
           ELSE /\ Ask(Id(i), i, "delete", ops[i].lsn)
                /\ Phase(i, "delete")
                /\ UNCHANGED <<catalog, control, failures>>
        /\ UNCHANGED <<idOf, memory, registry, admission, taken, queues, fence, lookups, begun,
                       disk, log, errors>>

InvalidateDelete(i) ==
    /\ ops[i].phase = "delete" /\ reply[i] # None
    /\ Heard(i) /\ control' = None
    /\ CASE reply[i].status = "ok" -> /\ catalog' = removeExpected(catalog, Id(i), ops[i].lsn)
                                      /\ Outcome(i, "ok", "release")
         [] reply[i].status = "changed" -> Outcome(i, "corrupt", "release") /\ UNCHANGED catalog
         [] OTHER -> Outcome(i, "error", "release") /\ UNCHANGED catalog
    /\ UNCHANGED <<idOf, memory, registry, admission, taken, queues, fence, lookups, begun,
                   disk, chain, log, errors>>

(***************************************************************************)
(* The end of a job, and fences                                            *)
(***************************************************************************)
Release(i) ==
    /\ ops[i].phase = "release"
    /\ registry' = [registry EXCEPT ![ops[i].key] = dropMutation(@)]
    /\ Phase(i, "finish")
    /\ UNCHANGED <<idOf, memory, admission, jobVars, catalog, lookups, begun, storeVars>>

\* The lease and the permit go, the reply is sent and the next job of the chunk starts.
Finish(i) ==
    LET queue == queues[Id(i)]
        done == [ops EXCEPT ![i] = [@ EXCEPT !.phase = "done", !.generation = 0, !.lsn = 0,
                                             !.born = None]]
    IN  /\ ops[i].phase = "finish"
        /\ registry' = [registry EXCEPT ![ops[i].key] = dropLease(@)]
        /\ ops' = IF queue = <<>> THEN done ELSE [done EXCEPT ![Head(queue)].phase = "start"]
        /\ queues' = [queues EXCEPT ![Id(i)] = IF queue = <<>> THEN queue ELSE Tail(queue)]
        /\ UNCHANGED <<idOf, memory, admission, taken, fence, failures, control, catalog, lookups,
                       begun, storeVars>>

FenceReadyAny(i) == TRUE

FenceReady(i) == RunningJobs = {}

FenceStart(i) ==
    /\ ops[i].phase = "fence" /\ FenceReady(i)
    /\ Phase(i, "flush")
    /\ UNCHANGED <<idOf, memory, registry, admission, jobVars, catalog, lookups, begun, storeVars>>

\* The store's own barrier answers; then the fence takes the failure recorded before it.
FenceEnd(i) ==
    /\ ops[i].phase = "flush"
    /\ \E status \in {"ok", "error"} :
         /\ errors' = IF status = "ok" THEN errors ELSE errors + 1
         /\ errors' <= MaxErrors
         /\ ops' = [ops EXCEPT ![i].phase = "done",
                               ![i].result = IF failures # None THEN "error" ELSE status]
    /\ failures' = None /\ fence' = None
    /\ memory' = IF ops[i].kind = "close" THEN [k \in Keys |-> None] ELSE memory
    /\ UNCHANGED <<idOf, registry, admission, taken, queues, control, catalog, lookups, begun,
                   disk, chain, reply, log>>

JobStep(i) ==
    /\ Thread(i)
    /\ \/ Reserve(i) \/ Evicted(i) \/ PutDone(i) \/ Publish(i)
       \/ InvalidateVersion(i) \/ InvalidateGet(i) \/ InvalidateDelete(i)
       \/ Release(i) \/ Finish(i) \/ FenceStart(i) \/ FenceEnd(i)

LookupStep(l) ==
    LookupCheck(l) \/ LookupProbe(l) \/ LookupGet(l) \/ LookupRead(l) \/ LookupMiss(l)

Call ==
    \/ \E k \in Keys, len \in Lens : Insert(k, len)
    \/ \E k \in Keys : Invalidate(k) \/ MemoryEvict(k)
    \/ \E kind \in {"flush", "close"} : Fence(kind)
    \/ \E l \in Lookups :
         \/ \E k \in Keys : LookupBegin(l, k)
         \/ \E len \in Lens : Populate(l, len)
         \/ LookupDrop(l)

\* What the threads and the store do without a further call.
Background ==
    \/ TrimStep \/ Trimmed \/ Intake
    \/ \E i \in DOMAIN ops : JobStep(i)
    \/ \E l \in Lookups : LookupStep(l)
    \/ \E id \in Ids : Serve(id)

Next == Call \/ Background

Spec == Init /\ [][Next]_vars

(***************************************************************************)
(* Properties                                                              *)
(***************************************************************************)
\* Memory never serves a value that a later mutation replaced: from the moment a mutation of
\* the key is admitted until it has failed, nothing older than it is resident, whichever
\* lookups, fills and jobs overlap with it (the checks in lookup and insert_prepared).
NoStaleResident ==
    \A k \in Keys : memory[k] # None =>
        /\ memory[k] = 0 \/ ops[memory[k]].result \in {"ok", "unwound"}
        /\ \A j \in OpsOf(k) : j > memory[k] => Failed(ops[j].result)

\* A lookup returns no value older than the newest mutation that was answered with success
\* before it began, and none whose write failed.  The fill of a lookup that missed is admitted
\* only if no mutation of its key was since the miss, even if the key's state was removed and
\* made again in between.
LookupsFresh ==
    /\ \A l \in Lookups : lookups[l].fresh
    /\ \A i \in DOMAIN ops : ops[i].born # None =>
         \A j \in OpsOf(ops[i].key) : ~(ops[i].born < j /\ j < i)

\* Live chunks and those that writes in flight have claimed stay within the disk's limits,
\* the claims' running totals agree with the writes in flight, and the log has room for every
\* write that got a reservation, also when a frame before it leaves a segment's end unused.
CatalogBounded ==
    /\ catalog.bytes = LiveBytes(catalog)
    /\ \A field \in {"extra", "new", "allocation"} : catalog[field] = Claimed(catalog, field)
    /\ admission \in {"open", "closed"} =>
         /\ catalog.bytes + catalog.extra <= catalog.limits.capacity
         /\ Cardinality(DOMAIN catalog.slots) + catalog.new <= catalog.limits.entries
    /\ LET unserved == {i \in DOMAIN ops : ops[i].phase = "put" /\ reply[i] = None}
       IN  MapThenSumSet(LAMBDA i : write_cost(ops[i].len), unserved)
               <= log.free * SegmentLen + log.room

\* A chunk on which no write or deletion is under way is in the catalog exactly if it is on
\* the disk, in the same version: no error path leaks a chunk, and no job finds a version it
\* did not expect.
Settled(id) ==
    /\ id \notin DOMAIN catalog.active
    /\ \A i \in DOMAIN ops : ~(ops[i].phase = "evict" /\ ops[i].victim = id)
                             /\ ~(ops[i].phase = "delete" /\ Id(i) = id)

CatalogTracksStore ==
    /\ admission \in {"open", "closed"} => \A id \in Ids : Settled(id) =>
         IF disk[id] = NoChunk THEN id \notin DOMAIN catalog.slots
         ELSE /\ id \in DOMAIN catalog.slots
              /\ catalog.slots[id].lsn = disk[id].lsn /\ catalog.slots[id].len = disk[id].len
    /\ \A i \in DOMAIN ops : ops[i].result # "corrupt"

\* The cache comes to rest only when every admitted operation is answered and every lookup
\* has returned, whatever failed: a waiting lookup is woken by the key's last mutation, a
\* waiting write by the writes before it, and no job waits for a lock that nobody will release.
NothingStranded ==
    \/ ENABLED Background
    \/ /\ \A i \in DOMAIN ops : Done(i)
       /\ \A l \in Lookups : lookups[l].pc \in {"returned", "token"}
=============================================================================
