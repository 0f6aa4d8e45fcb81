----------------------------- MODULE HybridState ----------------------------
(***************************************************************************)
(* The state of the hybrid cache on one disk (moat-cache/src/cache.rs,     *)
(* registry.rs, scheduler.rs, with Catalog): what callers, the coordinator *)
(* thread and the store share, and what is read and made of it.            *)
(* HybridCache takes the steps.                                            *)
(*                                                                         *)
(* A value is the number of the operation that wrote it; 0 is a value that *)
(* was on the disk when the cache was opened.                              *)
(***************************************************************************)
EXTENDS Catalog, Sequences

CONSTANTS
    Keys, Lookups,      \* logical keys; callers that look keys up
    Ids,                \* chunk identities
    Openings,           \* records of a map idOf from Keys to Ids (keys may collide), the keys
                        \* found on the disk, its limits [capacity, entries, reserve, policy] and
                        \* its free segments, never allocated
    Lens,               \* encoded lengths of the values inserted
    SegmentLen,         \* appendable bytes of a segment
    MaxLeases, MaxJobs, MaxBytes,           \* key_leases, pending_operations, pending_bytes
    MaxOps, MaxLookups, MaxErrors           \* bounds: operations, lookups, store errors

\* What the registry keeps of a key: its leases, the generation of its last mutation, the
\* mutations not yet finished and the lookups that wait for them.
KeyState == [leases : Nat, generation : Nat, pending : Nat, waiters : SUBSET Lookups]

\* What the store keeps of a chunk, and what it answers.
Chunk == [lsn : Nat, value : Nat \cup {None}, key : Keys \cup {None}, len : Nat]
Reply == [id : Ids, status : {"ok", "error", "changed"}, chunk : Chunk]

ASSUME HybridAssumption ==
    /\ IsFiniteSet(Keys) /\ IsFiniteSet(Ids)
    /\ IsFiniteSet(Lookups) /\ Lookups \cap Nat = {}
    /\ Lens \subseteq Nat /\ SegmentLen \in Nat
    /\ {MaxLeases, MaxJobs, MaxBytes, MaxOps, MaxLookups, MaxErrors} \subseteq Nat
    /\ None \notin Keys \cup Lookups \cup Ids
    /\ None \notin Nat /\ None \notin KeyState /\ None \notin Reply
    /\ None \notin {"ok", "error", "corrupt", "unwound"}
    /\ \A o \in Openings :
         /\ o.idOf \in [Keys -> Ids] /\ o.found \in SUBSET Keys /\ o.free \in Nat
         /\ o.limits \in [capacity : Nat, entries : Nat, reserve : Nat, policy : {"fifo", "sieve"}]

VARIABLES
    idOf,               \* which chunk a key is stored in; never changes
    memory,             \* resident value of each key
    registry,           \* transient state of keys somebody holds a lease on
    admission,          \* "trim" while opening, then "open", "closed" or "failed"
    ops,                \* mutations and fences in admission order
    taken,              \* operations the coordinator took from its channel
    queues,             \* jobs waiting for an earlier one of their chunk
    fence,              \* the fence that stops the intake, or None
    failures,           \* first failure no fence has reported
    control,            \* who holds the disk's control lock
    catalog,
    lookups, begun,
    disk, chain, reply, log, errors         \* the store

callVars == <<memory, registry, admission, ops>>
jobVars == <<taken, queues, fence, failures, control>>
storeVars == <<disk, chain, reply, log, errors>>
vars == <<idOf, callVars, jobVars, catalog, lookups, begun, storeVars>>

Opener == 0             \* Cache::new as a user of the store and of the control lock
Mutations == {"insert", "invalidate"}
OpsOf(k) == {i \in DOMAIN ops : ops[i].kind \in Mutations /\ ops[i].key = k}
Id(i) == idOf[ops[i].key]

NoChunk == [lsn |-> 0, value |-> None, key |-> None, len |-> 0]
TombstoneLen == 1
NotLooking == [pc |-> "returned", key |-> None, generation |-> 0, floor |-> 0, fresh |-> TRUE]

(***************************************************************************)
(* Requests to the store and its answers                                   *)
(***************************************************************************)
Ask(id, who, kind, lsn) ==
    chain' = [chain EXCEPT ![id] = Append(@, [who |-> who, kind |-> kind, lsn |-> lsn])]

Heard(who) == reply' = [reply EXCEPT ![who] = None]

(***************************************************************************)
(* Registry                                                                *)
(***************************************************************************)
acquire(e) ==
    IF e = None THEN [leases |-> 1, generation |-> 0, pending |-> 0, waiters |-> {}]
    ELSE [e EXCEPT !.leases = @ + 1]

\* The state of a key goes with its last lease; the next starts at generation zero.
dropLease(e) == IF e.leases = 1 THEN None ELSE [e EXCEPT !.leases = @ - 1]

advance(e) == [e EXCEPT !.generation = @ + 1, !.pending = @ + 1]

dropMutationSilently(e) == [e EXCEPT !.pending = @ - 1]

dropMutation(e) ==
    [e EXCEPT !.pending = @ - 1, !.waiters = IF e.pending = 1 THEN {} ELSE @]

ValidTokenAlways(l) == TRUE

\* FillToken::is_valid, which the admission repeats under its locks.
ValidToken(l) == registry[lookups[l].key].generation = lookups[l].generation

\* Only the newest mutation of its key publishes.
Publishes(i) ==
    registry[ops[i].key].generation = ops[i].generation /\ admission # "closed"

(***************************************************************************)
(* Operations                                                              *)
(***************************************************************************)
\* The newest mutation of k that had been answered with success.
Newest(k) ==
    Max({0} \cup {i \in OpsOf(k) : ops[i].phase = "done" /\ ops[i].result = "ok"})

Waiting == {"queued", "pending", "done"}
RunningJobs == {i \in DOMAIN ops : ops[i].kind \in Mutations /\ ops[i].phase \notin Waiting}

\* The coordinator is one thread: from a put's answer to its job's end nothing else runs on it.
Thread(i) == \A j \in DOMAIN ops : ops[j].phase \in {"publish", "release", "finish"} => i = j

Failed(result) == result \in {"error", "corrupt"}

Done(i) == ops[i].phase = "done"
Started(i) == ops[i].phase \notin {"queued", "pending", "fence"}

Ordered(i, j) == {ops[i].kind, ops[j].kind} \subseteq Mutations => Id(i) = Id(j)

\* j is the first fence behind the failed mutation i.
Reports(i, j) ==
    /\ ops[i].kind \in Mutations /\ Failed(ops[i].result)
    /\ ops[j].kind \notin Mutations
    /\ \A f \in i..(j - 1) : ops[f].kind \in Mutations

\* Jobs of one chunk run one at a time in admission order; a fence runs when everything
\* before it is finished and nothing after it has begun; and the first fence after a failed
\* mutation reports it (scheduler's run, the failures of cache.rs).
CoordinatorOrder ==
    \A i, j \in DOMAIN ops : i < j =>
        /\ Started(j) /\ Ordered(i, j) => Done(i)
        /\ Reports(i, j) /\ Done(j) => ops[j].result = "error"
=============================================================================
