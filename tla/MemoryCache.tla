---------------------------- MODULE MemoryCache ----------------------------
(***************************************************************************)
(* The sharded memory cache (moat-cache-memory/src/cache.rs, entry.rs) as  *)
(* its threads share it: an action is what happens under one shard lock,   *)
(* or one change of an atomic.  Handles are counted, whoever holds them; a *)
(* thread that dropped the last handle of a resident version is between    *)
(* that and Inner::release.  What happens before the lock is taken (the    *)
(* weigher, the admission filter) and after it is released (the listener)  *)
(* touches nothing shared and is part of the action.                       *)
(***************************************************************************)
EXTENDS MemoryPolicy

CONSTANTS
    Keys, Shards,           \* Shards == 0..n-1
    ShardOf,                \* from Keys to Shards, by hash
    Resizers,               \* threads that call resize
    Policies,               \* the policies to consider
    Capacities, Weights,
    MaxVersions, MaxHandles, MaxReleases, MaxResizes    \* bounds

VARIABLES
    records,        \* versions in the order in which they were decided on
    shards,
    capacity,       \* Inner.capacity
    resizing,       \* the resize each of Resizers is in: [capacity, next], or None
    releasing,      \* how many threads are about to release each version
    notices,        \* how often the listener heard of each version
    resizes

vars == <<records, shards, capacity, resizing, releasing, notices, resizes>>

Versions == 1..MaxVersions
ShardCount == Cardinality(Shards)
partition(total, s) == total \div ShardCount + IF s < total % ShardCount THEN 1 ELSE 0

Home(v) == ShardOf[records[v].key]
Resident(v) == v \in Linked(shards[Home(v)])
Pinning(s) == shards[s].policy = "Lru"
Priorities(s) == IF Pinning(s) THEN {"Normal", "High"} ELSE {"Normal"}

Init ==
    /\ records = <<>>
    /\ capacity \in Capacities
    /\ \E policy \in Policies : shards = [s \in Shards |-> NewShard(policy, partition(capacity, s))]
    /\ resizing = [r \in Resizers |-> None]
    /\ releasing = [v \in Versions |-> 0] /\ notices = [v \in Versions |-> 0]
    /\ resizes = 0

(***************************************************************************)
(* Parts of the operations, on a shard st whose removed versions are in    *)
(* st.removed until the lock is released                                   *)
(***************************************************************************)
find(s, k) == {v \in Linked(shards[s]) : records[v].key = k}

detach(st, id) ==
    LET gone == remove(st, id)
    IN  [gone EXCEPT !.freq = Restrict(@, DOMAIN @ \ {id}), !.removed = Append(@, id)]

RECURSIVE detachAll(_, _)
detachAll(st, ids) ==
    IF ids = {} THEN st
    ELSE LET id == CHOOSE id \in ids : TRUE IN detachAll(detach(st, id), ids \ {id})

\* What trim may make of a shard: evict while it is over its capacity and has a victim.
RECURSIVE trim(_, _)
trim(st, rec) ==
    LET next == victims(st, rec)
    IN  IF WeightOf(Linked(st), rec) <= st.capacity \/ next = {} THEN {st}
        ELSE UNION {trim(detach(n.st, n.id), rec) : n \in next}

\* The shard becomes st and the removed versions are announced.  A version that is not
\* resident never is again, so that its handles and releases no longer matter.
Install(s, st, rec, pending) ==
    LET gone == ToSet(st.removed)
    IN  /\ shards' = [shards EXCEPT ![s] = [st EXCEPT !.removed = <<>>]]
        /\ notices' = [v \in Versions |->
              notices[v] + Cardinality({n \in DOMAIN st.removed : st.removed[n] = v})]
        /\ records' = [v \in DOMAIN rec |-> IF v \in gone THEN [rec[v] EXCEPT !.references = 0]
                                            ELSE rec[v]]
        /\ releasing' = [v \in Versions |-> IF v \in gone THEN 0 ELSE pending[v]]

(***************************************************************************)
(* Operations                                                              *)
(***************************************************************************)
\* A version with the handle that its caller gets.  Handles are counted under LRU; under the
\* other policies a release finds nothing to move and the shard within its budget.
New(k, weight, priority) ==
    Append(records, [key |-> k, weight |-> weight, priority |-> priority,
                     references |-> IF Pinning(ShardOf[k]) THEN 1 ELSE 0])

\* LRU may have only pinned versions left, and then it is the new one that goes.
Committed(st, rec, v) ==
    {IF v \in Linked(t) /\ WeightOf(Linked(t), rec) > t.capacity THEN detach(t, v) ELSE t :
        t \in trim(insert(st, rec, v), rec)}

RefusedSilently(st, v) == st

Refused(st, v) == [st EXCEPT !.removed = Append(@, v)]

\* prepare and commit: a version that is not admitted, or too heavy, still takes its
\* predecessor's place.
Commit(k, weight, priority, admitted) ==
    LET v == Len(records) + 1
        s == ShardOf[k]
        rec == New(k, weight, priority)
        bare == detachAll(shards[s], find(s, k))
    IN  /\ v \in Versions
        /\ IF admitted /\ weight <= bare.capacity
           THEN \E st \in Committed(bare, rec, v) : Install(s, st, rec, releasing)
           ELSE Install(s, Refused(bare, v), rec, releasing)
        /\ UNCHANGED <<capacity, resizing, resizes>>

\* A read promotion that is not admitted leaves the shard alone.
RejectPromotion(k) ==
    LET v == Len(records) + 1
    IN  /\ v \in Versions
        /\ Install(ShardOf[k], Refused(shards[ShardOf[k]], v), New(k, 1, "Normal"),
                   releasing)
        /\ UNCHANGED <<capacity, resizing, resizes>>

Handles(v, n) == records' = [records EXCEPT ![v].references = @ + n]

Get(k) ==
    \E v \in find(ShardOf[k], k) :
        /\ IF Pinning(ShardOf[k]) THEN records[v].references < MaxHandles /\ Handles(v, 1)
           ELSE UNCHANGED records
        /\ shards' = [shards EXCEPT ![ShardOf[k]] = access(@, records, v)]
        /\ UNCHANGED <<capacity, resizing, releasing, notices, resizes>>

Clone(v) ==
    /\ records[v].references \in 1..MaxHandles - 1
    /\ Handles(v, 1)
    /\ UNCHANGED <<shards, capacity, resizing, releasing, notices, resizes>>

DropHandle(v) ==
    /\ records[v].references > 0 /\ releasing[v] < MaxReleases
    /\ Handles(v, -1)
    /\ releasing' = IF records[v].references = 1 /\ Resident(v)
                    THEN [releasing EXCEPT ![v] = @ + 1] ELSE releasing
    /\ UNCHANGED <<shards, capacity, resizing, notices, resizes>>

ReleasableUnchecked(v) == TRUE

\* The count is read again under the lock: a lookup may have taken a new handle.
Releasable(v) == records[v].references = 0

Release(v) ==
    LET done == [releasing EXCEPT ![v] = @ - 1]
    IN  /\ releasing[v] > 0
        /\ IF Releasable(v)
           THEN \E st \in trim(unpin(shards[Home(v)], records, v), records) :
                    Install(Home(v), st, records, done)
           ELSE UNCHANGED <<records, shards, notices>> /\ releasing' = done
        /\ UNCHANGED <<capacity, resizing, resizes>>

Removal(k) ==
    /\ find(ShardOf[k], k) # {}
    /\ Install(ShardOf[k], detachAll(shards[ShardOf[k]], find(ShardOf[k], k)), records, releasing)
    /\ UNCHANGED <<capacity, resizing, resizes>>

ClearShard(s) ==
    /\ Linked(shards[s]) # {} \/ shards[s].ghost # <<>>
    /\ Install(s, clear_history(detachAll(shards[s], Linked(shards[s]))), records, releasing)
    /\ UNCHANGED <<capacity, resizing, resizes>>

SerialUnlocked(r) == resizing[r] = None

\* Inner.resizing admits one resize at a time.
Serial(r) == \A other \in Resizers : resizing[other] = None

ResizeBegin(r, total) ==
    /\ resizes < MaxResizes /\ Serial(r)
    /\ resizes' = resizes + 1
    /\ resizing' = [resizing EXCEPT ![r] = [capacity |-> total, next |-> 0]]
    /\ UNCHANGED <<records, shards, capacity, releasing, notices>>

ResizeShard(r) ==
    LET s == resizing[r].next
        sized == resize(shards[s], records, partition(resizing[r].capacity, s))
    IN  /\ resizing[r] # None /\ s \in Shards
        /\ resizing' = [resizing EXCEPT ![r].next = @ + 1]
        /\ \E st \in trim(sized, records) : Install(s, st, records, releasing)
        /\ UNCHANGED <<capacity, resizes>>

ResizeEnd(r) ==
    /\ resizing[r] # None /\ resizing[r].next \notin Shards
    /\ capacity' = resizing[r].capacity
    /\ resizing' = [resizing EXCEPT ![r] = None]
    /\ UNCHANGED <<records, shards, releasing, notices, resizes>>

Next ==
    \/ \E k \in Keys :
         \/ \E weight \in Weights, priority \in Priorities(ShardOf[k]) :
              Commit(k, weight, priority, TRUE)
         \/ Commit(k, 1, "Normal", FALSE)
         \/ RejectPromotion(k) \/ Get(k) \/ Removal(k)
    \/ \E v \in DOMAIN records : Clone(v) \/ DropHandle(v) \/ Release(v)
    \/ \E s \in Shards : ClearShard(s)
    \/ \E r \in Resizers :
         \/ \E total \in Capacities : ResizeBegin(r, total)
         \/ ResizeShard(r) \/ ResizeEnd(r)

Spec == Init /\ [][Next]_vars

(***************************************************************************)
(* Properties                                                              *)
(***************************************************************************)
\* Under LRU a version that somebody holds is out of eviction's reach, and one that nobody
\* holds does not stay there, once the thread that dropped its last handle is through,
\* however drops, lookups and clones overlap (the two checks in Entry::drop and release).
PinsFollowHandles ==
    \A s \in Shards : Pinning(s) => \A v \in Linked(shards[s]) :
        IF records[v].references > 0 THEN QueueOf(shards[s], v) = 2
        ELSE QueueOf(shards[s], v) = 2 => releasing[v] > 0

\* A shard exceeds its budget only by versions that are held, its reserved pools and its
\* ghosts keep to their shares, and when no resize is under way the shards' budgets are those
\* of one and the same total, although a resize visits one shard after the other.
WithinBudget ==
    /\ \A s \in Shards :
         LET st == shards[s]
         IN  /\ \/ WeightOf(Linked(st), records) <= st.capacity
                \/ Pinning(s) /\ Linked(st) = ToSet(st.lists[2])
             /\ st.policy = "Lru" =>
                  ListWeight(st, records, 1) <= portion(st.capacity, HighPercent)
             /\ st.policy = "Lfu" =>
                  ListWeight(st, records, 2) <= portion(st.capacity, ProtectedPercent)
             /\ GhostWeight(st.ghost) <= st.capacity /\ Len(st.ghost) <= GhostEntries
    /\ (\A r \in Resizers : resizing[r] = None) =>
         /\ \A s \in Shards : shards[s].capacity = partition(capacity, s)
         /\ MapThenSumSet(LAMBDA s : shards[s].capacity, Shards) = capacity

\* A key has at most one resident version; every version that was refused or lost its
\* residency, by replacement, eviction, removal or clearing, is announced exactly once.
VersionsAccounted ==
    /\ \A k \in Keys : Cardinality(find(ShardOf[k], k)) <= 1
    /\ \A v \in DOMAIN records : notices[v] = IF Resident(v) THEN 0 ELSE 1
=============================================================================
