---------------------------- MODULE MemoryPolicy ----------------------------
(***************************************************************************)
(* The replacement queues of a shard of the memory cache                   *)
(* (moat-cache-memory/src/policy.rs), as operators on the shard st and the *)
(* records rec of its versions.  The frequency sketch of TinyLFU appears   *)
(* only where two estimates are compared, and either may be greater.       *)
(***************************************************************************)
EXTENDS Integers, Sequences, FiniteSets, SequencesExt, FiniteSetsExt

CONSTANTS
    HighPercent,                        \* LruConfig
    WindowPercent, ProtectedPercent,    \* LfuConfig
    SmallPercent, GhostEntries,         \* S3FifoConfig
    None

\* An empty shard; freq holds the counters of the versions that have been hit.
NewShard(policy, capacity) ==
    [policy |-> policy, capacity |-> capacity, lists |-> [q \in 0..2 |-> <<>>], hand |-> None,
     ghost |-> <<>>, freq |-> [id \in {} |-> 0], removed |-> <<>>]

portion(capacity, percent) == (capacity \div 100) * percent + ((capacity % 100) * percent) \div 100

WeightOf(ids, rec) == MapThenSumSet(LAMBDA id : rec[id].weight, ids)
ListWeight(st, rec, q) == WeightOf(ToSet(st.lists[q]), rec)
Linked(st) == UNION {ToSet(st.lists[q]) : q \in 0..2}
QueueOf(st, id) == CHOOSE q \in 0..2 : id \in ToSet(st.lists[q])
FirstOf(list) == IF list = <<>> THEN None ELSE Head(list)

\* node.next
NextOf(st, id) ==
    LET list == st.lists[QueueOf(st, id)]
        n == CHOOSE n \in DOMAIN list : list[n] = id
    IN  IF n = Len(list) THEN None ELSE list[n + 1]

Frequency(st, id) == IF id \in DOMAIN st.freq THEN st.freq[id] ELSE 0

SetFrequency(st, id, n) ==
    [st EXCEPT !.freq = [i \in DOMAIN st.freq \cup {id} |-> IF i = id THEN n ELSE st.freq[i]]]

push(st, id, q) == [st EXCEPT !.lists[q] = Append(@, id)]

remove(st, id) ==
    [st EXCEPT !.hand = IF @ = id THEN NextOf(st, id) ELSE @,
               !.lists[QueueOf(st, id)] = Remove(@, id)]

move_to(st, id, q) == push(remove(st, id), id, q)

\* Moves the oldest of a queue on while the queue is over its limit.
RECURSIVE demote(_, _, _, _, _)
demote(st, rec, from, to, limit) ==
    IF ListWeight(st, rec, from) <= limit THEN st
    ELSE demote(move_to(st, Head(st.lists[from]), to), rec, from, to, limit)

(***************************************************************************)
(* Ghosts: what S3FIFO remembers of evicted versions                       *)
(***************************************************************************)
GhostWeight(ghost) == FoldSeq(LAMBDA g, sum : g.weight + sum, 0, ghost)
GhostContains(ghost, hash) == \E n \in DOMAIN ghost : ghost[n].hash = hash

RECURSIVE ghostTrim(_, _, _)
ghostTrim(ghost, capacity, limit) ==
    IF GhostWeight(ghost) > capacity \/ Len(ghost) > limit
    THEN ghostTrim(Tail(ghost), capacity, limit) ELSE ghost

ghostPush(ghost, capacity, g) ==
    IF GhostEntries = 0 \/ g.weight > capacity THEN ghost
    ELSE Append(ghostTrim(ghost, capacity - g.weight, GhostEntries - 1), g)

(***************************************************************************)
(* Operations of a shard                                                   *)
(***************************************************************************)
\* TinyLFU fills its main queue from the window while the shard is not full.
RECURSIVE warmUp(_, _)
warmUp(st, rec) ==
    IF /\ WeightOf(Linked(st), rec) <= st.capacity
       /\ ListWeight(st, rec, 0) > portion(st.capacity, WindowPercent)
    THEN warmUp(move_to(st, Head(st.lists[0]), 1), rec) ELSE st

insert(st, rec, id) ==
    CASE st.policy = "Lru" -> push(st, id, 2)
      [] st.policy = "S3Fifo" -> push(st, id, IF GhostContains(st.ghost, rec[id].key) THEN 1 ELSE 0)
      [] st.policy = "Lfu" -> warmUp(push(st, id, 0), rec)
      [] OTHER -> push(st, id, 0)

\* access and access_shared
access(st, rec, id) ==
    CASE st.policy = "Lru" -> IF QueueOf(st, id) = 2 THEN st ELSE move_to(st, id, 2)
      [] st.policy = "Lfu" ->
           demote(move_to(st, id, IF QueueOf(st, id) = 0 THEN 0 ELSE 2), rec, 2, 1,
                  portion(st.capacity, ProtectedPercent))
      [] st.policy = "S3Fifo" -> SetFrequency(st, id, Min({Frequency(st, id) + 1, 3}))
      [] st.policy = "Sieve" -> SetFrequency(st, id, 1)
      [] st.policy = "Fifo" -> st

\* The last handle is gone: out of the pinned queue into the one of its priority.
unpin(st, rec, id) ==
    IF st.policy # "Lru" \/ QueueOf(st, id) # 2 THEN st
    ELSE demote(move_to(st, id, IF rec[id].priority = "High" THEN 1 ELSE 0), rec, 1, 0,
                portion(st.capacity, HighPercent))

Choice(st, id) == IF id = None THEN {} ELSE {[st |-> st, id |-> id]}

FirstLinked(st, order) ==
    LET some == SelectSeq(order, LAMBDA q : st.lists[q] # <<>>)
    IN  IF some = <<>> THEN None ELSE Head(st.lists[Head(some)])

\* A hit version gets a second chance when the hand passes.
RECURSIVE sieve(_)
sieve(st) ==
    LET id == IF st.hand # None THEN st.hand ELSE FirstOf(st.lists[0])
    IN  IF id = None THEN {}
        ELSE LET moved == [st EXCEPT !.hand = NextOf(st, id)]
             IN  IF Frequency(st, id) = 0 THEN Choice(moved, id)
                 ELSE sieve(SetFrequency(moved, id, 0))

lfu(st, rec) ==
    LET candidate == FirstOf(st.lists[0])
        main == FirstOf(st.lists[1])
    IN  IF candidate # None /\ ListWeight(st, rec, 0) > portion(st.capacity, WindowPercent)
        THEN Choice(st, candidate) \cup
             IF main = None THEN {} ELSE Choice(move_to(st, candidate, 1), main)
        ELSE Choice(st, FirstLinked(st, <<1, 2, 0>>))

RECURSIVE s3fifo(_, _)
s3fifo(st, rec) ==
    LET small == FirstOf(st.lists[0])
        main == FirstOf(st.lists[1])
        ghost == [hash |-> rec[small].key, weight |-> rec[small].weight]
    IN  IF /\ small # None
           /\ ListWeight(st, rec, 0) > portion(st.capacity, SmallPercent) \/ main = None
        THEN IF Frequency(st, small) > 1
             THEN s3fifo(SetFrequency(move_to(st, small, 1), small, 0), rec)
             ELSE Choice([SetFrequency(st, small, 0)
                             EXCEPT !.ghost = ghostPush(@, st.capacity, ghost)], small)
        ELSE IF main = None THEN {}
        ELSE IF Frequency(st, main) = 0 THEN Choice(st, main)
        ELSE s3fifo(SetFrequency(move_to(st, main, 1), main, Frequency(st, main) - 1), rec)

\* The versions that may go next, with the queues as they are left behind.
victims(st, rec) ==
    CASE st.policy = "Fifo" -> Choice(st, FirstOf(st.lists[0]))
      [] st.policy = "Lru" -> Choice(st, FirstLinked(st, <<0, 1>>))
      [] st.policy = "Sieve" -> sieve(st)
      [] st.policy = "Lfu" -> lfu(st, rec)
      [] st.policy = "S3Fifo" -> s3fifo(st, rec)

resize(st, rec, capacity) ==
    LET sized == [st EXCEPT !.capacity = capacity, !.ghost = ghostTrim(@, capacity, GhostEntries)]
    IN  CASE st.policy = "Lru" -> demote(sized, rec, 1, 0, portion(capacity, HighPercent))
          [] st.policy = "Lfu" -> demote(sized, rec, 2, 1, portion(capacity, ProtectedPercent))
          [] OTHER -> sized

clear_history(st) == [st EXCEPT !.hand = None, !.ghost = <<>>]
=============================================================================
