----------------------------- MODULE BufferPool -----------------------------
(***************************************************************************)
(* The pool of page-aligned buffers (moat-common/src/pool.rs): a buddy     *)
(* allocator per arena, used by the home thread alone, and the stack on    *)
(* which other threads return blocks.  Sizes are in pages; a block is      *)
(* [arena, at, order] and has 2^order pages.                               *)
(***************************************************************************)
EXTENDS Integers, Sequences, FiniteSets, SequencesExt, FiniteSetsExt

CONSTANTS
    Shapes,         \* the pools to consider: [max, pages, arenaMax];
                    \* max is the largest order, arenaMax is ARENA_MAX
    LazyPages,      \* LAZY_BYTES_PER_ORDER
    Lens,           \* the lengths that are asked for
    Threads,        \* the other threads
    MaxAllocs,      \* bound
    None

VARIABLES
    buddies,        \* per arena: free, the linked blocks, and parked, per order
    returned,       \* the return stack, its head first
    pushing,        \* what a thread is about to return, and the head that it saw
    inUse,          \* in_use
    held,           \* blocks that the home thread owns outside the I/O queue
    abroad,         \* blocks that other threads own
    capacity,       \* capacity()
    refused,        \* the order that the last allocation asked for in vain
    allocs          \* how many allocations were tried

poolVars == <<buddies, returned, pushing, inUse, held, abroad, capacity, refused, allocs>>

Size(order) == 2^order
Orders(b) == DOMAIN b.free
Block(arena, at, order) == [arena |-> arena, at |-> at, order |-> order]
PagesOf(block) == {<<block.arena, page>> : page \in block.at..block.at + Size(block.order) - 1}
FirstOf(list) == IF list = <<>> THEN None ELSE Head(list)

(***************************************************************************)
(* The buddy allocator b of one arena                                      *)
(***************************************************************************)
push(b, order, at) == [b EXCEPT !.free[order] = <<at>> \o @]
unlink(b, order, at) == [b EXCEPT !.free[order] = Remove(@, at)]
is_free(b, order, at) == Contains(b.free[order], at)

\* Seeds the lists with the binary decomposition of the arena.
RECURSIVE seed(_, _, _)
seed(b, at, remaining) ==
    IF remaining = 0 THEN b
    ELSE LET order == Max({k \in Orders(b) : Size(k) <= remaining})
         IN  seed(push(b, order, at), at + Size(order), remaining - Size(order))

NewBuddy(max, len) ==
    seed([free |-> [k \in 0..max |-> <<>>], parked |-> [k \in 0..max |-> <<>>]], 0, len)

buddy(at, order) == IF (at \div Size(order)) % 2 = 0 THEN at + Size(order) ELSE at - Size(order)

RECURSIVE release_eager(_, _, _)
release_eager(b, at, order) ==
    IF order + 1 \in Orders(b) /\ is_free(b, order, buddy(at, order))
    THEN release_eager(unlink(b, order, buddy(at, order)),
                       Min({at, buddy(at, order)}), order + 1)
    ELSE push(b, order, at)

\* A released block is parked while there is room, and merged with its buddies otherwise.
ParkedCapacity(order) == Max({LazyPages \div Size(order), 1})

Release(b, at, order) ==
    IF Len(b.parked[order]) < ParkedCapacity(order)
    THEN [b EXCEPT !.parked[order] = <<at>> \o @]
    ELSE release_eager(b, at, order)

RECURSIVE compact(_, _)
compact(b, order) ==
    IF order \notin Orders(b) THEN b
    ELSE IF b.parked[order] = <<>> THEN compact(b, order + 1)
    ELSE compact(release_eager([b EXCEPT !.parked[order] = Tail(@)], Head(b.parked[order]), order),
                 order)

\* The upper halves stay free.
RECURSIVE split(_, _, _, _)
split(b, at, from, order) ==
    IF from = order THEN b
    ELSE split(push(b, from - 1, at + Size(from - 1)), at, from - 1, order)

AboveEmpty(b, order) == {k \in Orders(b) : k >= order /\ b.free[k] # <<>>}

CompactedNever(b, order) == b

\* Parked blocks may merge into something big enough.
Compacted(b, order) == IF AboveEmpty(b, order) = {} THEN compact(b, 0) ELSE b

\* The allocator after alloc, with the place that it found or None.
alloc(b, order) ==
    IF b.parked[order] # <<>>
    THEN [b |-> [b EXCEPT !.parked[order] = Tail(@)], at |-> Head(b.parked[order])]
    ELSE LET c == Compacted(b, order)
             from == Min(AboveEmpty(c, order))
             at == Head(c.free[from])
         IN  IF AboveEmpty(c, order) = {} THEN [b |-> c, at |-> None]
             ELSE [b |-> split(unlink(c, from, at), at, from, order), at |-> at]

(***************************************************************************)
(* The pool                                                                *)
(***************************************************************************)
\* BufferPool::new rounds up to the largest class and cuts the total into arenas.
RECURSIVE ArenaLens(_, _)
ArenaLens(remaining, most) ==
    IF remaining = 0 THEN <<>>
    ELSE LET len == Min({remaining, most}) IN <<len>> \o ArenaLens(remaining - len, most)

Total(shape) ==
    LET class == Size(shape.max)
    IN  ((Max({shape.pages, class}) + class - 1) \div class) * class

PoolInit ==
    /\ \E shape \in Shapes :
         LET lens == ArenaLens(Total(shape), shape.arenaMax)
         IN  /\ buddies = [a \in DOMAIN lens |-> NewBuddy(shape.max, lens[a])]
             /\ capacity = Total(shape)
    /\ returned = <<>> /\ pushing = [t \in Threads |-> None]
    /\ inUse = 0 /\ held = {} /\ abroad = {} /\ refused = None /\ allocs = 0

MaxOrder == Max(Orders(buddies[1]))

\* The order of the class that serves len, for len within the largest class.
OrderOf(len) == Min({k \in 0..MaxOrder : Size(k) >= len})

ReleaseBlock(all, block) == [all EXCEPT ![block.arena] = Release(@, block.at, block.order)]

\* From the head of the stack to its end.
drain_returned(all, stack) ==
    FoldLeft(LAMBDA acc, block : ReleaseBlock(acc, block), all, stack)

RECURSIVE find_map(_, _, _)
find_map(all, arena, order) ==
    IF arena \notin DOMAIN all THEN [all |-> all, block |-> None]
    ELSE LET found == alloc(all[arena], order)
             after == [all EXCEPT ![arena] = found.b]
         IN  IF found.at = None THEN find_map(after, arena + 1, order)
             ELSE [all |-> after, block |-> Block(arena, found.at, order)]

\* A request above the largest class is turned away before anything is looked at.
AllocTooLong(len) ==
    /\ len > Size(MaxOrder)
    /\ refused' = None
    /\ UNCHANGED <<buddies, returned, pushing, inUse, held, abroad, capacity, allocs>>

Alloc(len) ==
    /\ allocs < MaxAllocs /\ allocs' = allocs + 1
    /\ len <= Size(MaxOrder)
    /\ LET order == OrderOf(len)
           found == find_map(drain_returned(buddies, returned), 1, order)
       IN  /\ buddies' = found.all /\ returned' = <<>>
           /\ IF found.block = None
              THEN refused' = order /\ UNCHANGED <<held, inUse>>
              ELSE /\ refused' = None
                   /\ held' = held \cup {found.block} /\ inUse' = inUse + Size(order)
    /\ UNCHANGED <<pushing, abroad, capacity>>

\* The home thread drops a buffer.
DropHome(block) ==
    /\ block \in held
    /\ held' = held \ {block}
    /\ inUse' = inUse - Size(block.order)
    /\ buddies' = ReleaseBlock(buddies, block)
    /\ refused' = None
    /\ UNCHANGED <<returned, pushing, abroad, capacity, allocs>>

\* A buffer is sent to another thread (a PooledBuf is Send).
SendAway(block) ==
    /\ block \in held
    /\ held' = held \ {block} /\ abroad' = abroad \cup {block}
    /\ refused' = None
    /\ UNCHANGED <<buddies, returned, pushing, inUse, capacity, allocs>>

\* Another thread drops a buffer: up to the load of the stack's head.
DropAbroad(t, block) ==
    /\ pushing[t] = None /\ block \in abroad
    /\ abroad' = abroad \ {block}
    /\ inUse' = inUse - Size(block.order)
    /\ pushing' = [pushing EXCEPT ![t] = [block |-> block, head |-> FirstOf(returned)]]
    /\ refused' = None
    /\ UNCHANGED <<buddies, returned, held, capacity, allocs>>

\* The chain that starts at a block whose address was read earlier; the link dangles when
\* the block has left the stack.
ChainFrom(head) ==
    LET n == SelectInSeq(returned, LAMBDA block : block = head)
    IN  IF head = None THEN <<>> ELSE IF n = 0 THEN <<head>> ELSE SubSeq(returned, n, Len(returned))

Cas(t) == pushing[t].head = FirstOf(returned)

\* compare_exchange_weak, which may also fail for no reason and be tried again.
PushReturned(t) ==
    /\ pushing[t] # None
    /\ IF Cas(t)
       THEN /\ returned' = <<pushing[t].block>> \o ChainFrom(pushing[t].head)
            /\ pushing' = [pushing EXCEPT ![t] = None]
       ELSE pushing' = [pushing EXCEPT ![t].head = FirstOf(returned)] /\ UNCHANGED returned
    /\ refused' = None
    /\ UNCHANGED <<buddies, inUse, held, abroad, capacity, allocs>>

PoolNext ==
    \/ \E len \in Lens : AllocTooLong(len) \/ Alloc(len)
    \/ \E block \in held : DropHome(block) \/ SendAway(block)
    \/ \E t \in Threads : PushReturned(t) \/ \E block \in abroad : DropAbroad(t, block)

(***************************************************************************)
(* Where the pages are                                                     *)
(***************************************************************************)
FreeBlocks ==
    UNION {UNION {{Block(a, at, k) : at \in ToSet(buddies[a].free[k]) \cup ToSet(buddies[a].parked[k])} :
                  k \in Orders(buddies[a])} : a \in DOMAIN buddies}

\* How many places there are for free blocks, so that a block on two lists shows.
FreeEntries ==
    MapThenSumSet(LAMBDA a : MapThenSumSet(LAMBDA k :
        Len(buddies[a].free[k]) + Len(buddies[a].parked[k]), Orders(buddies[a])), DOMAIN buddies)

Pushed == {pushing[t].block : t \in {t \in Threads : pushing[t] # None}}

\* When an allocation is refused there is no free run of that size in its place in an
\* arena: not among the parked blocks, not among those returned before, and not in pieces
\* that belong together (Buddy::alloc compacts, BufferPool::alloc drains first).
RefusalsGenuine ==
    refused # None =>
        LET pages == UNION {PagesOf(block) : block \in FreeBlocks \cup ToSet(returned)}
            arenas == {page[1] : page \in pages}
        IN  \A a \in arenas : \A at \in {page[2] : page \in {p \in pages : p[1] = a}} :
                at % Size(refused) = 0 => ~(PagesOf(Block(a, at, refused)) \subseteq pages)
=============================================================================
