------------------------------ MODULE Catalog ------------------------------
(***************************************************************************)
(* One disk's catalog of cached chunks (moat-cache/src/catalog.rs): the    *)
(* state its mutex guards, as a record, and what each critical section     *)
(* makes of it.  HybridCache takes the steps.                              *)
(***************************************************************************)
EXTENDS Integers, FiniteSets, FiniteSetsExt

CONSTANTS None

\* limits: what Disk holds beside its state: capacity, entries, reserve and policy.
EmptyCatalog(limits) ==
    [limits |-> limits, slots |-> [id \in {} |-> None], clock |-> 0, hand |-> 0, bytes |-> 0,
     active |-> [id \in {} |-> None], extra |-> 0, new |-> 0, allocation |-> 0,
     waiters |-> {}]

Without(f, id) == [x \in DOMAIN f \ {id} |-> f[x]]
With(f, id, v) == [x \in DOMAIN f \cup {id} |-> IF x = id THEN v ELSE f[x]]

removeSlot(cat, id) ==
    IF id \notin DOMAIN cat.slots THEN cat
    ELSE [cat EXCEPT !.slots = Without(@, id), !.bytes = @ - cat.slots[id].len]

insertSlot(cat, id, lsn, len) ==
    LET rest == removeSlot(cat, id)
    IN  [rest EXCEPT
           !.clock = @ + 1, !.bytes = @ + len,
           !.slots = With(@, id, [lsn |-> lsn, len |-> len, position |-> rest.clock + 1,
                                  visited |-> FALSE])]

removeExpected(cat, id, lsn) ==
    IF id \in DOMAIN cat.slots /\ cat.slots[id].lsn = lsn THEN removeSlot(cat, id) ELSE cat

version(cat, id) ==
    IF id \in DOMAIN cat.active \/ id \notin DOMAIN cat.slots THEN None ELSE cat.slots[id].lsn

ValidHit(cat, id, lsn) == version(cat, id) = lsn

Visit(cat, id) == [cat EXCEPT !.slots[id].visited = TRUE]

VictimActive(cat, exclude) == DOMAIN cat.slots \ {exclude}

\* Slots with a write in flight keep their place until it ends.
Evictable(cat, exclude) == DOMAIN cat.slots \ ({exclude} \cup DOMAIN cat.active)

First(slots, ids) == CHOOSE id \in ids : \A x \in ids : slots[id].position <= slots[x].position

\* The order's next slot behind the hand, from the front again after its end.
AfterHand(slots, hand) ==
    LET behind == {id \in DOMAIN slots : slots[id].position > hand}
    IN  First(slots, IF behind = {} THEN DOMAIN slots ELSE behind)

\* One slot of the order: it is the victim, or loses its mark, or is passed over.
SweepStep(cat, exclude, prev) ==
    LET id == AfterHand(prev.slots, prev.hand)
        moved == [prev EXCEPT !.hand = prev.slots[id].position]
    IN  IF prev.victim # None THEN prev
        ELSE IF id \notin Evictable(cat, exclude) THEN moved
        ELSE IF prev.slots[id].visited THEN [moved EXCEPT !.slots[id].visited = FALSE]
        ELSE [moved EXCEPT !.victim = id]

\* SIEVE: at most two rounds, which clear visited marks and move the hand also when they
\* find no victim.
Sweep(cat, exclude) ==
    LET rounds == 2 * Cardinality(DOMAIN cat.slots)
        sweep[n \in 0..rounds] ==
            IF n = 0 THEN [slots |-> cat.slots, hand |-> cat.hand, victim |-> None]
            ELSE SweepStep(cat, exclude, sweep[n - 1])
    IN  sweep[rounds]

\* The victim, or None, and the catalog after looking for it.
Victim(cat, exclude) ==
    IF cat.limits.policy = "fifo"
    THEN [id |-> IF Evictable(cat, exclude) = {} THEN None
                 ELSE First(cat.slots, Evictable(cat, exclude)),
          cat |-> cat]
    ELSE LET end == Sweep(cat, exclude)
         IN  [id |-> end.victim, cat |-> [cat EXCEPT !.slots = end.slots, !.hand = end.hand]]

OverLimits(cat) ==
    cat.bytes > cat.limits.capacity \/ Cardinality(DOMAIN cat.slots) > cat.limits.entries

OldLen(cat, id) == IF id \in DOMAIN cat.slots THEN cat.slots[id].len ELSE 0

\* Disk::write_cost: twice the frame, since a segment's end that is too short stays unused,
\* and a few pages.
write_cost(len) == 2 * len + 1

\* What a write of len bytes adds to the live bytes and entries, and may append.
Claim(cat, id, len) ==
    [extra |-> IF len > OldLen(cat, id) THEN len - OldLen(cat, id) ELSE 0,
     new |-> IF id \in DOMAIN cat.slots THEN 0 ELSE 1, allocation |-> write_cost(len)]

\* Live bytes and entries, with those that writes in flight have claimed.
Fits(cat, claim) ==
    /\ cat.bytes + cat.extra + claim.extra <= cat.limits.capacity
    /\ Cardinality(DOMAIN cat.slots) + cat.new + claim.new <= cat.limits.entries

HasHeadroomAlone(cat, claim, free) == free >= cat.limits.reserve + claim.allocation

\* free: bytes of never allocated segments.
HasHeadroom(cat, claim, free) ==
    free >= cat.limits.reserve + cat.allocation + claim.allocation

reserveSlot(cat, id, claim) ==
    [cat EXCEPT !.active = With(@, id, claim), !.extra = @ + claim.extra,
                !.new = @ + claim.new, !.allocation = @ + claim.allocation]

\* The write ended: its claims return and whoever waits looks again.
finish(cat, id) ==
    [cat EXCEPT !.active = Without(@, id), !.extra = @ - cat.active[id].extra,
                !.new = @ - cat.active[id].new,
                !.allocation = @ - cat.active[id].allocation, !.waiters = {}]

Claimed(cat, field) == MapThenSumSet(LAMBDA id : cat.active[id][field], DOMAIN cat.active)
LiveBytes(cat) == MapThenSumSet(LAMBDA id : cat.slots[id].len, DOMAIN cat.slots)
=============================================================================
