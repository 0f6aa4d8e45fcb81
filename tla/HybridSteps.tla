---------------------------- MODULE HybridSteps -----------------------------
(***************************************************************************)
(* Every step of a job, a lookup or a caller of HybridCache has one of the *)
(* effects that HybridInvariant lists; and the floors of lookups.          *)
(***************************************************************************)
EXTENDS HybridCalls, HybridCache, FiniteSetTheorems

USE Zenon

(***************************************************************************)
(* Facts about naturals, proved by least counterexample                    *)
(***************************************************************************)
\* Every non-empty set of naturals has a least element.
LEMMA LeastNatural ==
    ASSUME NEW T, T \subseteq Nat, T # {}
    PROVE  \E x \in T : \A y \in T : x <= y
<1>1. IsWellFoundedOn(OpToRel(<, Nat), Nat)
  BY NatLessThanWellFounded
<1>2. PICK x \in T : \A y \in T : ~(<<y, x>> \in OpToRel(<, Nat))
  BY <1>1, WFMin
<1>3. \A y \in T : ~(y < x)
  BY <1>2, ZenonT(30) DEF OpToRel
<1> QED
  BY <1>3, SMT

\* A non-empty set of naturals with an upper bound has a greatest element, which Max names.
LEMMA GreatestNatural ==
    ASSUME NEW T, T \subseteq Nat, T # {}, NEW b \in Nat, \A x \in T : x <= b
    PROVE  Max(T) \in T /\ \A y \in T : y <= Max(T)
<1> DEFINE U == {n \in Nat : \A x \in T : x <= n}
<1>1. PICK u \in U : \A n \in U : u <= n
  <2>1. U \subseteq Nat /\ b \in U
    OBVIOUS
  <2> QED
    BY <2>1, LeastNatural
<1>2. u \in T
  <2>1. SUFFICES ASSUME u \notin T PROVE FALSE
    OBVIOUS
  <2>2. PICK t \in T : t <= u /\ t # u
    BY <1>1, <2>1
  <2>3. u - 1 \in Nat /\ \A x \in T : x <= u - 1
    BY <1>1, <2>1, <2>2, SMT
  <2> QED
    BY <1>1, <2>3, SMT
<1>3. \E x \in T : \A y \in T : x >= y
  BY <1>1, <1>2
<1> QED
  BY <1>1, <1>3 DEF Max

\* g lists what m steps of F make of a.
Iteration(g, S, a, F, m) ==
    g \in [0..m -> S] /\ g[0] = a /\ \A n \in 1..m : g[n] = F[g[n - 1]]

\* A step that stays in a set can be repeated any number of times.
LEMMA IterationExists ==
    ASSUME NEW S, NEW a \in S, NEW F \in [S -> S], NEW R \in Nat
    PROVE  \E g : Iteration(g, S, a, F, R)
<1> DEFINE Iterates(m) ==  \E g : Iteration(g, S, a, F, m)
           C == {m \in Nat : ~Iterates(m)}
<1>1. SUFFICES ASSUME C # {} PROVE FALSE
  OBVIOUS
<1>2. PICK m \in C : \A n \in C : m <= n
  BY <1>1, LeastNatural
<1>3. m # 0
  <2>1. Iteration([n \in 0..0 |-> a], S, a, F, 0)
    BY SMT DEF Iteration
  <2> QED
    BY <2>1
<1>4. m - 1 \in Nat /\ Iterates(m - 1)
  <2> HIDE DEF Iterates
  <2> QED
    BY <1>2, <1>3, SMT
<1>5. PICK g \in [0..(m - 1) -> S] : g[0] = a /\ \A n \in 1..(m - 1) : g[n] = F[g[n - 1]]
  BY <1>4 DEF Iteration
<1> DEFINE h == [n \in 0..m |-> IF n = m THEN F[g[m - 1]] ELSE g[n]]
<1>6. h \in [0..m -> S]
  BY <1>3, <1>5, SMT
<1>7. h[0] = a /\ \A n \in 1..m : h[n] = F[h[n - 1]]
  BY <1>3, <1>5, SMT
<1> HIDE DEF h
<1> QED
  BY <1>2, <1>6, <1>7 DEF Iteration

\* Newest is zero or the last mutation of k answered with success.
LEMMA NewestFacts ==
    ASSUME HybridInv, NEW k \in Keys
    PROVE  /\ Newest(k) \in Nat
           /\ Newest(k) # 0 => /\ Newest(k) \in OpsOf(k) /\ Done(Newest(k))
                               /\ ops[Newest(k)].result = "ok"
<1> DEFINE T == {0} \cup {i \in OpsOf(k) : ops[i].phase = "done" /\ ops[i].result = "ok"}
<1>1. DOMAIN ops = 1..Len(ops) /\ Len(ops) \in Nat
  BY OpFacts DEF HybridInv
<1>2. T \subseteq Nat /\ T # {} /\ \A x \in T : x <= Len(ops)
  BY <1>1, SMT DEF OpsOf
<1>3. Max(T) \in T
  <2> HIDE DEF T
  <2> QED
    BY <1>1, <1>2, GreatestNatural
<1>4. Newest(k) = Max(T)
  BY DEF Newest
<1>5. Newest(k) \in T
  BY <1>3, <1>4
<1> QED
  BY <1>2, <1>5 DEF Done

(***************************************************************************)
(* The catalog                                                             *)
(***************************************************************************)
\* State::remove takes the one slot away and no other.
LEMMA RemoveSlot ==
    ASSUME NEW cat \in CatalogState, NEW id
    PROVE  /\ SameBut(cat, removeSlot(cat, id), id)
           /\ id \notin DOMAIN removeSlot(cat, id).slots
           /\ removeSlot(cat, id).active = cat.active
           /\ removeSlot(cat, id).waiters = cat.waiters
<1> DEFINE r == removeSlot(cat, id)
<1>0. cat.slots \in Maps(Ids, Slot) /\ cat.bytes \in Int
  BY DEF CatalogState
<1>1. CASE id \notin DOMAIN cat.slots
  BY <1>1 DEF removeSlot, SameBut
<1>2. CASE id \in DOMAIN cat.slots
  <2>1. r = [cat EXCEPT !.slots = Without(cat.slots, id), !.bytes = cat.bytes - cat.slots[id].len]
    BY <1>2 DEF removeSlot
  <2>2. Without(cat.slots, id) \in Maps(Ids, Slot)
    BY <1>0, MapFacts
  <2>3. cat.bytes - cat.slots[id].len \in Int
    BY <1>0, <1>2, CatalogFacts, SMT DEF Slot
  <2>4. /\ r \in CatalogState /\ r.slots = Without(cat.slots, id) /\ r.active = cat.active
        /\ r.waiters = cat.waiters /\ r.limits = cat.limits
    BY <2>1, <2>2, <2>3 DEF CatalogState
  <2>5. /\ DOMAIN Without(cat.slots, id) = DOMAIN cat.slots \ {id}
        /\ \A x \in DOMAIN cat.slots \ {id} : Without(cat.slots, id)[x] = cat.slots[x]
    BY DEF Without
  <2> QED
    BY <2>4, <2>5 DEF SameBut
<1> QED
  BY <1>1, <1>2

\* State::insert puts one slot in, in place of the old one, and leaves the others.
LEMMA InsertSlot ==
    ASSUME NEW cat \in CatalogState, NEW id \in Ids, NEW lsn \in Nat, NEW len \in Nat
    PROVE  LET new == insertSlot(cat, id, lsn, len)
           IN  /\ SameBut(cat, new, id) /\ new.active = cat.active /\ new.waiters = cat.waiters
               /\ id \in DOMAIN new.slots
               /\ new.slots[id].lsn = lsn /\ new.slots[id].len = len
<1> DEFINE rest == removeSlot(cat, id)
           slot == [lsn |-> lsn, len |-> len, position |-> rest.clock + 1, visited |-> FALSE]
           new == insertSlot(cat, id, lsn, len)
<1>1. /\ rest \in CatalogState /\ rest.active = cat.active /\ rest.waiters = cat.waiters
      /\ rest.limits = cat.limits /\ DOMAIN rest.slots \ {id} = DOMAIN cat.slots \ {id}
      /\ \A x \in DOMAIN cat.slots \ {id} :
           rest.slots[x].lsn = cat.slots[x].lsn /\ rest.slots[x].len = cat.slots[x].len
  BY RemoveSlot, ZenonT(30) DEF SameBut
<1> HIDE DEF rest
<1>2. slot \in Slot /\ slot.lsn = lsn /\ slot.len = len
  BY <1>1, SMT DEF Slot, CatalogState
<1> HIDE DEF slot
<1>3. With(rest.slots, id, slot) \in Maps(Ids, Slot)
  BY <1>1, <1>2, MapFacts DEF CatalogState
<1>4. /\ new = [rest EXCEPT !.clock = @ + 1, !.bytes = @ + len, !.slots = With(@, id, slot)]
      /\ rest.clock + 1 \in Nat /\ rest.bytes + len \in Int
  BY <1>1, SMT DEF insertSlot, rest, slot, CatalogState
<1> HIDE DEF new
<1>5. /\ new \in CatalogState /\ new.slots = With(rest.slots, id, slot)
      /\ new.active = rest.active /\ new.waiters = rest.waiters /\ new.limits = rest.limits
  BY <1>1, <1>3, <1>4 DEF CatalogState
<1>6. /\ DOMAIN With(rest.slots, id, slot) = DOMAIN rest.slots \cup {id}
      /\ With(rest.slots, id, slot)[id] = slot
      /\ \A x \in DOMAIN rest.slots \ {id} : With(rest.slots, id, slot)[x] = rest.slots[x]
  BY DEF With
<1> QED
  BY <1>1, <1>2, <1>5, <1>6 DEF SameBut, new

\* remove_expected takes the slot away if it has the expected version.
LEMMA RemoveExpected ==
    ASSUME NEW cat \in CatalogState, NEW id, NEW lsn
    PROVE  LET new == removeExpected(cat, id, lsn)
           IN  /\ SameBut(cat, new, id) /\ new.active = cat.active /\ new.waiters = cat.waiters
               /\ id \in DOMAIN cat.slots /\ cat.slots[id].lsn = lsn => id \notin DOMAIN new.slots
<1>1. CASE id \in DOMAIN cat.slots /\ cat.slots[id].lsn = lsn
  BY <1>1, RemoveSlot DEF removeExpected
<1>2. CASE ~(id \in DOMAIN cat.slots /\ cat.slots[id].lsn = lsn)
  BY <1>2 DEF removeExpected, SameBut
<1> QED
  BY <1>1, <1>2

\* A reservation marks its slot as active and counts the claim.
LEMMA ReserveSlot ==
    ASSUME NEW cat \in CatalogState, NEW id \in Ids, NEW claim \in Reservation
    PROVE  LET new == reserveSlot(cat, id, claim)
           IN  /\ new \in CatalogState /\ new.limits = cat.limits /\ new.slots = cat.slots
               /\ DOMAIN new.active = DOMAIN cat.active \cup {id} /\ new.waiters = cat.waiters
<1> DEFINE new == reserveSlot(cat, id, claim)
<1>1. With(cat.active, id, claim) \in Maps(Ids, Reservation)
  BY MapFacts DEF CatalogState
<1>2. DOMAIN With(cat.active, id, claim) = DOMAIN cat.active \cup {id}
  BY DEF With
<1>3. /\ cat.extra + claim.extra \in Int /\ cat.new + claim.new \in Int
      /\ cat.allocation + claim.allocation \in Int
  BY SMT DEF CatalogState, Reservation
<1>4. new = [cat EXCEPT !.active = With(@, id, claim), !.extra = @ + claim.extra,
                        !.new = @ + claim.new, !.allocation = @ + claim.allocation]
  BY DEF reserveSlot
<1> HIDE DEF new
<1>5. /\ new \in CatalogState /\ new.limits = cat.limits /\ new.slots = cat.slots
      /\ new.active = With(cat.active, id, claim) /\ new.waiters = cat.waiters
  BY <1>1, <1>3, <1>4 DEF CatalogState
<1> QED
  BY <1>2, <1>5 DEF new

\* What a write claims are naturals.
LEMMA ClaimType ==
    ASSUME NEW cat \in CatalogState, NEW id, NEW len \in Nat
    PROVE  Claim(cat, id, len) \in Reservation
<1>1. OldLen(cat, id) \in Nat
  BY CatalogFacts DEF OldLen, Slot
<1>2. /\ (IF len > OldLen(cat, id) THEN len - OldLen(cat, id) ELSE 0) \in Nat
      /\ (IF id \in DOMAIN cat.slots THEN 0 ELSE 1) \in Nat /\ write_cost(len) \in Nat
  BY <1>1, SMT DEF write_cost
<1> QED
  BY <1>2 DEF Claim, Reservation

\* A write that ends is active no more, and every waiter looks again.
LEMMA FinishWrite ==
    ASSUME NEW cat \in CatalogState, NEW id \in DOMAIN cat.active
    PROVE  LET new == finish(cat, id)
           IN  /\ new \in CatalogState /\ new.limits = cat.limits /\ new.slots = cat.slots
               /\ DOMAIN new.active = DOMAIN cat.active \ {id} /\ new.waiters = {}
<1> DEFINE new == finish(cat, id)
           claim == cat.active[id]
<1>1. Without(cat.active, id) \in Maps(Ids, Reservation) /\ claim \in Reservation
  BY MapFacts, CatalogFacts DEF CatalogState
<1>2. DOMAIN Without(cat.active, id) = DOMAIN cat.active \ {id}
  BY DEF Without
<1> HIDE DEF claim
<1>3. /\ cat.extra - claim.extra \in Int /\ cat.new - claim.new \in Int
      /\ cat.allocation - claim.allocation \in Int
  BY <1>1, SMT DEF CatalogState, Reservation
<1>4. new = [cat EXCEPT !.active = Without(@, id), !.extra = @ - claim.extra,
                        !.new = @ - claim.new, !.allocation = @ - claim.allocation,
                        !.waiters = {}]
  BY DEF finish, claim
<1> HIDE DEF new
<1>5. /\ new \in CatalogState /\ new.limits = cat.limits /\ new.slots = cat.slots
      /\ new.active = Without(cat.active, id) /\ new.waiters = {}
  BY <1>1, <1>3, <1>4 DEF CatalogState
<1> QED
  BY <1>2, <1>5 DEF new

\* A hit marks its slot and changes nothing else.
LEMMA VisitSlot ==
    ASSUME NEW cat \in CatalogState, NEW id \in DOMAIN cat.slots
    PROVE  LET new == Visit(cat, id)
           IN  /\ new \in CatalogState /\ new.limits = cat.limits
               /\ new.active = cat.active /\ new.waiters = cat.waiters
               /\ DOMAIN new.slots = DOMAIN cat.slots
               /\ \A x \in DOMAIN cat.slots :
                    new.slots[x].lsn = cat.slots[x].lsn /\ new.slots[x].len = cat.slots[x].len
<1> DEFINE new == Visit(cat, id)
           slots == [cat.slots EXCEPT ![id] = [@ EXCEPT !.visited = TRUE]]
<1>1. DOMAIN cat.slots \in SUBSET Ids /\ \A x \in DOMAIN cat.slots : cat.slots[x] \in Slot
  BY CatalogFacts
<1>0. cat.slots \in [DOMAIN cat.slots -> Slot]
  BY MapFacts DEF CatalogState
<1>2. slots \in [DOMAIN cat.slots -> Slot]
  BY <1>0, <1>1 DEF Slot
<1>3. slots \in Maps(Ids, Slot) /\ DOMAIN slots = DOMAIN cat.slots
  BY <1>1, <1>2 DEF Maps
<1>4. \A x \in DOMAIN cat.slots :
         slots[x].lsn = cat.slots[x].lsn /\ slots[x].len = cat.slots[x].len
  BY <1>0, <1>1 DEF Slot
<1>5. new = [cat EXCEPT !.slots = slots]
  BY DEF Visit, CatalogState
<1> HIDE DEF new, slots
<1>6. /\ new \in CatalogState /\ new.limits = cat.limits /\ new.slots = slots
      /\ new.active = cat.active /\ new.waiters = cat.waiters
  BY <1>3, <1>5 DEF CatalogState
<1> QED
  BY <1>3, <1>4, <1>6 DEF new

\* A version is that of a slot that no write in flight claims.
LEMMA VersionFacts ==
    ASSUME NEW cat \in CatalogState, NEW id, version(cat, id) # None
    PROVE  /\ id \in DOMAIN cat.slots \ DOMAIN cat.active
           /\ version(cat, id) = cat.slots[id].lsn /\ version(cat, id) \in Nat
  BY CatalogFacts DEF version, Slot

\* The first slot of a set of slots is one of them.
LEMMA FirstFacts ==
    ASSUME NEW slots, NEW T, T # {}, \A x \in T : slots[x].position \in Nat
    PROVE  First(slots, T) \in T
<1> DEFINE P == {slots[x].position : x \in T}
<1>1. P \subseteq Nat /\ P # {}
  OBVIOUS
<1>2. PICK p \in P : \A q \in P : p <= q
  BY <1>1, LeastNatural
<1>3. \E id \in T : \A x \in T : slots[id].position <= slots[x].position
  BY <1>2
<1> QED
  BY <1>3 DEF First

\* Where SIEVE may be: the slots keep their versions, and a victim may be evicted.
Sweeping(cat, exclude) ==
    {s \in [slots : [DOMAIN cat.slots -> Slot], hand : Nat,
            victim : Evictable(cat, exclude) \cup {None}] :
       \A x \in DOMAIN cat.slots :
         s.slots[x].lsn = cat.slots[x].lsn /\ s.slots[x].len = cat.slots[x].len}

\* Each slot SIEVE looks at changes marks and hand only.
LEMMA SweepStepFacts ==
    ASSUME NEW cat \in CatalogState, NEW exclude, DOMAIN cat.slots # {},
           NEW s \in Sweeping(cat, exclude)
    PROVE  SweepStep(cat, exclude, s) \in Sweeping(cat, exclude)
<1> DEFINE D == DOMAIN cat.slots
           E == Evictable(cat, exclude)
           id == AfterHand(s.slots, s.hand)
           moved == [s EXCEPT !.hand = s.slots[id].position]
           marked == [moved EXCEPT !.slots[id].visited = FALSE]
           found == [moved EXCEPT !.victim = id]
           Same(slots) == \A x \in D : slots[x].lsn = cat.slots[x].lsn
                                       /\ slots[x].len = cat.slots[x].len
           All == [slots : [D -> Slot], hand : Nat, victim : E \cup {None}]
<1>1. s \in All /\ Same(s.slots) /\ s.slots \in [D -> Slot]
  BY DEF Sweeping
<1>2. \A r : r \in All /\ Same(r.slots) => r \in Sweeping(cat, exclude)
  BY DEF Sweeping
<1>3. id \in D
  <2> DEFINE behind == {x \in DOMAIN s.slots : s.slots[x].position > s.hand}
             T == IF behind = {} THEN DOMAIN s.slots ELSE behind
  <2>1. T # {} /\ T \subseteq D /\ \A x \in D : s.slots[x].position \in Nat
    BY <1>1 DEF Slot
  <2> HIDE DEF T
  <2>2. First(s.slots, T) \in T
    BY <2>1, FirstFacts
  <2> QED
    BY <2>1, <2>2 DEF AfterHand, T
<1> HIDE DEF id, E
<1>4. moved \in All /\ moved.slots = s.slots
  BY <1>1, <1>3 DEF Slot
<1>5. marked \in All /\ Same(marked.slots)
  <2>1. [s.slots EXCEPT ![id].visited = FALSE] \in [D -> Slot]
    BY <1>1, <1>3 DEF Slot
  <2>2. Same([s.slots EXCEPT ![id].visited = FALSE])
    BY <1>1, <1>3 DEF Slot
  <2>3. marked = [moved EXCEPT !.slots = [s.slots EXCEPT ![id].visited = FALSE]]
    BY <1>4
  <2> QED
    BY <1>4, <2>1, <2>2, <2>3
<1>6. id \in E => found \in All /\ found.slots = s.slots
  BY <1>4
<1>7. SweepStep(cat, exclude, s) \in {s, moved, marked}
      \/ (id \in E /\ SweepStep(cat, exclude, s) = found)
  BY DEF SweepStep, id, E
<1> HIDE DEF moved, marked, found, All, Same
<1> QED
  BY <1>1, <1>2, <1>4, <1>5, <1>6, <1>7

\* A sweep ends with the versions it began with, and with a victim that may be evicted or none.
LEMMA SweepFacts ==
    ASSUME NEW cat \in CatalogState, NEW exclude
    PROVE  Sweep(cat, exclude) \in Sweeping(cat, exclude)
<1> DEFINE D == DOMAIN cat.slots
           S == Sweeping(cat, exclude)
           R == 2 * Cardinality(D)
           start == [slots |-> cat.slots, hand |-> cat.hand, victim |-> None]
           F == [s \in S |-> IF D = {} THEN s ELSE SweepStep(cat, exclude, s)]
           Solves(g) == g = [n \in 0..R |->
                               IF n = 0 THEN start ELSE SweepStep(cat, exclude, g[n - 1])]
           sweep == CHOOSE g : Solves(g)
<1>1. R \in Nat /\ (D = {} => R = 0)
  <2>1. IsFiniteSet(D)
    BY CatalogFacts, FS_Subset, HybridAssumption
  <2>2. Cardinality(D) \in Nat /\ (D = {} => Cardinality(D) = 0)
    BY <2>1, FS_CardinalityType, FS_EmptySet
  <2> QED
    BY <2>2, SMT
<1>2. start \in S
  <2>1. cat.slots \in [D -> Slot] /\ cat.hand \in Nat
    BY MapFacts DEF CatalogState
  <2> QED
    BY <2>1 DEF Sweeping
<1>3. F \in [S -> S]
  BY SweepStepFacts
<1> HIDE DEF S, F, R, start
<1>4. PICK g \in [0..R -> S] : g[0] = start /\ \A n \in 1..R : g[n] = F[g[n - 1]]
  <2>1. R \in Nat
    BY <1>1
  <2>2. \E g : Iteration(g, S, start, F, R)
    BY <1>2, <1>3, <2>1, IterationExists
  <2> QED
    BY <2>2 DEF Iteration
<1>5. \A n \in 1..R : D # {} /\ g[n - 1] \in S /\ g[n] = SweepStep(cat, exclude, g[n - 1])
  <2> TAKE n \in 1..R
  <2> HIDE DEF D
  <2>1. n - 1 \in 0..R /\ D # {}
    BY <1>1, SMT
  <2>2. g[n - 1] \in S /\ g[n] = F[g[n - 1]]
    BY <1>4, <2>1
  <2> QED
    BY <2>1, <2>2 DEF F
<1>6. Solves(g)
  <2>1. \A n \in 0..R : g[n] = IF n = 0 THEN start ELSE SweepStep(cat, exclude, g[n - 1])
    BY <1>1, <1>4, <1>5, SMT
  <2> QED
    BY <1>4, <2>1
<1>7. Solves(sweep)
  <2> HIDE DEF Solves
  <2> QED
    BY <1>6, Zenon
<1>8. Sweep(cat, exclude) = sweep[R]
  BY DEF Sweep, R, start
<1> HIDE DEF sweep
<1>9. ASSUME sweep[R] \notin S PROVE FALSE
  <2> DEFINE C == {n \in 0..R : sweep[n] \notin S}
  <2>1. C # {} /\ C \subseteq Nat
    BY <1>1, <1>9, SMT
  <2>2. PICK n \in C : \A m \in C : n <= m
    BY <2>1, LeastNatural
  <2>3. n # 0
    BY <1>1, <1>2, <1>7, <2>2
  <2>4. n - 1 \in 0..R /\ sweep[n - 1] \in S /\ D # {}
    BY <1>1, <2>2, <2>3, SMT
  <2>5. sweep[n] = SweepStep(cat, exclude, sweep[n - 1])
    BY <1>1, <1>7, <2>2, <2>3
  <2> QED
    BY <2>2, <2>4, <2>5, SweepStepFacts DEF S
<1> QED
  BY <1>8, <1>9 DEF S

\* A victim is a slot that no write claims and that is not excluded; looking for it leaves
\* every slot with its version.
LEMMA VictimFacts ==
    ASSUME NEW cat \in CatalogState, NEW exclude
    PROVE  LET v == Victim(cat, exclude)
           IN  /\ v.id \in Evictable(cat, exclude) \cup {None}
               /\ v.cat \in CatalogState /\ v.cat.limits = cat.limits
               /\ v.cat.active = cat.active /\ v.cat.waiters = cat.waiters
               /\ DOMAIN v.cat.slots = DOMAIN cat.slots
               /\ \A x \in DOMAIN cat.slots :
                    v.cat.slots[x].lsn = cat.slots[x].lsn /\ v.cat.slots[x].len = cat.slots[x].len
<1>1. CASE cat.limits.policy = "fifo"
  <2> DEFINE E == Evictable(cat, exclude)
  <2>1. \A x \in E : cat.slots[x].position \in Nat
    BY CatalogFacts DEF Evictable, Slot
  <2>2. E # {} => First(cat.slots, E) \in E
    BY <2>1, FirstFacts
  <2> QED
    BY <1>1, <2>2 DEF Victim
<1>2. CASE cat.limits.policy # "fifo"
  <2> DEFINE end == Sweep(cat, exclude)
             new == [cat EXCEPT !.slots = end.slots, !.hand = end.hand]
  <2>1. end \in Sweeping(cat, exclude)
    BY SweepFacts
  <2> HIDE DEF end
  <2>2. /\ end.slots \in [DOMAIN cat.slots -> Slot] /\ end.hand \in Nat
        /\ end.victim \in Evictable(cat, exclude) \cup {None}
        /\ \A x \in DOMAIN cat.slots :
             end.slots[x].lsn = cat.slots[x].lsn /\ end.slots[x].len = cat.slots[x].len
    BY <2>1 DEF Sweeping
  <2>3. end.slots \in Maps(Ids, Slot)
    BY <2>2, CatalogFacts DEF Maps
  <2>4. /\ new \in CatalogState /\ new.limits = cat.limits /\ new.active = cat.active
        /\ new.waiters = cat.waiters /\ new.slots = end.slots
    BY <2>2, <2>3 DEF CatalogState
  <2>5. Victim(cat, exclude) = [id |-> end.victim, cat |-> new]
    BY <1>2 DEF Victim, end
  <2> HIDE DEF new
  <2> QED
    BY <2>2, <2>4, <2>5, SMT
<1> QED
  BY <1>1, <1>2

(***************************************************************************)
(* What the steps of a job do                                              *)
(***************************************************************************)
\* Phase moves one operation on.
LEMMA PhaseChanges ==
    ASSUME CallTypes, NEW i \in DOMAIN ops, NEW p \in Phases, Phase(i, p)
    PROVE  /\ Changed(i) /\ ops'[i] = [ops[i] EXCEPT !.phase = p]
           /\ ops'[i].phase = p /\ ops'[i].result = ops[i].result /\ ops'[i].born = ops[i].born
           /\ ops'[i].generation = ops[i].generation /\ ops'[i].lsn = ops[i].lsn
           /\ ops'[i].victim = ops[i].victim
<1> DEFINE x == [ops[i] EXCEPT !.phase = p]
<1>1. ops[i] \in Op
  BY OpFacts
<1>2. /\ x \in Op /\ x.kind = ops[i].kind /\ x.key = ops[i].key /\ x.len = ops[i].len
      /\ x.phase = p /\ x.result = ops[i].result /\ x.born = ops[i].born
      /\ x.generation = ops[i].generation /\ x.lsn = ops[i].lsn /\ x.victim = ops[i].victim
  BY <1>1 DEF Op
<1>3. ops' = [ops EXCEPT ![i] = x]
  BY DEF Phase
<1> HIDE DEF x
<1>4. Changed(i) /\ ops'[i] = x
  BY <1>2, <1>3, OpChanges
<1> QED
  BY <1>2, <1>4 DEF x

\* Outcome ends the work of one job with a result.
LEMMA OutcomeChanges ==
    ASSUME CallTypes, NEW i \in DOMAIN ops, NEW result \in {"ok", "error", "corrupt", "unwound"},
           Outcome(i, result, "release")
    PROVE  /\ Changed(i) /\ ops'[i].phase = "release" /\ ops'[i].result = result
           /\ ops'[i].born = ops[i].born /\ ops'[i].generation = ops[i].generation
           /\ result # None
           /\ failures' = IF Failed(result) /\ failures = None THEN i ELSE failures
<1> DEFINE x == [ops[i] EXCEPT !.phase = "release", !.result = result]
<1>1. ops[i] \in Op
  BY OpFacts
<1>2. /\ x \in Op /\ x.kind = ops[i].kind /\ x.key = ops[i].key /\ x.len = ops[i].len
      /\ x.phase = "release" /\ x.result = result /\ x.born = ops[i].born
      /\ x.generation = ops[i].generation
  BY <1>1, ZenonT(30) DEF Op, Phases, Working
<1>3. ops' = [ops EXCEPT ![i] = x]
  BY DEF Outcome
<1> HIDE DEF x
<1>4. Changed(i) /\ ops'[i] = x
  BY <1>2, <1>3, OpChanges
<1>5. result # None
  BY HybridAssumption
<1> QED
  BY <1>2, <1>4, <1>5 DEF Outcome

\* Catalog::write up to the put it makes.
LEMMA ReserveEffect ==
    ASSUME HybridInv, NEW i \in DOMAIN ops, Reserve(i)
    PROVE  Reserving(i)
<1> DEFINE cap == catalog.limits.capacity
           claim == Claim(catalog, Id(i), ops[i].len)
           v == Victim(catalog, Id(i))
<1>1. /\ CallTypes /\ StoreTypes /\ catalog \in CatalogState /\ ops[i].kind \in Mutations
      /\ ops[i].kind = "insert" /\ ops[i].phase \in {"start", "evicted", "wait"}
      /\ ops[i].result = None
  BY DEF HybridInv, JobInv, JobTypes, Reserve, Mutations, PhaseInv
<1>2. /\ ops[i].key \in Keys /\ Id(i) \in Ids /\ ops[i].len \in Nat /\ ops[i] \in Op
      /\ i \in Nat \ {0} /\ i # None
  BY <1>1, JobFacts
<1>3. UNCHANGED <<idOf, registry, taken, queues, fence, lookups, memory, admission, disk, reply, log>>
  BY DEF Reserve
<1>4. SameSlots(catalog, catalog)
  BY <1>1 DEF SameSlots
<1>5. SameSlots(catalog, v.cat) /\ v.id \in Evictable(catalog, Id(i)) \cup {None}
  BY <1>1, VictimFacts DEF SameSlots
<1>6. cap \in Nat
  BY <1>1 DEF CatalogState
<1>7. CASE ops[i].len > cap
  <2>1. TooLarge(i) /\ ops[i].phase = "start"
    BY <1>1, <1>2, <1>6, <1>7, SMT DEF Reserve, HybridInv, ControlInv
  <2>2. Outcome(i, "error", "release") /\ UNCHANGED <<catalog, chain, control>>
    BY <2>1 DEF TooLarge
  <2>3. Moved(i) /\ ops'[i].phase = "release" /\ ops'[i].result = "error"
    BY <1>1, <1>3, <2>2, OutcomeChanges DEF Moved, Working
  <2> QED
    BY <1>1, <1>3, <2>1, <2>2, <2>3 DEF Reserving
<1>8. CASE ~(ops[i].len > cap)
  <2>1. control \in {None, i} /\ ops[i].len <= cap
    BY <1>1, <1>2, <1>6, <1>8, SMT DEF Reserve, HybridInv, ControlInv
  <2>2. ASSUME NEW cat, SameSlots(catalog, cat), WaitOrFail(i, cat)
        PROVE  Reserving(i)
    <3>1. CASE DOMAIN cat.active # {}
      <4>1. /\ catalog' = [cat EXCEPT !.waiters = @ \cup {i}] /\ Phase(i, "wait") /\ control' = i
            /\ failures' = failures /\ chain' = chain
        BY <2>2, <3>1 DEF WaitOrFail
      <4>2. Moved(i) /\ ops'[i].phase = "wait"
        <5>1. "wait" \in Phases
          BY DEF Phases, Working
        <5> QED
          BY <1>1, <1>3, <4>1, <5>1, PhaseChanges DEF Moved, Working
      <4>3. cat \in CatalogState /\ cat.waiters \cup {i} \in SUBSET Nat
        BY <1>2, <2>2 DEF SameSlots, CatalogState
      <4>4. SameSlots(catalog, catalog')
        BY <2>2, <4>1, <4>3 DEF SameSlots, CatalogState
      <4> QED
        BY <1>1, <1>3, <2>1, <4>1, <4>2, <4>4 DEF Reserving
    <3>2. CASE DOMAIN cat.active = {}
      <4>1. /\ catalog' = cat /\ Outcome(i, "error", "release") /\ control' = None /\ chain' = chain
        BY <2>2, <3>2 DEF WaitOrFail
      <4>2. Moved(i) /\ ops'[i].phase = "release" /\ ops'[i].result = "error"
        BY <1>1, <1>3, <4>1, OutcomeChanges DEF Moved, Working
      <4> QED
        BY <1>1, <1>3, <2>1, <2>2, <4>1, <4>2 DEF Reserving
    <3> QED
      BY <3>1, <3>2
  <2>3. ASSUME Reserved(i) PROVE Reserving(i)
    <3>1. /\ catalog' = reserveSlot(catalog, Id(i), claim) /\ Ask(Id(i), i, "put", 0)
          /\ control' = None /\ Phase(i, "put") /\ failures' = failures
      BY <2>3 DEF Reserved
    <3>2. Moved(i) /\ ops'[i].phase = "put"
      <4>1. "put" \in Phases
        BY DEF Phases, Working
      <4> QED
        BY <1>1, <1>3, <3>1, <4>1, PhaseChanges DEF Moved, Working
    <3>3. claim \in Reservation
      BY <1>1, <1>2, ClaimType
    <3>4. /\ catalog' \in CatalogState /\ catalog'.limits = catalog.limits
          /\ catalog'.slots = catalog.slots
          /\ DOMAIN catalog'.active = DOMAIN catalog.active \cup {Id(i)}
      BY <1>1, <1>2, <3>1, <3>3, ReserveSlot
    <3> QED
      BY <1>1, <1>3, <2>1, <3>1, <3>2, <3>4 DEF Reserving
  <2>4. ASSUME v.id # None, Evict(i, v) PROVE Reserving(i)
    <3> DEFINE x == [ops[i] EXCEPT !.phase = "evict", !.victim = v.id]
    <3>1. /\ catalog' = v.cat /\ Ask(v.id, i, "delete", catalog.slots[v.id].lsn)
          /\ ops' = [ops EXCEPT ![i] = x] /\ control' = i /\ failures' = failures
      BY <2>4 DEF Evict
    <3>2. v.id \in Evictable(catalog, Id(i)) /\ v.id \in Ids
      BY <1>1, <1>5, <2>4, CatalogFacts DEF Evictable
    <3>3. /\ x \in Op /\ x.kind = ops[i].kind /\ x.key = ops[i].key /\ x.len = ops[i].len
          /\ x.phase = "evict" /\ x.victim = v.id /\ x.result = ops[i].result
          /\ x.generation = ops[i].generation /\ x.born = ops[i].born
      BY <1>2, <3>2 DEF Op, Phases, Working
    <3> HIDE DEF x
    <3>4. Changed(i) /\ ops'[i] = x
      BY <1>1, <3>1, <3>3, OpChanges
    <3>5. Moved(i)
      BY <1>1, <1>3, <3>1, <3>3, <3>4 DEF Moved, Working
    <3> HIDE DEF v
    <3> QED
      BY <1>1, <1>3, <1>5, <2>1, <3>1, <3>2, <3>3, <3>4, <3>5 DEF Reserving
  <2>5. \/ WaitOrFail(i, catalog) \/ Reserved(i) \/ (v.id # None /\ Evict(i, v))
        \/ WaitOrFail(i, v.cat)
    BY <1>8 DEF Reserve
  <2> HIDE DEF v
  <2> QED
    BY <1>4, <1>5, <2>2, <2>3, <2>4, <2>5
<1> QED
  BY <1>7, <1>8

\* Catalog::write after an eviction was answered.
LEMMA EvictedEffect ==
    ASSUME HybridInv, NEW i \in DOMAIN ops, Evicted(i)
    PROVE  Evicting(i)
<1>1. /\ ops[i].phase = "evict" /\ reply[i] # None /\ Heard(i)
      /\ UNCHANGED <<idOf, registry, taken, queues, fence, lookups, memory, admission, disk, chain, log>>
  BY DEF Evicted
<1>2. /\ ops[i].kind \in Mutations /\ ops[i].result = None /\ CallTypes
      /\ catalog \in CatalogState /\ ops[i] \in Op /\ reply[i].status \in {"ok", "error"}
  BY <1>1, AwaitFacts
<1>3. ops[i].kind = "insert"
  BY <1>1 DEF HybridInv, JobInv, PhaseInv
<1>4. CASE reply[i].status = "ok"
  <2> DEFINE x == [ops[i] EXCEPT !.phase = "evicted", !.victim = None]
  <2>1. /\ catalog' = removeSlot(catalog, ops[i].victim) /\ ops' = [ops EXCEPT ![i] = x]
        /\ UNCHANGED <<control, failures>>
    BY <1>4 DEF Evicted
  <2>2. /\ x \in Op /\ x.kind = ops[i].kind /\ x.key = ops[i].key /\ x.len = ops[i].len
        /\ x.phase = "evicted" /\ x.result = ops[i].result
        /\ x.generation = ops[i].generation /\ x.born = ops[i].born
    BY <1>2, ZenonT(30) DEF Op, Phases, Working
  <2> HIDE DEF x
  <2>3. Changed(i) /\ ops'[i] = x
    BY <1>2, <2>1, <2>2, OpChanges
  <2>4. Moved(i) /\ ops'[i].phase = "evicted"
    BY <1>1, <1>2, <1>3, <2>1, <2>2, <2>3 DEF Moved, Working
  <2>5. /\ SameBut(catalog, catalog', ops[i].victim) /\ catalog'.active = catalog.active
        /\ ops[i].victim \notin DOMAIN catalog'.slots
    BY <1>2, <2>1, RemoveSlot
  <2> QED
    BY <1>1, <1>4, <2>1, <2>4, <2>5 DEF Evicting
<1>5. CASE reply[i].status # "ok"
  <2>1. catalog' = catalog /\ control' = None /\ Outcome(i, "error", "release")
    BY <1>2, <1>5 DEF Evicted
  <2>2. Moved(i) /\ ops'[i].phase = "release" /\ ops'[i].result = "error"
    BY <1>1, <1>2, <1>3, <2>1, OutcomeChanges DEF Moved, Working
  <2> QED
    BY <1>1, <1>5, <2>1, <2>2 DEF Evicting
<1> QED
  BY <1>4, <1>5

\* Catalog::write after the put was answered: commit, or drop of the reservation.
LEMMA PutDoneEffect ==
    ASSUME HybridInv, NEW i \in DOMAIN ops, PutDone(i)
    PROVE  Putting(i)
<1>1. /\ ops[i].phase = "put" /\ reply[i] # None /\ Heard(i)
      /\ UNCHANGED <<idOf, registry, taken, queues, fence, lookups, memory, admission, control, disk, chain, log>>
  BY DEF PutDone
<1>2. /\ ops[i].kind \in Mutations /\ ops[i].result = None /\ CallTypes
      /\ catalog \in CatalogState /\ ops[i] \in Op /\ reply[i].status \in {"ok", "error"}
      /\ Id(i) \in Ids /\ ops[i].len \in Nat /\ reply[i] \in Reply
  BY <1>1, AwaitFacts
<1>3. ops[i].kind = "insert" /\ Id(i) \in DOMAIN catalog.active
  BY <1>1 DEF HybridInv, JobInv, PhaseInv, ClaimInv
<1>4. CASE reply[i].status = "ok"
  <2> DEFINE lsn == reply[i].chunk.lsn
             mid == insertSlot(catalog, Id(i), lsn, ops[i].len)
  <2>1. catalog' = finish(mid, Id(i)) /\ Phase(i, "publish") /\ failures' = failures
    BY <1>4 DEF PutDone
  <2>2. lsn \in Nat
    BY <1>2 DEF Reply, Chunk
  <2>3. /\ SameBut(catalog, mid, Id(i)) /\ mid.active = catalog.active
        /\ Id(i) \in DOMAIN mid.slots /\ mid.slots[Id(i)].lsn = lsn
        /\ mid.slots[Id(i)].len = ops[i].len
    BY <1>2, <2>2, InsertSlot, SMT
  <2> HIDE DEF mid
  <2>4. mid \in CatalogState /\ Id(i) \in DOMAIN mid.active
    BY <1>3, <2>3 DEF SameBut
  <2>5. /\ catalog' \in CatalogState /\ catalog'.limits = mid.limits /\ catalog'.slots = mid.slots
        /\ DOMAIN catalog'.active = DOMAIN mid.active \ {Id(i)}
    BY <2>1, <2>4, FinishWrite
  <2>6. SameBut(catalog, catalog', Id(i))
    BY <2>3, <2>5 DEF SameBut
  <2>7. "publish" \in Phases
    BY DEF Phases, Working
  <2>8. Moved(i) /\ ops'[i].phase = "publish"
    BY <1>1, <1>2, <1>3, <2>1, <2>7, PhaseChanges DEF Moved, Working
  <2> QED
    BY <1>1, <1>4, <2>3, <2>5, <2>6, <2>8 DEF Putting
<1>5. CASE reply[i].status # "ok"
  <2>1. catalog' = finish(catalog, Id(i)) /\ Outcome(i, "error", "release")
    BY <1>5 DEF PutDone
  <2>2. Moved(i) /\ ops'[i].phase = "release" /\ ops'[i].result = "error"
    BY <1>1, <1>2, <1>3, <2>1, OutcomeChanges DEF Moved, Working
  <2>3. /\ catalog' \in CatalogState /\ catalog'.limits = catalog.limits
        /\ catalog'.slots = catalog.slots
        /\ DOMAIN catalog'.active = DOMAIN catalog.active \ {Id(i)}
    BY <1>2, <1>3, <2>1, FinishWrite
  <2>4. SameBut(catalog, catalog', Id(i))
    BY <2>3 DEF SameBut
  <2> QED
    BY <1>1, <1>5, <2>2, <2>3, <2>4 DEF Putting
<1> QED
  BY <1>4, <1>5

\* cache.rs, publish: under the key's lock, memory takes the value of the newest mutation only.
LEMMA PublishEffect ==
    ASSUME HybridInv, NEW i \in DOMAIN ops, Publish(i)
    PROVE  Publishing(i)
<1>1. /\ ops[i].phase = "publish"
      /\ IF Publishes(i) THEN \E v \in {i, None} : memory' = [memory EXCEPT ![ops[i].key] = v]
         ELSE memory' = memory
      /\ UNCHANGED <<idOf, registry, taken, queues, fence, lookups, admission, control, catalog,
                     disk, chain, reply, log>>
  BY DEF Publish
<1>2. PICK result \in {"ok", "unwound"} : Outcome(i, result, "release")
  BY DEF Publish
<1>3. CallTypes /\ ops[i].kind = "insert" /\ ops[i].kind \in Mutations
  BY <1>1 DEF HybridInv, JobInv, PhaseInv, Mutations
<1>4. Moved(i) /\ ops'[i].phase = "release" /\ ops'[i].result = result
  BY <1>1, <1>2, <1>3, OutcomeChanges DEF Moved, Working
<1> QED
  BY <1>1, <1>4 DEF Publishing

\* The first part of an invalidation.
LEMMA VersionEffect ==
    ASSUME HybridInv, NEW i \in DOMAIN ops, InvalidateVersion(i)
    PROVE  Versioning(i)
<1>1. /\ ops[i].kind = "invalidate" /\ ops[i].phase = "start" /\ control = None
      /\ UNCHANGED <<idOf, memory, registry, admission, taken, queues, fence, catalog, lookups, disk,
                     reply, log>>
  BY DEF InvalidateVersion
<1>2. /\ CallTypes /\ StoreTypes /\ catalog \in CatalogState /\ ops[i].kind \in Mutations
      /\ ops[i].result = None
  BY <1>1 DEF HybridInv, JobInv, JobTypes, Mutations, PhaseInv
<1>3. Id(i) \in Ids /\ ops[i] \in Op
  BY <1>2, JobFacts
<1> DEFINE lsn == version(catalog, Id(i))
<1>4. CASE lsn = None
  <2>1. Outcome(i, "ok", "release") /\ UNCHANGED <<chain, control>>
    BY <1>4 DEF InvalidateVersion
  <2>2. Moved(i) /\ ops'[i].phase = "release" /\ ops'[i].result = "ok"
    BY <1>1, <1>2, <2>1, OutcomeChanges DEF Moved, Working
  <2>3. Id(i) \in DOMAIN catalog.active \/ Id(i) \notin DOMAIN catalog.slots
    <3>1. Id(i) \in DOMAIN catalog.slots => catalog.slots[Id(i)].lsn \in Nat
      BY <1>2, CatalogFacts DEF Slot
    <3> QED
      BY <1>4, <3>1, HybridAssumption DEF version
  <2> QED
    BY <1>1, <2>1, <2>2, <2>3 DEF Versioning
<1>5. CASE lsn # None
  <2> DEFINE x == [ops[i] EXCEPT !.phase = "get", !.lsn = lsn]
  <2>1. /\ ops' = [ops EXCEPT ![i] = x] /\ failures' = failures
        /\ Ask(Id(i), i, "get", 0) /\ control' = i
    BY <1>5 DEF InvalidateVersion
  <2>2. /\ Id(i) \in DOMAIN catalog.slots \ DOMAIN catalog.active
        /\ lsn = catalog.slots[Id(i)].lsn /\ lsn \in Nat
    BY <1>2, <1>5, VersionFacts
  <2> HIDE DEF lsn
  <2>3. /\ x \in Op /\ x.kind = ops[i].kind /\ x.key = ops[i].key /\ x.len = ops[i].len
        /\ x.phase = "get" /\ x.lsn = lsn /\ x.result = ops[i].result
        /\ x.generation = ops[i].generation /\ x.born = ops[i].born
    BY <1>3, <2>2 DEF Op, Phases, Working
  <2> HIDE DEF x
  <2>4. Changed(i) /\ ops'[i] = x
    BY <1>2, <2>1, <2>3, OpChanges
  <2>5. Moved(i)
    BY <1>1, <1>2, <2>1, <2>3, <2>4 DEF Moved, Working
  <2> QED
    BY <1>1, <2>1, <2>2, <2>3, <2>4, <2>5 DEF Versioning
<1> QED
  BY <1>4, <1>5

\* The second part: what the store answers is what the catalog said.
LEMMA GetEffect ==
    ASSUME HybridInv, NEW i \in DOMAIN ops, InvalidateGet(i)
    PROVE  Getting(i)
<1>1. /\ ops[i].phase = "get" /\ reply[i] # None /\ Heard(i)
      /\ UNCHANGED <<idOf, memory, registry, admission, taken, queues, fence, lookups, disk, log>>
  BY DEF InvalidateGet
<1>2. /\ ops[i].kind \in Mutations /\ ops[i].result = None /\ CallTypes
      /\ ops[i] \in Op /\ reply[i].status \in {"ok", "error"} /\ i \in 1..MaxOps
  BY <1>1, AwaitFacts, JobFacts
<1>3. ops[i].kind = "invalidate"
  BY <1>1 DEF HybridInv, JobInv, PhaseInv
<1>4. disk[Id(i)] # NoChunk /\ disk[Id(i)].lsn = ops[i].lsn
  BY <1>1, InvalidationTracks DEF Answered
<1>5. reply[i].status = "ok" => reply[i].chunk = disk[Id(i)]
  BY <1>1, <1>2 DEF HybridInv, ReplyInv
<1>6. ASSUME NEW result \in {"ok", "error"}, Outcome(i, result, "release")
      PROVE  Moved(i) /\ ops'[i].phase = "release" /\ ops'[i].result = result
  BY <1>1, <1>2, <1>3, <1>6, OutcomeChanges DEF Moved, Working
<1>7. CASE reply[i].status # "ok"
  <2>1. catalog' = catalog /\ control' = None /\ Outcome(i, "error", "release") /\ chain' = chain
    BY <1>7 DEF InvalidateGet
  <2> QED
    BY <1>1, <1>6, <1>7, <2>1 DEF Getting
<1>8. CASE reply[i].status = "ok" /\ disk[Id(i)].key # ops[i].key
  <2>1. catalog' = catalog /\ control' = None /\ Outcome(i, "ok", "release") /\ chain' = chain
    BY <1>4, <1>5, <1>8 DEF InvalidateGet, OwnChunk
  <2> QED
    BY <1>1, <1>4, <1>6, <1>8, <2>1 DEF Getting
<1>9. CASE reply[i].status = "ok" /\ disk[Id(i)].key = ops[i].key
  <2>1. /\ Ask(Id(i), i, "delete", ops[i].lsn) /\ Phase(i, "delete")
        /\ UNCHANGED <<catalog, control, failures>>
    BY <1>4, <1>5, <1>9 DEF InvalidateGet, OwnChunk
  <2>2. "delete" \in Phases
    BY DEF Phases, Working
  <2>3. Moved(i) /\ ops'[i].phase = "delete" /\ ops'[i].lsn = ops[i].lsn
    BY <1>1, <1>2, <1>3, <2>1, <2>2, PhaseChanges DEF Moved, Working
  <2> QED
    BY <1>1, <1>9, <2>1, <2>3 DEF Getting
<1> QED
  BY <1>7, <1>8, <1>9

\* The last part of an invalidation.
LEMMA DeleteEffect ==
    ASSUME HybridInv, NEW i \in DOMAIN ops, InvalidateDelete(i)
    PROVE  Deleting(i)
<1>1. /\ ops[i].phase = "delete" /\ reply[i] # None /\ Heard(i) /\ control' = None
      /\ UNCHANGED <<idOf, memory, registry, admission, taken, queues, fence, lookups, disk, chain, log>>
  BY DEF InvalidateDelete
<1>2. /\ ops[i].kind \in Mutations /\ ops[i].result = None /\ CallTypes
      /\ catalog \in CatalogState /\ reply[i].status \in {"ok", "error"}
  BY <1>1, AwaitFacts
<1>3. ops[i].kind = "invalidate"
  BY <1>1 DEF HybridInv, JobInv, PhaseInv
<1>4. CASE reply[i].status = "ok"
  <2>1. catalog' = removeExpected(catalog, Id(i), ops[i].lsn) /\ Outcome(i, "ok", "release")
    BY <1>4 DEF InvalidateDelete
  <2>2. Moved(i) /\ ops'[i].phase = "release" /\ ops'[i].result = "ok"
    BY <1>1, <1>2, <1>3, <2>1, OutcomeChanges DEF Moved, Working
  <2>3. Id(i) \in DOMAIN catalog.slots /\ catalog.slots[Id(i)].lsn = ops[i].lsn
    BY <1>1 DEF HybridInv, ClaimInv
  <2>4. /\ SameBut(catalog, catalog', Id(i)) /\ catalog'.active = catalog.active
        /\ Id(i) \notin DOMAIN catalog'.slots
    BY <1>2, <2>1, <2>3, RemoveExpected
  <2> QED
    BY <1>1, <1>4, <2>2, <2>4 DEF Deleting
<1>5. CASE reply[i].status = "error"
  <2>1. catalog' = catalog /\ Outcome(i, "error", "release")
    BY <1>5 DEF InvalidateDelete
  <2>2. Moved(i) /\ ops'[i].phase = "release" /\ ops'[i].result = "error"
    BY <1>1, <1>2, <1>3, <2>1, OutcomeChanges DEF Moved, Working
  <2> QED
    BY <1>1, <1>5, <2>1, <2>2 DEF Deleting
<1> QED
  BY <1>2, <1>4, <1>5

\* Scheduler's intake.
LEMMA IntakeEffect ==
    ASSUME HybridInv, Intake
    PROVE  \E i \in DOMAIN ops : Taking(i)
<1>1. CallTypes /\ JobInv /\ taken \in Nat
  BY DEF HybridInv, JobTypes
<1>2. Len(ops) \in Nat /\ DOMAIN ops = 1..Len(ops)
  BY <1>1, OpFacts
<1>3. PICK i \in DOMAIN ops : i = taken + 1
  BY <1>1, <1>2, SMT DEF Intake
<1>4. /\ taken' = i /\ fence = None /\ UNCHANGED <<idOf, failures>>
  BY <1>3 DEF Intake
<1>5. ops[i].phase = "queued"
  BY <1>1, <1>3, SMT DEF JobInv, IntakeInv
<1>6. /\ "fence" \in Phases /\ "pending" \in Phases /\ "start" \in Phases
  BY DEF Phases, Working, Waiting
<1>7. CASE ops[i].kind \notin Mutations
  <2>1. Phase(i, "fence") /\ fence' = i /\ queues' = queues
    BY <1>3, <1>7 DEF Intake, Place, Phase
  <2> QED
    BY <1>1, <1>3, <1>4, <1>5, <1>6, <1>7, <2>1, PhaseChanges DEF Taking
<1>8. CASE ops[i].kind \in Mutations /\ \E j \in RunningJobs : Id(j) = Id(i)
  <2>1. /\ Phase(i, "pending") /\ fence' = fence
        /\ queues' = [queues EXCEPT ![Id(i)] = Append(@, i)]
    BY <1>3, <1>8 DEF Intake, Place, Phase
  <2> QED
    BY <1>1, <1>3, <1>4, <1>5, <1>6, <1>8, <2>1, PhaseChanges DEF Taking
<1>9. CASE ops[i].kind \in Mutations /\ ~\E j \in RunningJobs : Id(j) = Id(i)
  <2>1. Phase(i, "start") /\ fence' = fence /\ queues' = queues
    BY <1>3, <1>9 DEF Intake, Place, Phase
  <2> QED
    BY <1>1, <1>3, <1>4, <1>5, <1>6, <1>9, <2>1, PhaseChanges DEF Taking
<1> QED
  BY <1>7, <1>8, <1>9

\* The end of a job in the scheduler.
LEMMA FinishEffect ==
    ASSUME HybridInv, NEW i \in DOMAIN ops, Finish(i)
    PROVE  Finishing(i)
<1> DEFINE queue == queues[Id(i)]
           x == [ops[i] EXCEPT !.phase = "done", !.generation = 0, !.lsn = 0, !.born = None]
           done == [ops EXCEPT ![i] = x]
<1>1. /\ ops[i].phase = "finish" /\ UNCHANGED <<idOf, taken, fence, failures>>
      /\ ops' = IF queue = <<>> THEN done ELSE [done EXCEPT ![Head(queue)].phase = "start"]
      /\ queues' = [queues EXCEPT ![Id(i)] = IF queue = <<>> THEN queue ELSE Tail(queue)]
  BY DEF Finish
<1>2. CallTypes /\ JobInv /\ queues \in [Ids -> Seq(Nat)] /\ ops[i].kind \in Mutations
  BY <1>1 DEF HybridInv, JobTypes, JobInv, PhaseInv
<1>3. ops[i] \in Op /\ Id(i) \in Ids
  BY <1>2, JobFacts
<1>4. /\ x \in Op /\ x.kind = ops[i].kind /\ x.key = ops[i].key /\ x.len = ops[i].len
      /\ x.result = ops[i].result /\ x.phase = "done" /\ x.born = None
  BY <1>3 DEF Op, Phases, Waiting
<1>5. ops \in Seq(Op) /\ DOMAIN ops = 1..Len(ops) /\ Len(ops) \in Nat
  BY <1>2, OpFacts DEF CallTypes
<1> HIDE DEF x
<1>6. /\ done \in Seq(Op) /\ Len(done) = Len(ops) /\ DOMAIN done = DOMAIN ops /\ done[i] = x
      /\ \A j \in DOMAIN ops : j # i => done[j] = ops[j]
  BY <1>4, <1>5, SMT
<1> HIDE DEF done
<1>7. CASE queue = <<>>
  <2>1. ops' = done /\ queues' = queues
    BY <1>1, <1>2, <1>7
  <2> QED
    BY <1>1, <1>2, <1>4, <1>6, <1>7, <2>1 DEF Finishing
<1>8. CASE queue # <<>>
  <2> DEFINE h == queue[1]
             y == [ops[h] EXCEPT !.phase = "start"]
  <2>1. queue \in Seq(Nat) /\ Head(queue) = h /\ 1 \in DOMAIN queue
    BY <1>2, <1>3, <1>8, SMT
  <2>2. h \in DOMAIN ops /\ ops[h].phase = "pending" /\ Id(h) = Id(i)
    BY <1>2, <1>3, <2>1 DEF JobInv, QueueInv
  <2>3. h # i
    BY <1>1, <2>2
  <2>4. ops[h] \in Op
    BY <1>2, <2>2, OpFacts
  <2>5. y \in Op
    BY <2>4 DEF Op, Phases, Working
  <2>6. ops' = [done EXCEPT ![h] = [done[h] EXCEPT !.phase = "start"]]
    BY <1>1, <1>8, <2>1
  <2> HIDE DEF h
  <2>7. ops' = [done EXCEPT ![h] = y]
    BY <1>6, <2>2, <2>3, <2>6
  <2> HIDE DEF y
  <2>8. /\ ops' \in Seq(Op) /\ Len(ops') = Len(ops) /\ DOMAIN ops' = DOMAIN ops /\ ops'[h] = y
        /\ \A j \in DOMAIN ops : j # h => ops'[j] = done[j]
    BY <1>5, <1>6, <2>2, <2>5, <2>7, SMT
  <2>9. queues' = [queues EXCEPT ![Id(i)] = Tail(queue)]
    BY <1>1, <1>8
  <2> QED
    BY <1>1, <1>2, <1>4, <1>6, <1>8, <2>2, <2>3, <2>8, <2>9 DEF Finishing, h, y
<1> QED
  BY <1>7, <1>8

\* The release of a job's mutation.
LEMMA ReleaseEffect ==
    ASSUME HybridInv, NEW i \in DOMAIN ops, Release(i)
    PROVE  Releasing(i)
<1>1. CallTypes /\ JobInv /\ "finish" \in Phases /\ ops[i].phase = "release"
  BY DEF HybridInv, Phases, Working, Release
<1>2. ops[i].kind \in Mutations /\ ops[i].result # None
  BY <1>1 DEF JobInv, PhaseInv
<1>3. Phase(i, "finish")
  BY DEF Release
<1>4. /\ Changed(i) /\ ops'[i].phase = "finish" /\ ops'[i].result = ops[i].result
      /\ ops'[i].born = ops[i].born /\ ops'[i].generation = ops[i].generation
  BY <1>1, <1>3, PhaseChanges
<1> QED
  BY <1>1, <1>2, <1>4 DEF Releasing, Release, jobVars, storeVars

\* A fence begins, or ends.
LEMMA FenceEffect ==
    ASSUME HybridInv, NEW i \in DOMAIN ops, FenceStart(i) \/ FenceEnd(i)
    PROVE  Fences(i)
<1>1. /\ ops[i].phase \in {"fence", "flush"} /\ UNCHANGED <<idOf, taken, queues>>
      /\ JobInv /\ CallTypes /\ ops[i] \in Op /\ i \in Nat
  BY OpFacts DEF FenceStart, FenceEnd, HybridInv, jobVars
<1>2. ops[i].kind \notin Mutations /\ fence = i
  BY <1>1 DEF JobInv, PhaseInv, IntakeInv, Waiting, Working
<1>3. i = taken
  BY <1>1, <1>2, HybridAssumption DEF JobInv, IntakeInv
<1>4. CASE FenceStart(i)
  <2>1. /\ Phase(i, "flush") /\ ops[i].phase = "fence" /\ fence' = fence /\ failures' = failures
        /\ RunningJobs = {}
    BY <1>4 DEF FenceStart, FenceReady, jobVars
  <2>2. "flush" \in Phases
    BY DEF Phases
  <2> QED
    BY <1>1, <1>2, <1>3, <2>1, <2>2, PhaseChanges DEF Fences
<1>5. CASE FenceEnd(i)
  <2>1. PICK status \in {"ok", "error"} :
           ops' = [ops EXCEPT ![i].phase = "done",
                              ![i].result = IF failures # None THEN "error" ELSE status]
    BY <1>5 DEF FenceEnd
  <2> DEFINE result == IF failures # None THEN "error" ELSE status
             x == [ops[i] EXCEPT !.phase = "done", !.result = result]
  <2>2. result \in {"ok", "error"} /\ (failures # None => result = "error")
    OBVIOUS
  <2>3. ops' = [ops EXCEPT ![i] = x]
    BY <2>1
  <2> HIDE DEF result
  <2>4. /\ x \in Op /\ x.kind = ops[i].kind /\ x.key = ops[i].key /\ x.len = ops[i].len
        /\ x.result = result /\ x.phase = "done" /\ x.born = ops[i].born
    BY <1>1, <2>2 DEF Op, Phases, Waiting
  <2> HIDE DEF x
  <2>5. Changed(i) /\ ops'[i] = x
    BY <1>1, <2>3, <2>4, OpChanges
  <2>6. fence' = None /\ failures' = None /\ ops[i].phase = "flush"
    BY <1>5 DEF FenceEnd
  <2> QED
    BY <1>1, <1>2, <1>3, <2>2, <2>4, <2>5, <2>6 DEF Fences
<1> QED
  BY <1>4, <1>5

(***************************************************************************)
(* What the steps of a lookup do                                           *)
(***************************************************************************)
\* A value that nothing can replace is fresh for every lookup.
LEMMA ServesFresh ==
    ASSUME HybridInv, NEW k \in Keys, NEW floor \in Nat,
           floor = 0 \/ (floor \in OpsOf(k) /\ ops[floor].result = "ok"),
           NEW v, v \in Nat, Serves(k, v)
    PROVE  Fresh(k, floor, v)
<1>1. v >= floor
  <2>1. SUFFICES ASSUME v < floor PROVE FALSE
    BY SMT
  <2>2. floor \in OpsOf(k) /\ ops[floor].result = "ok"
    BY <2>1, SMT
  <2>3. Failed(ops[floor].result)
    BY <2>1, <2>2 DEF Serves
  <2> QED
    BY <2>2, <2>3 DEF Failed
<1>2. v # 0 => ops[v].key = k /\ ops[v].result \in {"ok", "unwound", None}
  BY DEF Serves, OpsOf
<1> QED
  BY <1>1, <1>2 DEF Fresh

\* What is on the disk or was read of it can be served once no mutation of its key is unsettled.
LEMMA CurrentServes ==
    ASSUME HybridInv, NEW id, NEW c \in Chunk, Current(id, c), Unsettled(c.key) = {}
    PROVE  c.value \in Nat /\ Serves(c.key, c.value)
<1>1. /\ c.key \in Keys /\ NothingNewer(c.key, c.value)
      /\ c.value = 0 \/ (c.value \in OpsOf(c.key) /\ Stored(c.value))
  BY DEF Current
<1>2. \A j \in OpsOf(c.key) : ops[j].phase \in {"finish", "done"} /\ ops[j].result # None /\ j \in Nat
  <2> SUFFICES ASSUME NEW j \in OpsOf(c.key)
               PROVE  ops[j].phase \in {"finish", "done"} /\ ops[j].result # None /\ j \in Nat
    OBVIOUS
  <2>1. ops[j].phase \in {"finish", "done"} /\ j \in DOMAIN ops
    BY DEF Unsettled, OpsOf
  <2>2. ops[j].result # None
    BY <2>1 DEF HybridInv, JobInv, PhaseInv
  <2>3. j \in Nat
    BY <2>1, OpFacts DEF HybridInv
  <2> QED
    BY <2>1, <2>2, <2>3
<1>3. c.value = 0 \/ (c.value \in OpsOf(c.key) /\ ops[c.value].result \in {"ok", "unwound"})
  BY <1>1, <1>2 DEF Stored
<1>4. \A j \in OpsOf(c.key) : j > c.value => Failed(ops[j].result)
  BY <1>1, <1>2 DEF NothingNewer, Failed
<1>5. c.value \in Nat
  BY <1>1, <1>2, SMT
<1> QED
  BY <1>3, <1>4, <1>5 DEF Serves

\* A chunk whose slot has the version a lookup read is still current.
LEMMA ReadIsCurrent ==
    ASSUME HybridInv, NEW l \in Lookups, lookups[l].pc = "read", reply[l] # None,
           reply[l].status # "error", reply[l].chunk.key = lookups[l].key,
           ValidHit(catalog, idOf[lookups[l].key], reply[l].chunk.lsn)
    PROVE  Current(idOf[lookups[l].key], reply[l].chunk) /\ reply[l].chunk \in Chunk
<1> DEFINE k == lookups[l].key
           id == idOf[k]
           c == reply[l].chunk
<1>1. k \in Keys /\ id \in Ids /\ k # None /\ l \in {Opener} \cup Lookups \cup 1..MaxOps
  BY LookupFacts
<1>2. reply[l] \in Reply /\ c \in Chunk
  BY <1>1 DEF HybridInv, StoreTypes, Reply
<1>3. reply[l].status = "ok"
  BY <1>2 DEF HybridInv, ReplyInv, Reply
<1>4. c # NoChunk
  BY <1>1, SMT DEF NoChunk
<1>5. /\ c.lsn = disk[id].lsn => c = disk[id]
      /\ disk[id] = NoChunk /\ id \in DOMAIN catalog.slots
            /\ catalog.slots[id].lsn = c.lsn => Current(id, c)
  BY <1>3, <1>4 DEF HybridInv, ReadInv
<1>6. id \in DOMAIN catalog.slots /\ id \notin DOMAIN catalog.active /\ catalog.slots[id].lsn = c.lsn
  <2>1. c.lsn # None
    BY <1>2, HybridAssumption DEF Chunk
  <2> QED
    BY <2>1 DEF ValidHit, version
<1>7. CASE disk[id].lsn = c.lsn
  BY <1>1, <1>2, <1>4, <1>5, <1>7 DEF HybridInv, DiskInv
<1>8. CASE disk[id] = NoChunk
  BY <1>2, <1>5, <1>6, <1>8
<1>9. CASE disk[id].lsn # c.lsn /\ disk[id] # NoChunk
  <2>1. ~Tracks(id)
    BY <1>6, <1>9 DEF Tracks
  <2>2. ASSUME NEW i \in DOMAIN ops, Answered(i, id) PROVE FALSE
    <3>1. i \in 1..MaxOps /\ reply[i] # None /\ reply[i].status = "ok"
      BY <2>2, OpFacts DEF Answered, HybridInv
    <3>2. CASE ops[i].phase = "put"
      BY <1>6, <2>2, <3>2 DEF HybridInv, ClaimInv, Answered
    <3>3. CASE ops[i].phase \in {"delete", "evict"}
      BY <1>9, <2>2, <3>1, <3>3, ZenonT(30) DEF HybridInv, ReplyInv, Answered
    <3> QED
      BY <2>2, <3>2, <3>3 DEF Answered
  <2>3. ASSUME reply[Opener] # None, reply[Opener].status = "ok", reply[Opener].id = id PROVE FALSE
    BY <1>9, <2>3 DEF HybridInv, ReplyInv
  <2> QED
    BY <1>1, <2>1, <2>2, <2>3 DEF HybridInv, TrackInv
<1> QED
  BY <1>7, <1>8, <1>9

\* A lookup that is not under way, fresh or not, has its type.
LEMMA NotLookingFacts ==
    ASSUME NEW fresh \in BOOLEAN
    PROVE  LET x == [NotLooking EXCEPT !.fresh = fresh]
           IN  x \in Lookup /\ x.pc = "returned" /\ x.fresh = fresh
  BY DEF NotLooking, Lookup

\* Fresh is a truth value.
LEMMA FreshType ==
    ASSUME NEW k, NEW floor, NEW value
    PROVE  Fresh(k, floor, value) \in BOOLEAN
  BY DEF Fresh

\* A lookup returns nothing, or a value that nothing can replace: its answer is fresh.
LEMMA ReturnEffect ==
    ASSUME HybridInv, NEW l \in Lookups, lookups[l].pc \notin {"returned", "token"}, NEW v,
           v = None \/ (v \in Nat /\ Serves(lookups[l].key, v)), Return(l, v)
    PROVE  \E x \in Lookup : /\ x.fresh /\ x.pc = "returned" /\ Leaves(l, x)
                             /\ lookups' = [lookups EXCEPT ![l] = x]
<1> DEFINE k == lookups[l].key
           fresh == Fresh(k, lookups[l].floor, v)
           x == [NotLooking EXCEPT !.fresh = fresh]
<1>1. k \in Keys /\ lookups[l] \in Lookup
  BY LookupFacts
<1>2. fresh
  <2>1. CASE v = None
    BY <2>1 DEF Fresh
  <2>2. CASE v \in Nat /\ Serves(k, v)
    <3>1. /\ lookups[l].floor \in Nat
          /\ lookups[l].floor = 0 \/ (lookups[l].floor \in OpsOf(k) /\ ops[lookups[l].floor].result = "ok")
      BY <1>1 DEF HybridInv, FloorInv, Lookup
    <3> QED
      BY <1>1, <2>2, <3>1, ServesFresh
  <2> QED
    BY <2>1, <2>2
<1>3. fresh \in BOOLEAN
  BY FreshType
<1>4. lookups' = [lookups EXCEPT ![l] = x] /\ registry' = [registry EXCEPT ![k] = dropLease(registry[k])]
  BY DEF Return
<1> HIDE DEF fresh
<1>5. x \in Lookup /\ x.pc = "returned" /\ x.fresh
  BY <1>2, <1>3, NotLookingFacts
<1> HIDE DEF x
<1>6. Leaves(l, x)
  BY <1>4, <1>5 DEF Leaves, Drops
<1> QED
  BY <1>4, <1>5, <1>6

\* At moves a lookup on.
LEMMA AtEffect ==
    ASSUME HybridInv, NEW l \in Lookups, NEW pc \in {"check", "wait", "probe", "get", "read", "miss"},
           At(l, pc)
    PROVE  LET x == [lookups[l] EXCEPT !.pc = pc]
           IN  /\ x \in Lookup /\ x.fresh /\ lookups' = [lookups EXCEPT ![l] = x] /\ x.pc = pc
               /\ x.key = lookups[l].key /\ x.floor = lookups[l].floor
               /\ x.generation = lookups[l].generation
<1>1. lookups[l] \in Lookup /\ lookups[l].fresh
  BY LookupFacts DEF HybridInv, FloorInv
<1>2. lookups' = [lookups EXCEPT ![l] = [lookups[l] EXCEPT !.pc = pc]]
  BY DEF At
<1> QED
  BY <1>1, <1>2 DEF Lookup

\* cache.rs, the start of a lookup: a hit in memory, or a lease.
LEMMA BeginEffect ==
    ASSUME HybridInv, NEW l \in Lookups, NEW k \in Keys, LookupBegin(l, k)
    PROVE  \E x : Looks(l, x)
<1>1. /\ lookups[l].pc = "returned" /\ UNCHANGED <<idOf, memory, admission, ops, catalog>>
      /\ UNCHANGED <<taken, queues, fence, failures, control, disk, chain, reply, log>>
  BY DEF LookupBegin, jobVars, storeVars
<1>2. /\ Newest(k) \in Nat
      /\ Newest(k) # 0 => Newest(k) \in OpsOf(k) /\ ops[Newest(k)].result = "ok"
  BY NewestFacts
<1>3. CASE memory[k] # None \/ Leases = MaxLeases
  <2> DEFINE fresh == Fresh(k, Newest(k), memory[k])
             x == [NotLooking EXCEPT !.fresh = fresh]
  <2>1. fresh
    <3>1. CASE memory[k] = None
      BY <3>1 DEF Fresh
    <3>2. CASE memory[k] # None
      <4>1. memory[k] \in Nat /\ Serves(k, memory[k])
        BY <3>2 DEF HybridInv, CallTypes, MemoryInv
      <4> QED
        BY <1>2, <4>1, ServesFresh
    <3> QED
      BY <3>1, <3>2
  <2>2. fresh \in BOOLEAN
    BY FreshType
  <2>3. lookups' = [lookups EXCEPT ![l] = x] /\ registry' = registry
    BY <1>3 DEF LookupBegin
  <2> HIDE DEF fresh
  <2>4. x \in Lookup /\ x.pc = "returned" /\ x.fresh
    BY <2>1, <2>2, NotLookingFacts
  <2> HIDE DEF x
  <2>5. Answers(l, x)
    BY <1>1, <2>3, <2>4 DEF Answers
  <2> QED
    BY <1>1, <2>3, <2>4, <2>5 DEF Looks
<1>4. CASE ~(memory[k] # None \/ Leases = MaxLeases)
  <2> DEFINE x == [NotLooking EXCEPT !.key = k, !.floor = Newest(k), !.pc = "check"]
  <2>1. lookups' = [lookups EXCEPT ![l] = x] /\ registry' = [registry EXCEPT ![k] = acquire(@)]
    BY <1>4 DEF LookupBegin
  <2>2. x \in Lookup /\ x.pc = "check" /\ x.fresh /\ x.key = k /\ x.floor = Newest(k)
    BY <1>2 DEF NotLooking, Lookup
  <2> HIDE DEF x
  <2>3. Begins(l, x)
    BY <1>1, <2>1, <2>2 DEF Begins
  <2> QED
    BY <1>1, <2>1, <2>2, <2>3 DEF Looks
<1> QED
  BY <1>3, <1>4

\* A lookup waits while a mutation is unsettled, or notes the generation.
LEMMA CheckEffect ==
    ASSUME HybridInv, NEW l \in Lookups, LookupCheck(l)
    PROVE  \E x : Looks(l, x)
<1> DEFINE k == lookups[l].key
           e == registry[k]
<1>1. /\ lookups[l].pc \in {"check", "wait"} /\ UNCHANGED <<idOf, memory, admission, ops, catalog>>
      /\ UNCHANGED <<taken, queues, fence, failures, control, disk, chain, reply, log>>
  BY DEF LookupCheck, jobVars, storeVars
<1>2. k \in Keys /\ e \in KeyState /\ lookups[l] \in Lookup /\ lookups[l].fresh
  BY <1>1, LookupFacts DEF HybridInv, FloorInv
<1>3. CASE e.pending # 0
  <2> DEFINE x == [lookups[l] EXCEPT !.pc = "wait"]
             w == e.waiters \cup {l}
  <2>1. At(l, "wait") /\ registry' = [registry EXCEPT ![k] = [e EXCEPT !.waiters = w]]
    BY <1>3 DEF LookupCheck
  <2>2. /\ x \in Lookup /\ x.fresh /\ lookups' = [lookups EXCEPT ![l] = x] /\ x.pc = "wait"
        /\ x.key = lookups[l].key /\ x.floor = lookups[l].floor
    BY <2>1, AtEffect
  <2>3. w \in SUBSET Lookups
    BY <1>2 DEF KeyState
  <2> HIDE DEF x, w
  <2>4. Walks(l, x)
    BY <1>1, <2>1, <2>2, <2>3 DEF Walks, Noted
  <2> QED
    BY <1>1, <2>2, <2>4 DEF Looks
<1>4. CASE e.pending = 0
  <2> DEFINE x == [lookups[l] EXCEPT !.pc = "probe", !.generation = e.generation]
  <2>1. lookups' = [lookups EXCEPT ![l] = x] /\ registry' = registry
    BY <1>4 DEF LookupCheck
  <2>2. e.generation \in Nat
    BY <1>2 DEF KeyState
  <2>3. /\ x \in Lookup /\ x.fresh /\ x.pc = "probe" /\ x.generation = e.generation
        /\ x.key = lookups[l].key /\ x.floor = lookups[l].floor
    BY <1>2, <2>2 DEF Lookup
  <2> HIDE DEF x
  <2>4. Walks(l, x)
    BY <1>1, <1>4, <2>1, <2>3 DEF Walks
  <2> QED
    BY <1>1, <2>1, <2>3, <2>4 DEF Looks
<1> QED
  BY <1>3, <1>4

\* A probe of memory and of the catalog.
LEMMA ProbeEffect ==
    ASSUME HybridInv, NEW l \in Lookups, LookupProbe(l)
    PROVE  \E x : Looks(l, x)
<1> DEFINE k == lookups[l].key
<1>1. /\ lookups[l].pc = "probe" /\ UNCHANGED <<idOf, memory, admission, ops, catalog>>
      /\ UNCHANGED <<taken, queues, fence, failures, control, disk, chain, reply, log>>
  BY DEF LookupProbe, jobVars, storeVars
<1>2. k \in Keys
  BY <1>1, LookupFacts
<1>3. ASSUME NEW v, v = None \/ (v \in Nat /\ Serves(k, v)), Return(l, v)
      PROVE  \E x : Looks(l, x)
  <2>1. PICK x \in Lookup : /\ x.fresh /\ x.pc = "returned" /\ Leaves(l, x)
                            /\ lookups' = [lookups EXCEPT ![l] = x]
    BY <1>1, <1>3, ReturnEffect
  <2> QED
    BY <1>1, <2>1 DEF Looks
<1>4. memory[k] # None => memory[k] \in Nat /\ Serves(k, memory[k])
  BY <1>2 DEF HybridInv, CallTypes, MemoryInv
<1>5. ASSUME NEW pc \in {"miss", "get"}, At(l, pc), registry' = registry
      PROVE  \E x : Looks(l, x)
  <2> DEFINE x == [lookups[l] EXCEPT !.pc = pc]
  <2>1. /\ x \in Lookup /\ x.fresh /\ lookups' = [lookups EXCEPT ![l] = x] /\ x.pc = pc
        /\ x.key = lookups[l].key /\ x.floor = lookups[l].floor
        /\ x.generation = lookups[l].generation
    <3>1. pc \in {"check", "wait", "probe", "get", "read", "miss"}
      BY <1>5
    <3> QED
      BY <1>5, <3>1, AtEffect
  <2> HIDE DEF x
  <2>2. Walks(l, x)
    BY <1>1, <1>5, <2>1 DEF Walks, Noted
  <2> QED
    BY <1>1, <1>5, <2>1, <2>2 DEF Looks
<1>6. \/ Return(l, None)
      \/ memory[k] # None /\ Return(l, memory[k])
      \/ \E pc \in {"miss", "get"} : At(l, pc) /\ registry' = registry
  BY DEF LookupProbe
<1> QED
  BY <1>3, <1>4, <1>5, <1>6

\* The request for the chunk.
LEMMA LookupGetEffect ==
    ASSUME HybridInv, NEW l \in Lookups, LookupGet(l)
    PROVE  \E x : Looks(l, x)
<1>1. /\ lookups[l].pc = "get" /\ UNCHANGED <<idOf, memory, admission, ops, catalog>>
      /\ UNCHANGED <<taken, queues, fence, failures, control, disk, reply, log>>
  BY DEF LookupGet, jobVars
<1>2. CASE StoreClosed
  <2>1. Return(l, None) /\ chain' = chain
    BY <1>2 DEF LookupGet
  <2>2. PICK x \in Lookup : /\ x.fresh /\ x.pc = "returned" /\ Leaves(l, x)
                            /\ lookups' = [lookups EXCEPT ![l] = x]
    BY <1>1, <2>1, ReturnEffect
  <2> QED
    BY <1>1, <2>1, <2>2 DEF Looks
<1>3. CASE ~StoreClosed
  <2> DEFINE x == [lookups[l] EXCEPT !.pc = "read"]
  <2>1. At(l, "read") /\ Ask(idOf[lookups[l].key], l, "get", 0) /\ registry' = registry
    BY <1>3 DEF LookupGet
  <2>2. /\ x \in Lookup /\ x.fresh /\ lookups' = [lookups EXCEPT ![l] = x] /\ x.pc = "read"
        /\ x.key = lookups[l].key /\ x.floor = lookups[l].floor
        /\ x.generation = lookups[l].generation
    BY <2>1, AtEffect
  <2> HIDE DEF x
  <2>3. Walks(l, x)
    BY <1>1, <2>1, <2>2 DEF Walks, Noted
  <2> QED
    BY <1>1, <2>1, <2>2, <2>3 DEF Looks
<1> QED
  BY <1>2, <1>3

\* What was read is returned and may be promoted while its slot has the version read.
LEMMA ReadEffect ==
    ASSUME HybridInv, NEW l \in Lookups, LookupRead(l)
    PROVE  \E x : Looks(l, x)
<1> DEFINE k == lookups[l].key
           c == reply[l].chunk
<1>1. /\ lookups[l].pc = "read" /\ reply[l] # None /\ Heard(l)
      /\ UNCHANGED <<idOf, admission, ops, taken, queues, fence, failures, control>>
      /\ UNCHANGED <<disk, chain, log>>
  BY DEF LookupRead, jobVars
<1>2. k \in Keys /\ idOf[k] \in Ids /\ registry[k] # None
  BY <1>1, LookupFacts
<1>3. SameSlots(catalog, catalog) /\ catalog \in CatalogState
  BY DEF SameSlots, HybridInv, JobTypes
<1>4. ASSUME Return(l, None), memory' = memory, catalog' = catalog
      PROVE  \E x : Looks(l, x)
  <2>1. PICK x \in Lookup : /\ x.fresh /\ x.pc = "returned" /\ Leaves(l, x)
                            /\ lookups' = [lookups EXCEPT ![l] = x]
    BY <1>1, <1>4, ReturnEffect
  <2> QED
    BY <1>1, <1>3, <1>4, <2>1 DEF Looks
<1>5. ASSUME NEW pc \in {"miss", "check"}, At(l, pc), UNCHANGED <<registry, memory, catalog>>
      PROVE  \E x : Looks(l, x)
  <2> DEFINE x == [lookups[l] EXCEPT !.pc = pc]
  <2>1. /\ x \in Lookup /\ x.fresh /\ lookups' = [lookups EXCEPT ![l] = x] /\ x.pc = pc
        /\ x.key = lookups[l].key /\ x.floor = lookups[l].floor
        /\ x.generation = lookups[l].generation
    <3>1. pc \in {"check", "wait", "probe", "get", "read", "miss"}
      BY <1>5
    <3> QED
      BY <1>5, <3>1, AtEffect
  <2> HIDE DEF x
  <2>2. Walks(l, x)
    BY <1>1, <1>5, <2>1 DEF Walks, Noted
  <2> QED
    BY <1>1, <1>3, <1>5, <2>1, <2>2 DEF Looks
<1>6. ASSUME reply[l].status # "error", c.key = k, Promotes(l, c.lsn), Return(l, c.value),
             catalog' = Visit(catalog, idOf[k]),
             memory' \in {memory, [memory EXCEPT ![k] = c.value], [memory EXCEPT ![k] = None]}
      PROVE  \E x : Looks(l, x)
  <2>1. ValidHit(catalog, idOf[k], c.lsn) /\ registry[k].pending = 0
    BY <1>6 DEF Promotes
  <2>2. Current(idOf[k], c) /\ c \in Chunk
    BY <1>1, <1>6, <2>1, ReadIsCurrent
  <2>3. Unsettled(k) = {}
    BY <1>2, <2>1, HolderFacts
  <2>4. c.value \in Nat /\ Serves(k, c.value)
    BY <1>6, <2>2, <2>3, CurrentServes
  <2>5. PICK x \in Lookup : /\ x.fresh /\ x.pc = "returned" /\ Leaves(l, x)
                            /\ lookups' = [lookups EXCEPT ![l] = x]
    BY <1>1, <1>6, <2>4, ReturnEffect
  <2>6. SameSlots(catalog, catalog')
    <3>1. idOf[k] \in DOMAIN catalog.slots
      <4>1. c.lsn # None
        BY <2>2, HybridAssumption DEF Chunk
      <4> QED
        BY <2>1, <4>1 DEF ValidHit, version
    <3> QED
      BY <1>3, <1>6, <3>1, VisitSlot DEF SameSlots
  <2>7. \/ memory' = memory
        \/ \E v \in Nat \cup {None} : /\ memory' = [memory EXCEPT ![k] = v]
                                      /\ v # None => Serves(k, v)
    BY <1>6, <2>4
  <2> QED
    BY <1>1, <2>5, <2>6, <2>7 DEF Looks
<1>7. \/ Return(l, None) /\ UNCHANGED <<memory, catalog>>
      \/ \E pc \in {"miss", "check"} : At(l, pc) /\ UNCHANGED <<registry, memory, catalog>>
      \/ /\ reply[l].status # "error" /\ c.key = k /\ Promotes(l, c.lsn) /\ Return(l, c.value)
         /\ catalog' = Visit(catalog, idOf[k])
         /\ memory' \in {memory, [memory EXCEPT ![k] = c.value], [memory EXCEPT ![k] = None]}
  BY DEF LookupRead
<1> QED
  BY <1>4, <1>5, <1>6, <1>7

\* A miss becomes a fill token, or the lookup starts over.
LEMMA MissEffect ==
    ASSUME HybridInv, NEW l \in Lookups, LookupMiss(l)
    PROVE  \E x : Looks(l, x)
<1> DEFINE k == lookups[l].key
           e == registry[k]
<1>1. /\ lookups[l].pc = "miss" /\ UNCHANGED <<idOf, memory, registry, admission, ops, catalog>>
      /\ UNCHANGED <<taken, queues, fence, failures, control, disk, chain, reply, log>>
  BY DEF LookupMiss, callVars, jobVars, storeVars
<1>2. /\ k \in Keys /\ e \in KeyState /\ lookups[l] \in Lookup /\ lookups[l].fresh
      /\ Len(ops) \in Nat
  BY <1>1, LookupFacts, OpFacts DEF HybridInv, FloorInv
<1>3. CASE e.generation = lookups[l].generation /\ e.pending = 0
  <2> DEFINE x == [lookups[l] EXCEPT !.pc = "token", !.floor = Len(ops)]
  <2>1. lookups' = [lookups EXCEPT ![l] = x]
    BY <1>3 DEF LookupMiss
  <2>2. /\ x \in Lookup /\ x.fresh /\ x.pc = "token" /\ x.generation = lookups[l].generation
        /\ x.key = lookups[l].key /\ x.floor = Len(ops)
    BY <1>2 DEF Lookup
  <2> HIDE DEF x
  <2>3. Walks(l, x)
    BY <1>1, <1>3, <2>1, <2>2 DEF Walks
  <2> QED
    BY <1>1, <2>1, <2>2, <2>3 DEF Looks
<1>4. CASE ~(e.generation = lookups[l].generation /\ e.pending = 0)
  <2> DEFINE x == [lookups[l] EXCEPT !.pc = "check"]
  <2>1. At(l, "check")
    BY <1>4 DEF LookupMiss
  <2>2. /\ x \in Lookup /\ x.fresh /\ lookups' = [lookups EXCEPT ![l] = x] /\ x.pc = "check"
        /\ x.key = lookups[l].key /\ x.floor = lookups[l].floor
    BY <2>1, AtEffect
  <2> HIDE DEF x
  <2>3. Walks(l, x)
    BY <1>1, <2>2 DEF Walks, Noted
  <2> QED
    BY <1>1, <2>2, <2>3 DEF Looks
<1> QED
  BY <1>3, <1>4

\* A lookup or a fill token is dropped.
LEMMA DropEffect ==
    ASSUME HybridInv, NEW l \in Lookups, LookupDrop(l)
    PROVE  \E x : Looks(l, x)
<1> DEFINE k == lookups[l].key
           e == registry[k]
           d == IF e.leases = 1 THEN None ELSE [dropLease(e) EXCEPT !.waiters = e.waiters \ {l}]
<1>1. /\ lookups[l].pc # "returned" /\ UNCHANGED <<idOf, memory, admission, ops, catalog>>
      /\ UNCHANGED <<taken, queues, fence, failures, control, disk, log>> /\ Heard(l)
      /\ chain' = [id \in Ids |-> [n \in DOMAIN chain[id] |->
                      IF chain[id][n].who = l THEN [chain[id][n] EXCEPT !.who = None]
                      ELSE chain[id][n]]]
      /\ lookups' = [lookups EXCEPT ![l] = NotLooking]
      /\ registry' = [registry EXCEPT ![k] = d]
  <2>1. registry' = [registry EXCEPT ![k] = d]
    BY DEF LookupDrop
  <2>2. lookups' = [lookups EXCEPT ![l] = NotLooking] /\ lookups[l].pc # "returned"
    BY DEF LookupDrop
  <2> QED
    BY <2>1, <2>2 DEF LookupDrop, jobVars
<1>2. NotLooking \in Lookup /\ NotLooking.fresh /\ NotLooking.pc = "returned"
  BY DEF NotLooking, Lookup
<1>3. k \in Keys /\ l \in Holders(k) /\ e \in KeyState
  BY <1>1, LookupFacts
<1>4. dropLease(e) \in KeyState \cup {None} /\ (e.leases = 1 <=> dropLease(e) = None)
  <2> HIDE DEF k, e
  <2>1. Unsettled(k) \subseteq Holders(k) /\ KeyInv(e, Holders(k), Unsettled(k))
    BY <1>3, HolderFacts DEF e
  <2>2. Dropped(e, Holders(k), Unsettled(k), l)
    BY <1>3, <2>1, DropKey
  <2> QED
    BY <2>2 DEF Dropped
<1>5. Drops(e, d)
  <2>1. CASE e.leases = 1
    BY <1>4, <2>1 DEF Drops
  <2>2. CASE e.leases # 1
    <3>1. dropLease(e) \in KeyState /\ dropLease(e) # None
      BY <1>4, <2>2
    <3>2. e.waiters \ {l} \in SUBSET Lookups
      BY <1>3 DEF KeyState
    <3>3. d = [dropLease(e) EXCEPT !.waiters = e.waiters \ {l}]
      BY <2>2
    <3> QED
      BY <3>1, <3>2, <3>3 DEF Drops
  <2> QED
    BY <2>1, <2>2
<1> HIDE DEF d
<1>6. Leaves(l, NotLooking)
  BY <1>1, <1>2, <1>5 DEF Leaves
<1> QED
  BY <1>1, <1>2, <1>6 DEF Looks

(***************************************************************************)
(* What an admission does                                                  *)
(***************************************************************************)
\* An admitted operation is the last, and has what it was admitted with.
LEMMA AdmitFacts ==
    ASSUME HybridInv, NEW kind \in Mutations \cup {"flush", "close"}, NEW key \in Keys \cup {None},
           kind \in Mutations => key \in Keys, NEW len \in Nat, NEW generation \in Nat,
           NEW born \in Nat \cup {None}, Admit(kind, key, len, generation, born),
           UNCHANGED <<idOf, jobVars>>
    PROVE  \E n \in Nat :
             /\ Added /\ n = Len(ops) + 1 /\ admission = "open"
             /\ ops'[n].kind = kind /\ ops'[n].key = key /\ ops'[n].generation = generation
             /\ ops'[n].born = born
<1> DEFINE x == [kind |-> kind, key |-> key, len |-> len, generation |-> generation,
                 born |-> born, phase |-> "queued", lsn |-> 0, victim |-> None, result |-> None]
<1>1. /\ CallTypes /\ Len(ops) \in Nat /\ DOMAIN ops = 1..Len(ops) /\ ops \in Seq(Op)
      /\ MaxOps \in Nat
  BY OpFacts DEF HybridInv, CallTypes
<1>2. ops' = Append(ops, x) /\ Len(ops) < MaxOps /\ admission = "open"
  BY DEF Admit
<1>3. /\ x \in Op /\ x.kind = kind /\ x.key = key /\ x.generation = generation /\ x.born = born
      /\ x.phase = "queued" /\ x.result = None
  BY DEF Op, Phases, Waiting
<1> HIDE DEF x
<1>4. PICK n \in Nat : n = Len(ops) + 1
  BY <1>1, SMT
<1>5. /\ ops' \in Seq(Op) /\ Len(ops') = n /\ DOMAIN ops' = DOMAIN ops \cup {n}
      /\ n \notin DOMAIN ops /\ n <= MaxOps
      /\ \A j \in DOMAIN ops : ops'[j] = ops[j] /\ j < n
      /\ ops'[n] = x
  BY <1>1, <1>2, <1>3, <1>4, SMT
<1>6. Added
  BY <1>3, <1>4, <1>5 DEF Added
<1> QED
  BY <1>2, <1>3, <1>4, <1>5, <1>6

\* Cache's insert and invalidate.
LEMMA MutateEffect ==
    ASSUME HybridInv, NEW kind \in Mutations, NEW k \in Keys, NEW len \in Nat, Mutate(kind, k, len)
    PROVE  \E n \in Nat : Mutating(n, k)
<1> DEFINE a == acquire(registry[k])
           e == advance(a)
<1>1. /\ Admit(kind, k, len, e.generation, None) /\ registry' = [registry EXCEPT ![k] = e]
      /\ memory' = [memory EXCEPT ![k] = None]
      /\ UNCHANGED <<idOf, jobVars>> /\ UNCHANGED <<admission, catalog, lookups, disk, chain, reply, log>>
  BY DEF Mutate, storeVars
<1>2. e.generation \in Nat
  <2>1. registry[k] \in KeyState \cup {None}
    BY HolderFacts
  <2>2. a \in KeyState
    <3>1. CASE registry[k] = None
      BY <3>1 DEF acquire, KeyState
    <3>2. CASE registry[k] # None
      <4>1. registry[k] \in KeyState /\ a = [registry[k] EXCEPT !.leases = @ + 1]
        BY <2>1, <3>2 DEF acquire
      <4> QED
        BY <4>1, SMT DEF KeyState
    <3> QED
      BY <3>1, <3>2
  <2> HIDE DEF a
  <2> QED
    BY <2>2, SMT DEF advance, KeyState
<1> HIDE DEF e
<1>3. kind \in Mutations \cup {"flush", "close"} /\ k \in Keys \cup {None} /\ None \in Nat \cup {None}
  OBVIOUS
<1>4. PICK n \in Nat :
             /\ Added /\ n = Len(ops) + 1 /\ admission = "open"
             /\ ops'[n].kind = kind /\ ops'[n].key = k /\ ops'[n].generation = e.generation
             /\ ops'[n].born = None
  BY <1>1, <1>2, <1>3, AdmitFacts, ZenonT(30)
<1> QED
  BY <1>1, <1>4 DEF Mutating, Admitting, e, a

\* FillToken::populate: a fill is admitted, or the token is dropped.
LEMMA PopulateEffect ==
    ASSUME HybridInv, NEW l \in Lookups, NEW len \in Nat, Populate(l, len)
    PROVE  (\E n \in Nat : Filling(n, l)) \/ (\E x : Looks(l, x))
<1> DEFINE k == lookups[l].key
<1>1. /\ lookups[l].pc = "token" /\ lookups' = [lookups EXCEPT ![l] = NotLooking]
      /\ UNCHANGED <<idOf, jobVars>> /\ UNCHANGED <<admission, catalog, disk, chain, reply, log>>
  BY DEF Populate, storeVars
<1>2. k \in Keys /\ registry[k] \in KeyState /\ lookups[l] \in Lookup
  BY <1>1, LookupFacts
<1>3. CASE admission = "open" /\ ValidToken(l) /\ PermitFor(len)
  <2> DEFINE e == advance(registry[k])
  <2>1. /\ Admit("insert", k, len, e.generation, lookups[l].floor)
        /\ registry' = [registry EXCEPT ![k] = e] /\ memory' = [memory EXCEPT ![k] = None]
    BY <1>3 DEF Populate
  <2>2. e.generation \in Nat
    BY <1>2, SMT DEF advance, KeyState
  <2> HIDE DEF e
  <2>3. "insert" \in Mutations /\ k \in Keys \cup {None} /\ lookups[l].floor \in Nat \cup {None}
    BY <1>2 DEF Mutations, Lookup
  <2>4. PICK n \in Nat :
             /\ Added /\ n = Len(ops) + 1 /\ admission = "open"
             /\ ops'[n].kind = "insert" /\ ops'[n].key = k /\ ops'[n].generation = e.generation
             /\ ops'[n].born = lookups[l].floor
    <3>1. "insert" \in Mutations \cup {"flush", "close"} /\ ("insert" \in Mutations => k \in Keys)
      BY <1>2, <2>3
    <3>2. PICK floor \in Nat \cup {None}, generation \in Nat :
             floor = lookups[l].floor /\ generation = e.generation
      BY <2>2, <2>3
    <3>3. Admit("insert", k, len, generation, floor)
      BY <2>1, <3>2
    <3> HIDE DEF k
    <3>4. PICK n \in Nat :
             /\ Added /\ n = Len(ops) + 1 /\ admission = "open"
             /\ ops'[n].kind = "insert" /\ ops'[n].key = k /\ ops'[n].generation = generation
             /\ ops'[n].born = floor
      BY <1>1, <2>3, <3>1, <3>3, AdmitFacts, SMT
    <3> QED
      BY <3>2, <3>4
  <2> QED
    BY <1>1, <1>2, <1>3, <2>1, <2>3, <2>4 DEF Filling, Admitting, e
<1>4. CASE ~(admission = "open" /\ ValidToken(l) /\ PermitFor(len))
  <2>1. registry' = [registry EXCEPT ![k] = dropLease(registry[k])] /\ UNCHANGED <<ops, memory>>
    BY <1>4 DEF Populate
  <2>2. NotLooking \in Lookup /\ NotLooking.fresh /\ NotLooking.pc = "returned"
    BY DEF NotLooking, Lookup
  <2>3. Leaves(l, NotLooking)
    BY <1>1, <2>1, <2>2 DEF Leaves, Drops
  <2> QED
    BY <1>1, <2>1, <2>2, <2>3 DEF Looks, jobVars
<1> QED
  BY <1>3, <1>4

\* Cache's flush and close.
LEMMA FenceAdmitEffect ==
    ASSUME HybridInv, NEW kind \in {"flush", "close"}, Fence(kind)
    PROVE  \E n \in Nat : Fencing(n)
<1>1. /\ Admit(kind, None, 0, 0, None) /\ UNCHANGED <<idOf, jobVars>>
      /\ admission' = IF kind = "close" THEN "closed" ELSE admission
      /\ UNCHANGED <<memory, registry, lookups, catalog, disk, chain, reply, log>>
  BY DEF Fence, storeVars
<1>2. kind \notin Mutations
  BY DEF Mutations
<1>3. PICK n \in Nat :
             /\ Added /\ n = Len(ops) + 1 /\ admission = "open"
             /\ ops'[n].kind = kind /\ ops'[n].key = None /\ ops'[n].generation = 0
             /\ ops'[n].born = None
  BY <1>1, <1>2, AdmitFacts, ZenonT(30)
<1> QED
  BY <1>1, <1>2, <1>3 DEF Fencing

(***************************************************************************)
(* Floors                                                                  *)
(***************************************************************************)
\* A lookup remembers the newest success before it began, and that stays one.
LEMMA FloorKept ==
    ASSUME HybridInv, Stepping, Kept
    PROVE  lookups' \in [Lookups -> Lookup] /\ FloorInv'
<1>1. lookups \in [Lookups -> Lookup] /\ FloorInv /\ None # "ok"
  BY HybridAssumption DEF HybridInv, CallTypes
<1>2. lookups' \in [Lookups -> Lookup] /\ \A l \in Lookups : lookups'[l].fresh
  BY <1>1, LookupsMove DEF FloorInv
<1>3. ASSUME NEW k, NEW f, f \in OpsOf(k), Done(f), ops[f].result = "ok"
      PROVE  f \in OpsOf(k)' /\ Done(f)' /\ ops'[f].result = "ok"
  <2>1. f \in DOMAIN ops
    BY <1>3 DEF OpsOf
  <2> QED
    BY <1>1, <1>3, <2>1, OpsOfKept DEF Kept, KeepsOp
<1>4. ASSUME NEW l \in Lookups, lookups'[l].pc \notin {"returned", "token"}, lookups'[l].floor # 0
      PROVE  LET f == lookups'[l].floor
             IN  f \in OpsOf(lookups'[l].key) /\ Done(f) /\ ops[f].result = "ok"
  <2>1. CASE lookups'[l] = lookups[l]
    BY <1>1, <1>4, <2>1 DEF FloorInv
  <2>2. CASE lookups'[l] # lookups[l]
    <3>1. PICK x \in Lookup : lookups'[l] = x /\ Looks(l, x)
      BY <1>1, <1>4, <2>2, LookupsMove
    <3>2. Begins(l, x) \/ Walks(l, x)
      BY <1>4, <3>1 DEF Looks, Answers, Leaves
    <3>3. CASE Begins(l, x)
      BY <1>4, <3>1, <3>3, NewestFacts DEF Begins
    <3>4. CASE Walks(l, x)
      BY <1>1, <1>4, <3>1, <3>4 DEF Walks, FloorInv
    <3> QED
      BY <3>2, <3>3, <3>4
  <2> QED
    BY <2>1, <2>2
<1>5. ASSUME NEW l \in Lookups, lookups'[l].pc \notin {"returned", "token"}, lookups'[l].floor # 0
      PROVE  (lookups[l].floor \in OpsOf(lookups[l].key) /\ Done(lookups[l].floor)
               /\ ops[lookups[l].floor].result = "ok")'
  <2>1. PICK f : f = lookups'[l].floor
    OBVIOUS
  <2>2. PICK k : k = lookups'[l].key
    OBVIOUS
  <2>3. f \in OpsOf(k)' /\ Done(f)' /\ ops'[f].result = "ok"
    BY <1>3, <1>4, <1>5, <2>1, <2>2
  <2> QED
    BY <2>1, <2>2, <2>3 DEF OpsOf, Done
<1> QED
  BY <1>2, <1>5 DEF FloorInv
=============================================================================
