---------------------------- MODULE HybridCalls -----------------------------
(***************************************************************************)
(* Facts about the state that every other proof uses, and the parts of     *)
(* HybridInv about calls, kept by every step: the coordinator's order,     *)
(* what memory and fills hold, and the registry's account of leases and    *)
(* generations.                                                            *)
(***************************************************************************)
EXTENDS HybridInvariant, TLAPS

USE Zenon

(***************************************************************************)
(* Numbers of members                                                      *)
(***************************************************************************)
\* An empty set has no members, and a set without members is empty.
LEMMA CountedEmpty ==
    ASSUME NEW S, NEW n \in Nat, Counted(S, n)
    PROVE  n = 0 <=> S = {}
<1>1. PICK f \in [1..n -> S] : \A x \in S : \E i \in 1..n : f[i] = x
  BY DEF Counted
<1>2. n = 0 => 1..n = {}
  BY SMT
<1>3. n # 0 => 1 \in 1..n
  BY SMT
<1> QED
  BY <1>1, <1>2, <1>3

\* The empty set has no members.
LEMMA CountedNone == Counted({}, 0)
<1>1. 1..0 = {}
  BY SMT
<1>2. [i \in {} |-> None] \in [{} -> {}]
  OBVIOUS
<1> QED
  BY <1>1, <1>2 DEF Counted

\* One member more.
LEMMA CountedAdd ==
    ASSUME NEW S, NEW n \in Nat, Counted(S, n), NEW x, x \notin S
    PROVE  Counted(S \cup {x}, n + 1)
<1>1. PICK f \in [1..n -> S] : /\ \A y \in S : \E i \in 1..n : f[i] = y
                               /\ \A i, j \in 1..n : f[i] = f[j] => i = j
  BY DEF Counted
<1>2. 1..(n + 1) = 1..n \cup {n + 1} /\ n + 1 \notin 1..n
  BY SMT
<1> DEFINE g == [i \in 1..(n + 1) |-> IF i = n + 1 THEN x ELSE f[i]]
<1>3. g[n + 1] = x /\ \A i \in 1..n : g[i] = f[i] /\ f[i] \in S
  BY <1>1, <1>2
<1>4. g \in [1..(n + 1) -> S \cup {x}]
  BY <1>1, <1>2
<1> HIDE DEF g
<1>5. \A y \in S \cup {x} : \E i \in 1..(n + 1) : g[i] = y
  BY <1>1, <1>2, <1>3
<1>6. \A i, j \in 1..(n + 1) : g[i] = g[j] => i = j
  BY <1>1, <1>2, <1>3
<1> QED
  BY <1>4, <1>5, <1>6 DEF Counted

\* One member less: the last takes its number.
LEMMA CountedDrop ==
    ASSUME NEW S, NEW n \in Nat, Counted(S, n), NEW x \in S
    PROVE  n - 1 \in Nat /\ Counted(S \ {x}, n - 1)
<1>1. PICK f \in [1..n -> S] : /\ \A y \in S : \E i \in 1..n : f[i] = y
                               /\ \A i, j \in 1..n : f[i] = f[j] => i = j
  BY DEF Counted
<1>2. PICK k \in 1..n : f[k] = x
  BY <1>1
<1>3. /\ n - 1 \in Nat /\ n \in 1..n /\ n \notin 1..(n - 1)
      /\ 1..n = 1..(n - 1) \cup {n}
  BY <1>2, SMT
<1> DEFINE g == [i \in 1..(n - 1) |-> IF i = k THEN f[n] ELSE f[i]]
<1>4. \A i \in 1..(n - 1) : g[i] = IF i = k THEN f[n] ELSE f[i]
  OBVIOUS
<1>5. \A i \in 1..(n - 1) : g[i] \in S \ {x}
  BY <1>1, <1>2, <1>3, <1>4
<1>6. g \in [1..(n - 1) -> S \ {x}]
  BY <1>5
<1> HIDE DEF g
<1>7. ASSUME NEW y \in S \ {x} PROVE \E i \in 1..(n - 1) : g[i] = y
  <2>1. PICK i \in 1..n : f[i] = y
    BY <1>1
  <2>2. i # k
    BY <1>2, <2>1
  <2>3. CASE i = n
    BY <1>2, <1>3, <1>4, <2>1, <2>2, <2>3
  <2>4. CASE i # n
    BY <1>3, <1>4, <2>1, <2>2, <2>4
  <2> QED
    BY <2>3, <2>4
<1>8. ASSUME NEW i \in 1..(n - 1), NEW j \in 1..(n - 1), g[i] = g[j] PROVE i = j
  <2>1. i \in 1..n /\ j \in 1..n /\ i # n /\ j # n
    BY <1>3
  <2> QED
    BY <1>1, <1>3, <1>4, <1>8, <2>1
<1> QED
  BY <1>3, <1>6, <1>7, <1>8 DEF Counted

(***************************************************************************)
(* Facts about the state                                                   *)
(***************************************************************************)
\* A function on a part of D, extended or restricted, is one again.
LEMMA MapFacts ==
    ASSUME NEW D, NEW R, NEW f \in Maps(D, R)
    PROVE  /\ DOMAIN f \in SUBSET D /\ f \in [DOMAIN f -> R]
           /\ \A id : Without(f, id) \in Maps(D, R)
           /\ \A id \in D, v \in R : With(f, id, v) \in Maps(D, R)
<1>1. PICK S \in SUBSET D : f \in [S -> R]
  BY DEF Maps
<1>2. \A T \in SUBSET D : \A g \in [T -> R] : g \in Maps(D, R)
  BY DEF Maps
<1>3. \A id : S \ {id} \in SUBSET D /\ Without(f, id) \in [S \ {id} -> R]
  BY <1>1 DEF Without
<1>4. \A id \in D, v \in R : S \cup {id} \in SUBSET D /\ With(f, id, v) \in [S \cup {id} -> R]
  BY <1>1 DEF With
<1>5. DOMAIN f \in SUBSET D /\ f \in [DOMAIN f -> R]
  BY <1>1
<1> QED
  BY <1>2, <1>3, <1>4, <1>5

\* The parts of a catalog have their types.
LEMMA CatalogFacts ==
    ASSUME NEW cat \in CatalogState
    PROVE  /\ DOMAIN cat.slots \in SUBSET Ids /\ DOMAIN cat.active \in SUBSET Ids
           /\ \A id \in DOMAIN cat.slots : cat.slots[id] \in Slot
           /\ \A id \in DOMAIN cat.active : cat.active[id] \in Reservation
<1>1. cat.slots \in Maps(Ids, Slot) /\ cat.active \in Maps(Ids, Reservation)
  BY DEF CatalogState
<1>2. /\ DOMAIN cat.slots \in SUBSET Ids /\ cat.slots \in [DOMAIN cat.slots -> Slot]
      /\ DOMAIN cat.active \in SUBSET Ids /\ cat.active \in [DOMAIN cat.active -> Reservation]
  BY <1>1, MapFacts
<1> QED
  BY <1>2

\* Operations are numbered from one, and each is an operation.
LEMMA OpFacts ==
    ASSUME CallTypes
    PROVE  /\ Len(ops) \in Nat /\ DOMAIN ops = 1..Len(ops) /\ Len(ops) <= MaxOps /\ MaxOps \in Nat
           /\ \A i \in DOMAIN ops : ops[i] \in Op /\ i \in Nat /\ i # 0 /\ i \in 1..MaxOps
<1>1. ops \in Seq(Op) /\ Len(ops) <= MaxOps /\ MaxOps \in Nat
  BY HybridAssumption DEF CallTypes
<1>2. Len(ops) \in Nat /\ DOMAIN ops = 1..Len(ops) /\ \A i \in DOMAIN ops : ops[i] \in Op
  BY <1>1, SMT
<1> QED
  BY <1>1, <1>2, SMT

\* A new record for one operation.
LEMMA OpChanges ==
    ASSUME CallTypes, NEW i \in DOMAIN ops, NEW x \in Op, ops' = [ops EXCEPT ![i] = x],
           x.kind = ops[i].kind, x.key = ops[i].key, x.len = ops[i].len
    PROVE  Changed(i) /\ ops'[i] = x
<1>1. ops \in Seq(Op) /\ i \in 1..Len(ops) /\ Len(ops) \in Nat /\ DOMAIN ops = 1..Len(ops)
  BY OpFacts DEF CallTypes
<1>2. ops' \in Seq(Op) /\ Len(ops') = Len(ops) /\ DOMAIN ops' = DOMAIN ops
  BY <1>1, SMT
<1>3. ops'[i] = x /\ \A j \in DOMAIN ops : j # i => ops'[j] = ops[j]
  BY <1>1
<1> QED
  BY <1>2, <1>3 DEF Changed

\* A request goes behind those made of its chunk before.
LEMMA AskFacts ==
    ASSUME StoreTypes, NEW id, NEW who \in Nat \cup Lookups \cup {None},
           NEW kind \in {"get", "put", "delete"}, NEW lsn \in Nat, Ask(id, who, kind, lsn)
    PROVE  /\ chain' \in [Ids -> Seq(Request)]
           /\ \A x \in Ids : x # id => chain'[x] = chain[x]
           /\ id \in Ids => chain'[id] = Append(chain[id], [who |-> who, kind |-> kind, lsn |-> lsn])
<1> DEFINE r == [who |-> who, kind |-> kind, lsn |-> lsn]
<1>1. r \in Request
  BY DEF Request
<1>2. chain \in [Ids -> Seq(Request)] /\ chain' = [chain EXCEPT ![id] = Append(chain[id], r)]
  BY DEF Ask, StoreTypes
<1>3. id \in Ids => Append(chain[id], r) \in Seq(Request)
  BY <1>1, <1>2, SMT
<1> HIDE DEF r
<1> QED
  BY <1>2, <1>3 DEF r

\* An answer that was taken is there no more.
LEMMA HeardFacts ==
    ASSUME StoreTypes, NEW who \in {Opener} \cup Lookups \cup 1..MaxOps, Heard(who)
    PROVE  /\ reply' \in [{Opener} \cup Lookups \cup 1..MaxOps -> Reply \cup {None}]
           /\ reply'[who] = None
           /\ \A x \in {Opener} \cup Lookups \cup 1..MaxOps : x # who => reply'[x] = reply[x]
  BY DEF Heard, StoreTypes

\* A job's chunk and length have their types, and it is in none of the other lists.
LEMMA JobFacts ==
    ASSUME HybridInv, NEW i \in DOMAIN ops, ops[i].kind \in Mutations
    PROVE  /\ ops[i].key \in Keys /\ Id(i) \in Ids /\ ops[i].len \in Nat /\ ops[i] \in Op
           /\ i \in Nat \ {0} /\ i # None /\ i \in 1..MaxOps /\ i \notin Lookups
<1>1. ops[i].key \in Keys
  BY DEF HybridInv, JobInv, PhaseInv
<1>2. ops[i] \in Op /\ i \in Nat \ {0} /\ i \in 1..MaxOps
  BY OpFacts DEF HybridInv
<1>3. Id(i) \in Ids
  BY <1>1 DEF HybridInv, CallTypes, Id
<1> QED
  BY <1>1, <1>2, <1>3, HybridAssumption DEF Op

\* A job that waits for the store is written up in the catalog.
LEMMA AwaitFacts ==
    ASSUME HybridInv, NEW i \in DOMAIN ops, ops[i].phase \in {"put", "evict", "get", "delete"}
    PROVE  /\ ops[i].kind \in Mutations /\ ops[i].result = None
           /\ CallTypes /\ StoreTypes /\ catalog \in CatalogState
           /\ i \in {Opener} \cup Lookups \cup 1..MaxOps
           /\ Id(i) \in Ids /\ ops[i].len \in Nat /\ ops[i] \in Op /\ i # None /\ i \in Nat
           /\ reply[i] # None => reply[i] \in Reply /\ reply[i].status \in {"ok", "error"}
<1>1. ops[i].kind \in Mutations /\ ops[i].result = None
  BY DEF HybridInv, JobInv, PhaseInv, Mutations
<1>2. CallTypes /\ StoreTypes /\ catalog \in CatalogState
  BY DEF HybridInv, JobTypes
<1>3. /\ Id(i) \in Ids /\ ops[i].len \in Nat /\ ops[i] \in Op /\ i # None /\ i \in Nat
      /\ i \in 1..MaxOps
  BY <1>1, JobFacts
<1>4. reply[i] # None => reply[i] \in Reply /\ reply[i].status # "changed"
  BY <1>2, <1>3 DEF HybridInv, ReplyInv, StoreTypes
<1>5. reply[i] # None => reply[i].status \in {"ok", "error"}
  BY <1>4 DEF Reply
<1> QED
  BY <1>1, <1>2, <1>3, <1>4, <1>5

\* One job of a chunk runs at a time, and one job holds the control lock.
LEMMA Exclusive ==
    ASSUME HybridInv, NEW i \in DOMAIN ops, NEW j \in DOMAIN ops
    PROVE  /\ ops[i].phase \in Working /\ ops[j].phase \in Working /\ Id(i) = Id(j) => i = j
           /\ {ops[i].phase, ops[j].phase} \subseteq {"evict", "evicted", "wait", "get", "delete"} => i = j
<1>1. i \in Nat /\ j \in Nat
  BY OpFacts DEF HybridInv
<1>2. \A x, y \in DOMAIN ops : x < y /\ Started(y) /\ Id(x) = Id(y) => Done(x)
  BY DEF HybridInv, JobInv, CoordinatorOrder, Ordered
<1>3. ASSUME ops[i].phase \in Working, ops[j].phase \in Working, Id(i) = Id(j) PROVE i = j
  <2>1. Started(i) /\ Started(j) /\ ~Done(i) /\ ~Done(j)
    BY <1>3 DEF Started, Done, Working
  <2> QED
    BY <1>1, <1>2, <1>3, <2>1, SMT
<1>4. ASSUME {ops[i].phase, ops[j].phase} \subseteq {"evict", "evicted", "wait", "get", "delete"}
      PROVE  i = j
  BY <1>4 DEF HybridInv, ControlInv
<1> QED
  BY <1>3, <1>4

\* While an invalidation is under way, its slot is the chunk on the disk until the deletion
\* has been answered.
LEMMA InvalidationTracks ==
    ASSUME HybridInv, NEW i \in DOMAIN ops, ops[i].phase \in {"get", "delete"},
           ~Answered(i, Id(i))
    PROVE  /\ disk[Id(i)] # NoChunk /\ disk[Id(i)].lsn = ops[i].lsn
           /\ Id(i) \in DOMAIN catalog.slots /\ Id(i) \notin DOMAIN catalog.active
<1>1. Id(i) \in Ids
  BY AwaitFacts
<1>2. reply[Opener] = None
  BY SMT DEF HybridInv, ReplyInv, ControlInv
<1>3. ASSUME NEW j \in DOMAIN ops, Answered(j, Id(i)) PROVE FALSE
  <2>1. CASE ops[j].phase \in {"put", "delete"} /\ Id(j) = Id(i)
    <3>1. i = j
      BY <2>1, Exclusive DEF Working
    <3> QED
      BY <1>3, <3>1
  <2>2. CASE ops[j].phase = "evict" /\ ops[j].victim = Id(i)
    <3>1. i = j
      BY <2>2, Exclusive
    <3> QED
      BY <2>2, <3>1
  <2> QED
    BY <1>3, <2>1, <2>2 DEF Answered
<1>4. Tracks(Id(i))
  BY <1>1, <1>2, <1>3 DEF HybridInv, TrackInv
<1>5. Id(i) \in DOMAIN catalog.slots /\ ops[i].lsn = catalog.slots[Id(i)].lsn
  BY DEF HybridInv, ClaimInv
<1>6. Id(i) \notin DOMAIN catalog.active
  <2>1. SUFFICES ASSUME Id(i) \in DOMAIN catalog.active PROVE FALSE
    OBVIOUS
  <2>2. PICK j \in DOMAIN ops : ops[j].phase = "put" /\ Id(j) = Id(i)
    BY <2>1 DEF HybridInv, ClaimInv
  <2>3. i = j
    BY <2>2, Exclusive DEF Working
  <2> QED
    BY <2>2, <2>3
<1> QED
  BY <1>4, <1>5, <1>6 DEF Tracks

\* Finitely many hold a key, and unsettled mutations are among them.
LEMMA HolderFacts ==
    ASSUME HybridInv, NEW k \in Keys
    PROVE  /\ Unsettled(k) \subseteq Holders(k)
           /\ registry[k] \in KeyState \cup {None}
           /\ KeyInv(registry[k], Holders(k), Unsettled(k))
           /\ registry[k] # None => /\ registry[k] \in KeyState /\ registry[k].generation \in Nat
                                    /\ registry[k].pending = 0 <=> Unsettled(k) = {}
<1>1. CallTypes /\ LeaseInv
  BY DEF HybridInv
<1>2. Unsettled(k) \subseteq Holders(k)
  BY DEF Unsettled, Holders
<1>3. registry[k] \in KeyState \cup {None} /\ KeyInv(registry[k], Holders(k), Unsettled(k))
  BY <1>1 DEF CallTypes, LeaseInv
<1>4. ASSUME registry[k] # None
      PROVE  /\ registry[k] \in KeyState /\ registry[k].generation \in Nat
             /\ registry[k].pending = 0 <=> Unsettled(k) = {}
  <2>1. /\ registry[k] \in KeyState /\ registry[k].generation \in Nat /\ registry[k].pending \in Nat
        /\ Counted(Unsettled(k), registry[k].pending)
    BY <1>3, <1>4 DEF KeyInv, KeyState
  <2> QED
    BY <2>1, CountedEmpty
<1> QED
  BY <1>2, <1>3, <1>4

\* A lookup under way holds its key, whose state is there.
LEMMA LookupFacts ==
    ASSUME HybridInv, NEW l \in Lookups
    PROVE  /\ lookups[l] \in Lookup /\ l \notin Nat /\ l # None
           /\ l \in {Opener} \cup Lookups \cup 1..MaxOps /\ ~(l \in DOMAIN ops)
           /\ lookups[l].pc # "returned" =>
                LET k == lookups[l].key
                IN  /\ k \in Keys /\ idOf[k] \in Ids /\ l \in Holders(k) /\ l \notin Unsettled(k)
                    /\ registry[k] \in KeyState /\ registry[k] # None
                    /\ k # None
<1>1. CallTypes /\ LeaseInv
  BY DEF HybridInv
<1>2. lookups[l] \in Lookup /\ l \notin Nat /\ l # None /\ ~(l \in DOMAIN ops)
  BY <1>1, OpFacts, HybridAssumption DEF CallTypes
<1>3. ASSUME lookups[l].pc # "returned"
      PROVE  LET k == lookups[l].key
             IN  /\ k \in Keys /\ idOf[k] \in Ids /\ l \in Holders(k) /\ l \notin Unsettled(k)
                 /\ registry[k] \in KeyState /\ registry[k] # None
                 /\ k # None
  <2> DEFINE k == lookups[l].key
  <2>1. k \in Keys /\ idOf[k] \in Ids /\ k # None
    BY <1>1, <1>3, HybridAssumption DEF LeaseInv, CallTypes
  <2>2. l \in Holders(k) /\ l \notin Unsettled(k)
    BY <1>2, <1>3 DEF Holders, Unsettled, OpsOf
  <2>3. registry[k] # None
    BY <1>1, <2>1, <2>2 DEF LeaseInv, KeyInv
  <2> QED
    BY <2>1, <2>2, <2>3, HolderFacts
<1> QED
  BY <1>2, <1>3

\* What a request is of, and who waits for it.
LEMMA RequestFacts ==
    ASSUME HybridInv, NEW id \in Ids, NEW n \in DOMAIN chain[id]
    PROVE  /\ chain[id][n] \in Request /\ RequestOk(id, chain[id][n])
           /\ chain[id][n].who # None => /\ chain[id][n].who \in {Opener} \cup Lookups \cup 1..MaxOps
                                         /\ reply[chain[id][n].who] = None
           /\ chain[id][n].kind = "put" =>
                /\ chain[id][n].who \in DOMAIN ops /\ ops[chain[id][n].who].phase = "put"
                /\ Id(chain[id][n].who) = id
<1> DEFINE r == chain[id][n]
<1>1. r \in Request /\ RequestOk(id, r)
  BY SMT DEF HybridInv, ChainInv, StoreTypes
<1> HIDE DEF r
<1>2. \A i \in DOMAIN ops : i \in 1..MaxOps
  BY OpFacts DEF HybridInv
<1>3. r.who # None => r.who \in {Opener} \cup Lookups \cup 1..MaxOps /\ reply[r.who] = None
  BY <1>1, <1>2 DEF RequestOk
<1>4. r.kind = "put" => r.who \in DOMAIN ops /\ ops[r.who].phase = "put" /\ Id(r.who) = id
  BY <1>1 DEF RequestOk
<1> QED
  BY <1>1, <1>3, <1>4 DEF r

\* A request names who made it, and one who deletes finds the version it names on the disk.
LEMMA DeletionFinds ==
    ASSUME HybridInv, NEW id \in Ids, NEW r \in Request, RequestOk(id, r), r.kind = "delete"
    PROVE  disk[id] # NoChunk /\ disk[id].lsn = r.lsn
<1>1. ASSUME Tracks(id), id \in DOMAIN catalog.slots, r.lsn = catalog.slots[id].lsn
      PROVE  disk[id] # NoChunk /\ disk[id].lsn = r.lsn
  BY <1>1 DEF Tracks
<1>2. CASE /\ r.who \in DOMAIN ops /\ reply[r.who] = None /\ r.kind = ops[r.who].phase
           /\ Id(r.who) = id /\ r.lsn = ops[r.who].lsn
  <2>1. ops[r.who].phase \in {"get", "delete"} /\ ~Answered(r.who, Id(r.who))
    BY <1>2 DEF Answered
  <2> QED
    BY <1>2, <2>1, InvalidationTracks
<1>3. CASE /\ r.who \in DOMAIN ops /\ reply[r.who] = None /\ ops[r.who].phase = "evict"
           /\ ops[r.who].victim = id /\ r.lsn = catalog.slots[id].lsn
  <2>1. id \in DOMAIN catalog.slots \ DOMAIN catalog.active
    BY <1>3 DEF HybridInv, ClaimInv
  <2>2. ASSUME NEW j \in DOMAIN ops, Answered(j, id) PROVE FALSE
    <3>1. CASE ops[j].phase = "put"
      BY <2>1, <2>2, <3>1 DEF HybridInv, ClaimInv, Answered
    <3>2. CASE ops[j].phase \in {"evict", "delete"}
      <4>1. j = r.who
        BY <1>3, <3>2, Exclusive
      <4> QED
        BY <1>3, <2>2, <4>1 DEF Answered
    <3> QED
      BY <2>2, <3>1, <3>2 DEF Answered
  <2>3. reply[Opener] = None
    BY <1>3, SMT DEF HybridInv, ReplyInv, ControlInv
  <2>4. Tracks(id)
    BY <2>2, <2>3 DEF HybridInv, TrackInv
  <2> QED
    BY <1>1, <1>3, <2>1, <2>4
<1>4. CASE /\ r.who = Opener /\ reply[r.who] = None /\ admission = "trim"
           /\ id \in DOMAIN catalog.slots /\ r.lsn = catalog.slots[id].lsn
  <2>1. DOMAIN ops = {}
    BY <1>4, SMT DEF HybridInv, ControlInv
  <2>2. Tracks(id)
    BY <1>4, <2>1 DEF HybridInv, TrackInv
  <2> QED
    BY <1>1, <1>4, <2>2
<1> QED
  BY <1>2, <1>3, <1>4 DEF RequestOk

(***************************************************************************)
(* The coordinator                                                         *)
(***************************************************************************)
\* A running job goes on: what others see of its phase does not change.
Continues(i) ==
    /\ Changed(i) /\ ops[i].kind \in Mutations
    /\ ops[i].phase \in Working /\ ops'[i].phase \in Working
    /\ ops'[i].phase \in {"evict", "evicted", "wait", "put", "publish"} => ops[i].kind = "insert"
    /\ ops'[i].phase \in {"get", "delete"} => ops[i].kind = "invalidate"
    /\ ops'[i].result = None <=> ops'[i].phase \notin {"release", "finish", "done"}
    /\ Failed(ops'[i].result) => failures' # None \/ (Failed(ops[i].result) /\ failures' = failures)
    /\ failures # None => failures' # None
    /\ UNCHANGED <<idOf, taken, queues, fence>>

\* Every part of a job but its end.
LEMMA MovedContinues ==
    ASSUME HybridInv, NEW i \in DOMAIN ops, Moved(i)
    PROVE  Continues(i)
<1>1. i # None
  BY JobFacts DEF Moved
<1>2. ops[i].phase \in Working /\ ops'[i].phase \in Working
  BY DEF Moved, Working
<1>3. ops'[i].result = None <=> ops'[i].phase \notin {"release", "finish", "done"}
  BY DEF Moved, Working
<1>4. ~Failed(None)
  BY HybridAssumption DEF Failed
<1>5. /\ Failed(ops'[i].result) => failures' # None
      /\ failures # None => failures' # None
  BY <1>1, <1>4 DEF Moved
<1> QED
  BY <1>2, <1>3, <1>5 DEF Moved, Continues

\* The others see the same phases, kinds and chunks as before.
LEMMA ContinuesKeeps ==
    ASSUME HybridInv, NEW i \in DOMAIN ops, Continues(i)
    PROVE  /\ DOMAIN ops' = DOMAIN ops /\ RunningJobs' = RunningJobs
           /\ \A j \in DOMAIN ops :
                /\ ops'[j].kind = ops[j].kind /\ ops'[j].key = ops[j].key /\ Id(j)' = Id(j)
                /\ Started(j)' <=> Started(j)
                /\ Done(j)' <=> Done(j)
                /\ \A p \in {"queued", "pending", "fence", "flush"} :
                     ops'[j].phase = p <=> ops[j].phase = p
                /\ j # i => ops'[j] = ops[j]
<1>1. /\ DOMAIN ops' = DOMAIN ops /\ idOf' = idOf
      /\ \A j \in DOMAIN ops :
           ops'[j].kind = ops[j].kind /\ ops'[j].key = ops[j].key /\ (j # i => ops'[j] = ops[j])
  BY DEF Continues, Changed
<1>2. \A j \in DOMAIN ops : Id(j)' = Id(j)
  BY <1>1 DEF Id
<1>3. \A j \in DOMAIN ops :
           /\ Started(j)' <=> Started(j)
           /\ Done(j)' <=> Done(j)
           /\ ops'[j].phase \in Waiting <=> ops[j].phase \in Waiting
           /\ \A p \in {"queued", "pending", "fence", "flush"} :
                ops'[j].phase = p <=> ops[j].phase = p
  BY <1>1 DEF Continues, Started, Done, Working, Waiting
<1>4. RunningJobs' = RunningJobs
  BY <1>1, <1>3 DEF RunningJobs
<1> QED
  BY <1>1, <1>2, <1>3, <1>4

\* The coordinator's invariant while a job goes on.
LEMMA ContinuesJobs ==
    ASSUME HybridInv, NEW i \in DOMAIN ops, Continues(i)
    PROVE  JobInv'
<1>1. /\ DOMAIN ops' = DOMAIN ops /\ RunningJobs' = RunningJobs
      /\ \A j \in DOMAIN ops :
           /\ ops'[j].kind = ops[j].kind /\ ops'[j].key = ops[j].key /\ Id(j)' = Id(j)
           /\ Started(j)' <=> Started(j)
           /\ Done(j)' <=> Done(j)
           /\ \A p \in {"queued", "pending", "fence", "flush"} :
                ops'[j].phase = p <=> ops[j].phase = p
           /\ j # i => ops'[j] = ops[j]
  BY ContinuesKeeps
<1>2. JobInv /\ CallTypes
  BY DEF HybridInv
<1>3. PhaseInv'
  <2>1. PhaseInv
    BY <1>2 DEF JobInv
  <2> QED
    BY <1>1, <2>1, SMT DEF PhaseInv, Continues
<1>4. IntakeInv'
  <2>1. IntakeInv /\ Len(ops') = Len(ops) /\ taken' = taken /\ fence' = fence
    BY <1>2 DEF JobInv, Continues, Changed
  <2>2. Len(ops) \in Nat /\ DOMAIN ops = 1..Len(ops) /\ taken \in Nat
    BY <1>2, OpFacts DEF HybridInv, JobTypes
  <2>3. fence # None => fence \in DOMAIN ops
    BY <2>1, <2>2, SMT DEF IntakeInv
  <2> QED
    BY <1>1, <2>1, <2>3 DEF IntakeInv
<1>5. QueueInv'
  <2>1. QueueInv /\ queues' = queues
    BY <1>2 DEF JobInv, Continues
  <2> SUFFICES ASSUME NEW id \in Ids
               PROVE  /\ \A n \in DOMAIN queues[id] :
                           /\ queues[id][n] \in DOMAIN ops' /\ ops'[queues[id][n]].phase = "pending"
                           /\ Id(queues[id][n])' = id
                           /\ \A m \in 1..(n - 1) : queues[id][m] < queues[id][n]
                      /\ \A j \in DOMAIN ops' : ops'[j].phase = "pending" /\ Id(j)' = id =>
                           \E n \in DOMAIN queues[id] : queues[id][n] = j
                      /\ queues[id] # <<>> => \E j \in RunningJobs' : Id(j)' = id
    BY <2>1, ZenonT(30) DEF QueueInv
  <2>2. ASSUME NEW n \in DOMAIN queues[id]
        PROVE  /\ queues[id][n] \in DOMAIN ops' /\ ops'[queues[id][n]].phase = "pending"
               /\ Id(queues[id][n])' = id
               /\ \A m \in 1..(n - 1) : queues[id][m] < queues[id][n]
    BY <1>1, <2>1, SMT DEF QueueInv, Id
  <2>3. ASSUME NEW j \in DOMAIN ops', ops'[j].phase = "pending", Id(j)' = id
        PROVE  \E n \in DOMAIN queues[id] : queues[id][n] = j
    BY <1>1, <2>1, <2>3, SMT DEF QueueInv
  <2>4. ASSUME queues[id] # <<>> PROVE \E j \in RunningJobs' : Id(j)' = id
    <3>1. PICK j \in RunningJobs : Id(j) = id
      BY <2>1, <2>4 DEF QueueInv
    <3> QED
      BY <1>1, <3>1 DEF RunningJobs
  <2> QED
    BY <2>2, <2>3, <2>4
<1>6. FailureInv'
  <2>1. FailureInv
    BY <1>2 DEF JobInv
  <2> QED
    BY <1>1, <2>1, ZenonT(30) DEF FailureInv, Continues
<1>7. CoordinatorOrder'
  <2>1. CoordinatorOrder
    BY <1>2 DEF JobInv
  <2> SUFFICES ASSUME NEW x \in DOMAIN ops, NEW y \in DOMAIN ops, x < y
               PROVE  /\ Started(y)' /\ Ordered(x, y)' => Done(x)'
                      /\ Reports(x, y)' /\ Done(y)' => ops'[y].result = "error"
    BY <1>1, ZenonT(30) DEF CoordinatorOrder
  <2>2. Ordered(x, y)' <=> Ordered(x, y)
    BY <1>1, ZenonT(30) DEF Ordered
  <2>3. Started(y)' /\ Ordered(x, y)' => Done(x)'
    BY <1>1, <2>1, <2>2 DEF CoordinatorOrder
  <2>4. ASSUME Reports(x, y)', Done(y)' PROVE ops'[y].result = "error"
    <3>1. ops[y].kind \notin Mutations /\ ops[x].kind \in Mutations /\ Failed(ops'[x].result)
      BY <1>1, <2>4 DEF Reports
    <3>2. y # i
      BY <3>1 DEF Continues
    <3>3. x # i
      <4>1. Ordered(x, y) /\ Started(y)
        BY <1>1, <2>4, <3>1 DEF Ordered, Done, Started
      <4>2. Done(x)
        BY <2>1, <4>1 DEF CoordinatorOrder
      <4> QED
        BY <4>2 DEF Done, Continues, Working
    <3>4. \A f \in x..(y - 1) : f \in DOMAIN ops
      BY <1>2, OpFacts, SMT
    <3>5. Reports(x, y)
      BY <1>1, <2>4, <3>1, <3>3, <3>4 DEF Reports
    <3> QED
      BY <1>1, <2>1, <2>4, <3>2, <3>5, ZenonT(30) DEF CoordinatorOrder
  <2> QED
    BY <2>3, <2>4
<1> QED
  BY <1>3, <1>4, <1>5, <1>6, <1>7 DEF JobInv

\* The coordinator's invariant when an operation is admitted.
LEMMA AddedJobs ==
    ASSUME HybridInv, Added
    PROVE  JobInv'
<1>0. PICK n \in Nat : n = Len(ops) + 1
  BY OpFacts, SMT DEF HybridInv
<1>1. /\ Len(ops) \in Nat /\ DOMAIN ops = 1..Len(ops) /\ Len(ops') = n
      /\ DOMAIN ops' = DOMAIN ops \cup {n} /\ n \notin DOMAIN ops
      /\ \A j \in DOMAIN ops : ops'[j] = ops[j] /\ j < n /\ j \in Nat
      /\ ops'[n].phase = "queued" /\ ops'[n].result = None
      /\ ops'[n].kind \in Mutations => ops'[n].key \in Keys
      /\ UNCHANGED <<idOf, taken, queues, fence, failures, control>>
  BY <1>0, OpFacts DEF Added, HybridInv, jobVars
<1>2. JobInv /\ taken \in Nat
  BY DEF HybridInv, JobTypes
<1>3. \A j \in DOMAIN ops : /\ Id(j)' = Id(j)
                            /\ Started(j)' <=> Started(j)
                            /\ Done(j)' <=> Done(j)
  BY <1>1 DEF Id, Started, Done
<1>4. ~Started(n)' /\ ~Done(n)' /\ ~Failed(ops'[n].result) /\ RunningJobs' = RunningJobs
  <2>1. ~Started(n)' /\ ~Done(n)' /\ ~Failed(ops'[n].result)
    BY <1>1, HybridAssumption DEF Started, Done, Failed
  <2>2. RunningJobs' = RunningJobs
    BY <1>1 DEF RunningJobs, Waiting
  <2> QED
    BY <2>1, <2>2
<1>5. PhaseInv'
  BY <1>1, <1>2, ZenonT(30) DEF JobInv, PhaseInv, Waiting
<1>6. IntakeInv'
  <2>1. fence # None => fence \in DOMAIN ops
    BY <1>1, <1>2, SMT DEF JobInv, IntakeInv
  <2>2. taken <= Len(ops)
    BY <1>2 DEF JobInv, IntakeInv
  <2>3. taken < n
    BY <1>0, <1>1, <1>2, <2>2, SMT
  <2> QED
    BY <1>0, <1>1, <1>2, <2>1, <2>2, <2>3, SMT DEF JobInv, IntakeInv
<1>7. QueueInv'
  <2> SUFFICES ASSUME NEW id \in Ids
               PROVE  /\ \A m \in DOMAIN queues[id] :
                           /\ queues[id][m] \in DOMAIN ops' /\ ops'[queues[id][m]].phase = "pending"
                           /\ Id(queues[id][m])' = id
                           /\ \A p \in 1..(m - 1) : queues[id][p] < queues[id][m]
                      /\ \A j \in DOMAIN ops' : ops'[j].phase = "pending" /\ Id(j)' = id =>
                           \E m \in DOMAIN queues[id] : queues[id][m] = j
                      /\ queues[id] # <<>> => \E j \in RunningJobs' : Id(j)' = id
    BY <1>1, ZenonT(30) DEF QueueInv
  <2>1. QueueInv
    BY <1>2 DEF JobInv
  <2>2. ASSUME NEW m \in DOMAIN queues[id]
        PROVE  /\ queues[id][m] \in DOMAIN ops' /\ ops'[queues[id][m]].phase = "pending"
               /\ Id(queues[id][m])' = id
               /\ \A p \in 1..(m - 1) : queues[id][p] < queues[id][m]
    BY <1>1, <2>1, SMT DEF QueueInv, Id
  <2>3. ASSUME NEW j \in DOMAIN ops', ops'[j].phase = "pending", Id(j)' = id
        PROVE  \E m \in DOMAIN queues[id] : queues[id][m] = j
    <3>1. j \in DOMAIN ops
      BY <1>1, <2>3
    <3> QED
      BY <1>1, <1>3, <2>1, <2>3, <3>1, SMT DEF QueueInv
  <2>4. ASSUME queues[id] # <<>> PROVE \E j \in RunningJobs' : Id(j)' = id
    <3>1. PICK j \in RunningJobs : Id(j) = id
      BY <2>1, <2>4 DEF QueueInv
    <3> QED
      BY <1>3, <1>4, <3>1 DEF RunningJobs
  <2> QED
    BY <2>2, <2>3, <2>4
<1>8. FailureInv'
  BY <1>1, <1>2, <1>3, <1>4 DEF JobInv, FailureInv
<1>9. CoordinatorOrder'
  <2> SUFFICES ASSUME NEW x \in DOMAIN ops', NEW y \in DOMAIN ops', x < y
               PROVE  /\ Started(y)' /\ Ordered(x, y)' => Done(x)'
                      /\ Reports(x, y)' /\ Done(y)' => ops'[y].result = "error"
    BY DEF CoordinatorOrder
  <2>1. CASE y = n
    BY <1>4, <2>1
  <2>2. CASE y # n
    <3>1. y \in DOMAIN ops /\ x \in DOMAIN ops
      BY <1>0, <1>1, <2>2, SMT
    <3>2. Ordered(x, y)' <=> Ordered(x, y)
      BY <1>1, <1>3, <3>1 DEF Ordered
    <3>3. \A f \in x..(y - 1) : f \in DOMAIN ops
      BY <1>1, <3>1, SMT
    <3>4. Reports(x, y)' <=> Reports(x, y)
      BY <1>1, <3>1, <3>3 DEF Reports
    <3> QED
      BY <1>1, <1>2, <1>3, <3>1, <3>2, <3>4 DEF JobInv, CoordinatorOrder
  <2> QED
    BY <2>1, <2>2
<1> QED
  BY <1>5, <1>6, <1>7, <1>8, <1>9 DEF JobInv

\* Before operation i is taken, everything taken is done, waits in its queue or runs.
LEMMA TakenFacts ==
    ASSUME HybridInv, NEW x \in DOMAIN ops, x <= taken
    PROVE  /\ ops[x].kind \notin Mutations => Done(x) \/ fence = x
           /\ ops[x].kind \in Mutations =>
                \/ Done(x)
                \/ x \in RunningJobs
                \/ ops[x].phase = "pending" /\ \E n \in DOMAIN queues[Id(x)] : queues[Id(x)][n] = x
<1>1. JobInv /\ x \in Nat /\ taken \in Nat
  BY OpFacts DEF HybridInv, JobTypes
<1>2. ops[x].phase # "queued"
  BY <1>1, SMT DEF JobInv, IntakeInv
<1>3. ops[x].kind \notin Mutations => Done(x) \/ fence = x
  BY <1>1, <1>2 DEF JobInv, PhaseInv, IntakeInv, Done
<1>4. ASSUME ops[x].kind \in Mutations, ~Done(x), x \notin RunningJobs
      PROVE  ops[x].phase = "pending" /\ \E n \in DOMAIN queues[Id(x)] : queues[Id(x)][n] = x
  <2>1. ops[x].phase = "pending"
    BY <1>2, <1>4 DEF Done, RunningJobs, Waiting
  <2>2. Id(x) \in Ids
    BY <1>4, JobFacts
  <2> QED
    BY <1>1, <2>1, <2>2 DEF JobInv, QueueInv
<1> QED
  BY <1>3, <1>4

\* The coordinator's invariant at an intake: a job that may start has none before it.
LEMMA TakingJobs ==
    ASSUME HybridInv, NEW i \in DOMAIN ops, Taking(i)
    PROVE  JobInv'
<1>1. /\ JobInv /\ taken \in Nat /\ Len(ops) \in Nat /\ DOMAIN ops = 1..Len(ops) /\ i \in Nat
      /\ Len(ops') = Len(ops) /\ queues \in [Ids -> Seq(Nat)] /\ CallTypes
  BY OpFacts DEF HybridInv, JobTypes, Taking, Changed
<1>2. /\ DOMAIN ops' = DOMAIN ops /\ idOf' = idOf /\ failures' = failures
      /\ \A j \in DOMAIN ops :
           /\ ops'[j].kind = ops[j].kind /\ ops'[j].key = ops[j].key
           /\ ops'[j].result = ops[j].result /\ (j # i => ops'[j] = ops[j])
  BY DEF Taking, Changed
<1>3. \A j \in DOMAIN ops :
           /\ Id(j)' = Id(j)
           /\ Done(j)' <=> Done(j)
           /\ j # i => (Started(j)' <=> Started(j))
  BY <1>2 DEF Id, Done, Started, Taking
<1>4. /\ i = taken + 1 /\ taken' = i /\ fence = None /\ ops[i].phase = "queued" /\ ops[i].result = None
      /\ ops[i].kind \in Mutations => ops[i].key \in Keys /\ Id(i) \in Ids
  BY <1>1, JobFacts DEF Taking, JobInv, PhaseInv
<1>5. \A j \in DOMAIN ops : ops[j].phase = "queued" <=> j > taken
  BY <1>1 DEF JobInv, IntakeInv
<1>6. PhaseInv'
  <2>1. \A j \in DOMAIN ops : j # i => ops'[j] = ops[j]
    BY <1>2
  <2>2. PhaseInv
    BY <1>1 DEF JobInv
  <2>3. /\ ops'[i].result = None /\ ops'[i].kind = ops[i].kind /\ ops'[i].key = ops[i].key
        /\ \/ ops[i].kind \notin Mutations /\ ops'[i].phase = "fence"
           \/ /\ ops[i].kind \in Mutations /\ ops[i].key \in Keys
              /\ ops'[i].phase \in {"pending", "start"}
    BY <1>2, <1>4 DEF Taking
  <2> QED
    BY <1>2, <2>1, <2>2, <2>3, SMT DEF PhaseInv, Waiting, Working
<1>7. IntakeInv'
  <2>1. \A j \in DOMAIN ops : ops[j].phase \notin {"fence", "flush"}
    BY <1>1, <1>4, HybridAssumption, SMT DEF JobInv, IntakeInv
  <2>2. taken' <= Len(ops')
    BY <1>1, <1>4, SMT
  <2>3. \A j \in DOMAIN ops' : ops'[j].phase = "queued" <=> j > taken'
    <3>1. ops'[i].phase # "queued"
      BY DEF Taking
    <3>2. \A j \in DOMAIN ops : j # i => (j > taken <=> j > i)
      BY <1>1, <1>4, SMT
    <3> QED
      BY <1>1, <1>2, <1>4, <1>5, <3>1, <3>2, SMT
  <2>4. \A j \in DOMAIN ops' : ops'[j].phase \in {"fence", "flush"} => fence' = j
    BY <1>2, <2>1, ZenonT(30) DEF Taking
  <2>5. fence' # None => /\ fence' = taken' /\ taken' > 0
                         /\ ops'[fence'].phase \in {"fence", "flush"}
    BY <1>1, <1>4, SMT DEF Taking
  <2> QED
    BY <2>2, <2>3, <2>4, <2>5 DEF IntakeInv
<1>8. \A j \in RunningJobs : j # i /\ j \in RunningJobs'
  BY <1>2, <1>4 DEF RunningJobs, Waiting
<1>9. QueueInv'
  <2>1. QueueInv
    BY <1>1 DEF JobInv
  <2>2. CASE ops'[i].phase # "pending"
    <3>1. queues' = queues
      BY <2>2 DEF Taking
    <3> SUFFICES ASSUME NEW id \in Ids
                 PROVE  /\ \A m \in DOMAIN queues[id] :
                             /\ queues[id][m] \in DOMAIN ops' /\ ops'[queues[id][m]].phase = "pending"
                             /\ Id(queues[id][m])' = id
                             /\ \A p \in 1..(m - 1) : queues[id][p] < queues[id][m]
                        /\ \A j \in DOMAIN ops' : ops'[j].phase = "pending" /\ Id(j)' = id =>
                             \E m \in DOMAIN queues[id] : queues[id][m] = j
                        /\ queues[id] # <<>> => \E j \in RunningJobs' : Id(j)' = id
      BY <3>1 DEF QueueInv
    <3>2. ASSUME NEW m \in DOMAIN queues[id]
          PROVE  /\ queues[id][m] \in DOMAIN ops' /\ ops'[queues[id][m]].phase = "pending"
                 /\ Id(queues[id][m])' = id
                 /\ \A p \in 1..(m - 1) : queues[id][p] < queues[id][m]
      <4>1. /\ queues[id][m] \in DOMAIN ops /\ ops[queues[id][m]].phase = "pending"
            /\ idOf[ops[queues[id][m]].key] = id
            /\ \A p \in 1..(m - 1) : queues[id][p] < queues[id][m]
        BY <2>1 DEF QueueInv, Id
      <4>2. queues[id][m] # i
        BY <1>4, <4>1
      <4> QED
        BY <1>2, <3>1, <4>1, <4>2 DEF Id
    <3>3. ASSUME NEW j \in DOMAIN ops', ops'[j].phase = "pending", Id(j)' = id
          PROVE  \E m \in DOMAIN queues[id] : queues[id][m] = j
      BY <1>2, <1>3, <2>1, <2>2, <3>3, SMT DEF QueueInv
    <3>4. ASSUME queues[id] # <<>> PROVE \E j \in RunningJobs' : Id(j)' = id
      <4>1. PICK j \in RunningJobs : Id(j) = id
        BY <2>1, <3>4 DEF QueueInv
      <4> QED
        BY <1>3, <1>8, <4>1 DEF RunningJobs
    <3> QED
      BY <3>2, <3>3, <3>4
  <2>3. CASE ops'[i].phase = "pending"
    <3> DEFINE q == queues[Id(i)]
    <3>1. /\ ops[i].kind \in Mutations /\ queues' = [queues EXCEPT ![Id(i)] = Append(q, i)]
          /\ Id(i) \in Ids
      BY <1>4, <2>3 DEF Taking
    <3>2. PICK r \in RunningJobs : Id(r) = Id(i)
      BY <2>3 DEF Taking
    <3>3. q \in Seq(Nat)
      BY <1>1, <3>1
    <3>4. /\ queues'[Id(i)] = Append(q, i) /\ DOMAIN q = 1..Len(q) /\ Len(q) \in Nat
          /\ DOMAIN Append(q, i) = 1..(Len(q) + 1) /\ Append(q, i)[Len(q) + 1] = i
          /\ \A m \in 1..Len(q) : Append(q, i)[m] = q[m]
      BY <1>1, <3>1, <3>3, SMT
    <3>5. \A id \in Ids : id # Id(i) => queues'[id] = queues[id]
      BY <1>1, <3>1
    <3> SUFFICES ASSUME NEW id \in Ids
                 PROVE  /\ \A m \in DOMAIN queues'[id] :
                             /\ queues'[id][m] \in DOMAIN ops'
                             /\ ops'[queues'[id][m]].phase = "pending"
                             /\ idOf'[ops'[queues'[id][m]].key] = id
                             /\ \A p \in 1..(m - 1) : queues'[id][p] < queues'[id][m]
                        /\ \A j \in DOMAIN ops' : ops'[j].phase = "pending" /\ Id(j)' = id =>
                             \E m \in DOMAIN queues'[id] : queues'[id][m] = j
                        /\ queues'[id] # <<>> => \E j \in RunningJobs' : Id(j)' = id
      BY ZenonT(30) DEF QueueInv, Id
    <3>6. \A m \in DOMAIN queues[id] :
             /\ queues[id][m] \in DOMAIN ops /\ ops[queues[id][m]].phase = "pending"
             /\ queues[id][m] # i /\ Id(queues[id][m]) = id
             /\ \A p \in 1..(m - 1) : queues[id][p] < queues[id][m]
      BY <1>4, <2>1 DEF QueueInv
    <3>7. \A m \in DOMAIN queues[id] :
             /\ queues[id][m] \in DOMAIN ops' /\ ops'[queues[id][m]].phase = "pending"
             /\ idOf'[ops'[queues[id][m]].key] = id
             /\ \A p \in 1..(m - 1) : queues[id][p] < queues[id][m]
      BY <1>2, <3>6 DEF Id
    <3>8. CASE id # Id(i)
      <4>1. \A j \in DOMAIN ops' : ops'[j].phase = "pending" /\ Id(j)' = id =>
               \E m \in DOMAIN queues[id] : queues[id][m] = j
        BY <1>2, <1>3, <2>1, <3>8, SMT DEF QueueInv
      <4>2. queues[id] # <<>> => \E j \in RunningJobs' : Id(j)' = id
        <5>1. SUFFICES ASSUME queues[id] # <<>> PROVE \E j \in RunningJobs' : Id(j)' = id
          OBVIOUS
        <5>2. PICK j \in RunningJobs : Id(j) = id
          BY <2>1, <5>1 DEF QueueInv
        <5> QED
          BY <1>3, <1>8, <5>2 DEF RunningJobs
      <4> QED
        BY <3>5, <3>7, <3>8, <4>1, <4>2
    <3>9. CASE id = Id(i)
      <4>1. \A m \in 1..Len(q) : q[m] < i /\ q[m] \in DOMAIN ops
        <5> TAKE m \in 1..Len(q)
        <5>1. q[m] \in DOMAIN ops /\ ops[q[m]].phase = "pending" /\ q[m] # i
          BY <3>4, <3>6, <3>9
        <5>2. ~(q[m] > taken) /\ q[m] \in Nat
          BY <1>1, <1>5, <5>1, SMT
        <5> QED
          BY <1>1, <1>4, <5>1, <5>2, SMT
      <4>2. i \in DOMAIN ops' /\ ops'[i].phase = "pending" /\ idOf'[ops'[i].key] = id
        BY <1>2, <2>3, <3>9 DEF Id
      <4>3. \A m \in DOMAIN queues'[id] :
               /\ queues'[id][m] \in DOMAIN ops'
               /\ ops'[queues'[id][m]].phase = "pending"
               /\ idOf'[ops'[queues'[id][m]].key] = id
        <5> TAKE m \in DOMAIN queues'[id]
        <5>1. m = Len(q) + 1 \/ (m \in DOMAIN q /\ m \in 1..Len(q))
          BY <3>4, <3>9, SMT
        <5>2. CASE m = Len(q) + 1
          BY <3>4, <3>9, <4>2, <5>2
        <5>3. CASE m \in DOMAIN q
          <6>1. queues'[id][m] = queues[id][m] /\ m \in DOMAIN queues[id]
            BY <3>4, <3>9, <5>3
          <6> QED
            BY <3>7, <6>1
        <5> QED
          BY <5>1, <5>2, <5>3
      <4>4. \A m \in DOMAIN queues'[id] : \A p \in 1..(m - 1) : queues'[id][p] < queues'[id][m]
        <5> TAKE m \in DOMAIN queues'[id]
        <5> TAKE p \in 1..(m - 1)
        <5>1. p \in 1..Len(q) /\ (m = Len(q) + 1 \/ m \in 1..Len(q))
          BY <3>4, <3>9, SMT
        <5>2. queues'[id][p] = q[p]
          BY <3>4, <3>9, <5>1
        <5>3. CASE m = Len(q) + 1
          BY <3>4, <3>9, <4>1, <5>1, <5>2, <5>3
        <5>4. CASE m \in 1..Len(q)
          <6>1. queues'[id][m] = q[m] /\ q[p] < q[m]
            BY <3>4, <3>6, <3>9, <5>4
          <6> QED
            BY <5>2, <6>1
        <5> QED
          BY <5>1, <5>3, <5>4
      <4>5. ASSUME NEW j \in DOMAIN ops', ops'[j].phase = "pending", Id(j)' = id
            PROVE  \E m \in DOMAIN queues'[id] : queues'[id][m] = j
        <5>1. CASE j = i
          BY <3>4, <3>9, <5>1, SMT
        <5>2. CASE j # i
          <6>1. PICK m \in DOMAIN q : q[m] = j
            BY <1>2, <1>3, <2>1, <3>9, <4>5, <5>2, SMT DEF QueueInv
          <6> QED
            BY <3>4, <3>9, <6>1, SMT
        <5> QED
          BY <5>1, <5>2
      <4>6. \E j \in RunningJobs' : Id(j)' = id
        BY <1>3, <1>8, <3>2, <3>9 DEF RunningJobs
      <4> QED
        BY <4>3, <4>4, <4>5, <4>6
    <3> QED
      BY <3>8, <3>9
  <2> QED
    BY <2>2, <2>3
<1>10. FailureInv'
  BY <1>1, <1>2, <1>3 DEF JobInv, FailureInv
<1>11. CoordinatorOrder'
  <2> SUFFICES ASSUME NEW x \in DOMAIN ops, NEW y \in DOMAIN ops, x < y
               PROVE  /\ Started(y)' /\ Ordered(x, y)' => Done(x)'
                      /\ Reports(x, y)' /\ Done(y)' => ops'[y].result = "error"
    BY <1>2 DEF CoordinatorOrder
  <2>1. CoordinatorOrder
    BY <1>1 DEF JobInv
  <2>2. Ordered(x, y)' <=> Ordered(x, y)
    BY <1>2, <1>3 DEF Ordered
  <2>3. Reports(x, y)' /\ Done(y)' => ops'[y].result = "error"
    <3>1. \A f \in x..(y - 1) : f \in DOMAIN ops
      BY <1>1, SMT
    <3>2. Reports(x, y)' <=> Reports(x, y)
      BY <1>2, <3>1 DEF Reports
    <3> QED
      BY <1>2, <1>3, <2>1, <3>2 DEF CoordinatorOrder
  <2>4. ASSUME Started(y)', Ordered(x, y)' PROVE Done(x)'
    <3>1. CASE y # i
      BY <1>3, <2>1, <2>2, <2>4, <3>1 DEF CoordinatorOrder
    <3>2. CASE y = i
      <4>1. /\ ops[i].kind \in Mutations /\ ops'[i].phase = "start"
            /\ ~\E j \in RunningJobs : Id(j) = Id(i)
        BY <2>4, <3>2 DEF Taking, Started
      <4>2. x <= taken
        BY <1>1, <1>4, <3>2, SMT
      <4>3. CASE ops[x].kind \notin Mutations
        BY <1>1, <1>3, <1>4, <4>2, <4>3, TakenFacts, HybridAssumption, SMT
      <4>4. CASE ops[x].kind \in Mutations
        <5>1. Id(x) = Id(i) /\ Id(i) \in Ids
          BY <1>4, <2>2, <2>4, <3>2, <4>1, <4>4 DEF Ordered
        <5>2. queues[Id(i)] = <<>>
          BY <1>1, <4>1, <5>1 DEF JobInv, QueueInv
        <5>3. ~\E n \in DOMAIN queues[Id(x)] : queues[Id(x)][n] = x
          BY <5>1, <5>2, SMT
        <5> QED
          BY <1>3, <4>1, <4>2, <4>4, <5>1, <5>3, TakenFacts
      <4> QED
        BY <4>3, <4>4
    <3> QED
      BY <3>1, <3>2
  <2> QED
    BY <2>3, <2>4
<1> QED
  BY <1>6, <1>7, <1>9, <1>10, <1>11 DEF JobInv

\* What the end of job i leaves alone: every other job but the one that starts.
LEMMA FinishKeeps ==
    ASSUME HybridInv, NEW i \in DOMAIN ops, Finishing(i)
    PROVE  /\ DOMAIN ops' = DOMAIN ops
           /\ \A j \in DOMAIN ops :
                /\ ops'[j].kind = ops[j].kind /\ ops'[j].key = ops[j].key /\ Id(j)' = Id(j)
                /\ ops'[j].result = ops[j].result
                /\ Done(j) => Done(j)'
                /\ \/ j = i /\ ops'[j].phase = "done"
                   \/ j # i /\ ops'[j] = ops[j]
                   \/ /\ j # i /\ ops[j].phase = "pending" /\ ops'[j] = [ops[j] EXCEPT !.phase = "start"]
                      /\ ops'[j].phase = "start" /\ ops[j].kind \in Mutations
                      /\ queues[Id(i)] # <<>> /\ j = queues[Id(i)][1] /\ Id(j) = Id(i)
<1>1. DOMAIN ops' = DOMAIN ops /\ idOf' = idOf
  BY DEF Finishing
<1>2. CallTypes /\ JobInv
  BY DEF HybridInv
<1>3. ASSUME NEW j \in DOMAIN ops
      PROVE  /\ ops'[j].kind = ops[j].kind /\ ops'[j].key = ops[j].key
             /\ ops'[j].result = ops[j].result
             /\ \/ j = i /\ ops'[j].phase = "done"
                \/ j # i /\ ops'[j] = ops[j]
                \/ /\ j # i /\ ops[j].phase = "pending" /\ ops'[j] = [ops[j] EXCEPT !.phase = "start"]
                   /\ ops'[j].phase = "start" /\ ops[j].kind \in Mutations
                   /\ queues[Id(i)] # <<>> /\ j = queues[Id(i)][1] /\ Id(j) = Id(i)
  <2>1. ops[j] \in Op
    BY <1>2, OpFacts
  <2>2. CASE j = i
    BY <2>2 DEF Finishing
  <2>3. CASE j # i /\ ops'[j] = ops[j]
    BY <2>3
  <2>4. CASE j # i /\ ops'[j] # ops[j]
    <3>1. /\ queues[Id(i)] # <<>> /\ j = queues[Id(i)][1] /\ Id(j) = Id(i)
          /\ ops[j].phase = "pending" /\ ops'[j] = [ops[j] EXCEPT !.phase = "start"]
      BY <2>4 DEF Finishing
    <3>2. ops[j].kind \in Mutations
      BY <1>2, <3>1 DEF JobInv, PhaseInv
    <3>3. /\ ops'[j].kind = ops[j].kind /\ ops'[j].key = ops[j].key
          /\ ops'[j].result = ops[j].result /\ ops'[j].phase = "start"
      BY <2>1, <3>1 DEF Op
    <3> QED
      BY <2>4, <3>1, <3>2, <3>3
  <2> QED
    BY <2>2, <2>3, <2>4
<1>4. \A j \in DOMAIN ops : Id(j)' = Id(j)
  BY <1>1, <1>3 DEF Id
<1>5. ASSUME NEW j \in DOMAIN ops, Done(j) PROVE Done(j)'
  BY <1>3, <1>5 DEF Done
<1> QED
  BY <1>1, <1>3, <1>4, <1>5

\* The coordinator's invariant at the end of a job: the next of its chunk has none before it.
LEMMA FinishingJobs ==
    ASSUME HybridInv, NEW i \in DOMAIN ops, Finishing(i)
    PROVE  JobInv'
<1>1. /\ DOMAIN ops' = DOMAIN ops
      /\ \A j \in DOMAIN ops :
           /\ ops'[j].kind = ops[j].kind /\ ops'[j].key = ops[j].key /\ Id(j)' = Id(j)
           /\ ops'[j].result = ops[j].result
           /\ Done(j) => Done(j)'
           /\ \/ j = i /\ ops'[j].phase = "done"
              \/ j # i /\ ops'[j] = ops[j]
              \/ /\ j # i /\ ops[j].phase = "pending" /\ ops'[j] = [ops[j] EXCEPT !.phase = "start"]
                 /\ ops'[j].phase = "start" /\ ops[j].kind \in Mutations
                 /\ queues[Id(i)] # <<>> /\ j = queues[Id(i)][1] /\ Id(j) = Id(i)
  BY FinishKeeps
<1>2. /\ CallTypes /\ JobInv /\ queues \in [Ids -> Seq(Nat)] /\ taken \in Nat
      /\ DOMAIN ops = 1..Len(ops) /\ Len(ops) \in Nat /\ Len(ops') = Len(ops)
  BY OpFacts DEF HybridInv, JobTypes, Finishing
<1>3. /\ ops[i].phase = "finish" /\ ops[i].kind \in Mutations /\ ops[i].result # None
      /\ UNCHANGED <<taken, fence, failures>> /\ Id(i) \in Ids
  BY <1>2, JobFacts DEF Finishing, JobInv, PhaseInv
<1>4. PhaseInv'
  <2>1. PhaseInv
    BY <1>2 DEF JobInv
  <2> QED
    BY <1>1, <1>3, <2>1, SMT DEF PhaseInv, Waiting, Working
<1>5. IntakeInv'
  <2>1. IntakeInv
    BY <1>2 DEF JobInv
  <2>2. fence # None => fence \in DOMAIN ops /\ fence # i /\ ops[fence].phase # "pending"
    BY <1>2, <1>3, <2>1, SMT DEF IntakeInv
  <2>3. \A j \in DOMAIN ops : \A p \in {"queued", "fence", "flush"} :
           ops'[j].phase = p <=> ops[j].phase = p
    BY <1>1, <1>3
  <2> QED
    BY <1>1, <1>2, <1>3, <2>1, <2>2, <2>3 DEF IntakeInv
<1>6. FailureInv'
  <2>1. FailureInv
    BY <1>2 DEF JobInv
  <2> QED
    BY <1>1, <1>3, <2>1, ZenonT(30) DEF FailureInv
<1>7. QueueInv'
  <2> DEFINE q == queues[Id(i)]
  <2>1. QueueInv
    BY <1>2 DEF JobInv
  <2>2. /\ queues' = IF q = <<>> THEN queues ELSE [queues EXCEPT ![Id(i)] = Tail(q)]
        /\ idOf' = idOf
    BY DEF Finishing
  <2>3. q \in Seq(Nat)
    BY <1>2, <1>3
  <2>4. ASSUME NEW id \in Ids, id # Id(i)
        PROVE  /\ \A n \in DOMAIN queues'[id] :
                    /\ queues'[id][n] \in DOMAIN ops' /\ ops'[queues'[id][n]].phase = "pending"
                    /\ idOf'[ops'[queues'[id][n]].key] = id
                    /\ \A m \in 1..(n - 1) : queues'[id][m] < queues'[id][n]
               /\ \A j \in DOMAIN ops' : ops'[j].phase = "pending" /\ Id(j)' = id =>
                    \E n \in DOMAIN queues'[id] : queues'[id][n] = j
               /\ queues'[id] # <<>> => \E j \in RunningJobs' : Id(j)' = id
    <3>1. queues'[id] = queues[id]
      BY <1>2, <2>2, <2>4
    <3>2. ASSUME NEW n \in DOMAIN queues[id]
          PROVE  /\ queues[id][n] \in DOMAIN ops' /\ ops'[queues[id][n]].phase = "pending"
                 /\ idOf'[ops'[queues[id][n]].key] = id
                 /\ \A m \in 1..(n - 1) : queues[id][m] < queues[id][n]
      <4>1. /\ queues[id][n] \in DOMAIN ops /\ ops[queues[id][n]].phase = "pending"
            /\ Id(queues[id][n]) = id
            /\ \A m \in 1..(n - 1) : queues[id][m] < queues[id][n]
        BY <2>1 DEF QueueInv
      <4>2. ops'[queues[id][n]] = ops[queues[id][n]]
        BY <1>1, <2>4, <4>1
      <4> QED
        BY <1>1, <2>2, <4>1, <4>2 DEF Id
    <3>3. ASSUME NEW j \in DOMAIN ops', ops'[j].phase = "pending", Id(j)' = id
          PROVE  \E n \in DOMAIN queues[id] : queues[id][n] = j
      <4>1. ops[j].phase = "pending" /\ Id(j) = id /\ j \in DOMAIN ops
        BY <1>1, <3>3
      <4> QED
        BY <2>1, <4>1 DEF QueueInv
    <3>4. ASSUME queues[id] # <<>> PROVE \E j \in RunningJobs' : Id(j)' = id
      <4>1. PICK j \in RunningJobs : Id(j) = id
        BY <2>1, <3>4 DEF QueueInv
      <4>2. j \in DOMAIN ops /\ ops'[j] = ops[j]
        BY <1>1, <2>4, <4>1 DEF RunningJobs, Waiting
      <4> QED
        BY <1>1, <4>1, <4>2 DEF RunningJobs
    <3> QED
      BY <3>1, <3>2, <3>3, <3>4
  <2>5. ASSUME q = <<>>
        PROVE  /\ queues'[Id(i)] = <<>>
               /\ \A j \in DOMAIN ops' : ~(ops'[j].phase = "pending" /\ Id(j)' = Id(i))
    <3>1. queues'[Id(i)] = <<>>
      BY <2>2, <2>5
    <3>2. \A j \in DOMAIN ops : ~(ops[j].phase = "pending" /\ Id(j) = Id(i))
      BY <1>3, <2>1, <2>5, SMT DEF QueueInv
    <3> QED
      BY <1>1, <3>1, <3>2, SMT
  <2>6. ASSUME q # <<>>
        PROVE  /\ \A n \in DOMAIN queues'[Id(i)] :
                    /\ queues'[Id(i)][n] \in DOMAIN ops' /\ ops'[queues'[Id(i)][n]].phase = "pending"
                    /\ idOf'[ops'[queues'[Id(i)][n]].key] = Id(i)
                    /\ \A m \in 1..(n - 1) : queues'[Id(i)][m] < queues'[Id(i)][n]
               /\ \A j \in DOMAIN ops' : ops'[j].phase = "pending" /\ Id(j)' = Id(i) =>
                    \E n \in DOMAIN queues'[Id(i)] : queues'[Id(i)][n] = j
               /\ \E j \in RunningJobs' : Id(j)' = Id(i)
    <3> DEFINE t == Tail(q)
    <3>1. /\ queues'[Id(i)] = t /\ Len(q) \in Nat /\ Len(q) > 0 /\ DOMAIN q = 1..Len(q)
          /\ DOMAIN t = 1..(Len(q) - 1) /\ \A n \in DOMAIN t : t[n] = q[n + 1] /\ n + 1 \in DOMAIN q
          /\ 1 \in DOMAIN q
      BY <1>2, <1>3, <2>2, <2>3, <2>6, SMT
    <3>2. \A n \in DOMAIN q :
            /\ q[n] \in DOMAIN ops /\ ops[q[n]].phase = "pending" /\ Id(q[n]) = Id(i)
            /\ \A m \in 1..(n - 1) : q[m] < q[n]
      BY <1>3, <2>1 DEF QueueInv
    <3> HIDE DEF q, t
    <3>0. /\ q[1] \in DOMAIN ops /\ ops[q[1]].phase = "pending" /\ ops'[q[1]].phase = "start"
          /\ Id(q[1]) = Id(i)
      <4>1. q[1] \in DOMAIN ops /\ Id(q[1]) = Id(i) /\ ops[q[1]].phase = "pending"
        BY <3>1, <3>2
      <4>2. ops'[q[1]] = [ops[q[1]] EXCEPT !.phase = "start"]
        BY <2>6 DEF Finishing, q
      <4>3. ops[q[1]] \in Op
        BY <1>2, <4>1, OpFacts
      <4>4. ops'[q[1]].phase = "start"
        BY <4>2, <4>3 DEF Op
      <4> QED
        BY <4>1, <4>4
    <3>3. ASSUME NEW n \in DOMAIN t
          PROVE  /\ t[n] \in DOMAIN ops' /\ ops'[t[n]].phase = "pending"
                 /\ idOf'[ops'[t[n]].key] = Id(i)
                 /\ \A m \in 1..(n - 1) : t[m] < t[n]
      <4>1. /\ t[n] \in DOMAIN ops /\ ops[t[n]].phase = "pending" /\ Id(t[n]) = Id(i)
            /\ \A m \in 1..n : q[m] < t[n]
        BY <3>1, <3>2, SMT
      <4>2. q[1] # t[n]
        BY <1>2, <2>3, <3>1, <4>1, SMT
      <4>3. ops'[t[n]] = ops[t[n]]
        BY <1>1, <1>3, <4>1, <4>2 DEF q
      <4>4. \A m \in 1..(n - 1) : m \in DOMAIN t /\ m + 1 \in 1..n
        BY <3>1, SMT
      <4>5. \A m \in 1..(n - 1) : t[m] < t[n]
        BY <3>1, <4>1, <4>4
      <4> QED
        BY <1>1, <2>2, <4>1, <4>3, <4>5 DEF Id
    <3>4. ASSUME NEW j \in DOMAIN ops', ops'[j].phase = "pending", Id(j)' = Id(i)
          PROVE  \E n \in DOMAIN t : t[n] = j
      <4>1. ops[j].phase = "pending" /\ Id(j) = Id(i) /\ j \in DOMAIN ops
        BY <1>1, <3>4
      <4>2. PICK n \in DOMAIN q : q[n] = j
        BY <1>3, <2>1, <4>1 DEF QueueInv, q
      <4>3. q[1] # j
        BY <3>0, <3>4
      <4>4. n - 1 \in DOMAIN t /\ t[n - 1] = j
        BY <3>1, <4>2, <4>3, SMT
      <4> QED
        BY <4>4
    <3>5. \E j \in RunningJobs' : Id(j)' = Id(i)
      <4>1. ops[q[1]].kind \in Mutations
        BY <1>1, <1>3, <3>0
      <4>2. ops'[q[1]].kind \in Mutations /\ q[1] \in RunningJobs'
        BY <1>1, <3>0, <4>1 DEF RunningJobs, Waiting
      <4>3. PICK r : r = q[1]
        OBVIOUS
      <4> QED
        BY <1>1, <3>0, <4>2, <4>3, SMT
    <3> QED
      BY <3>1, <3>3, <3>4, <3>5
  <2> SUFFICES ASSUME NEW id \in Ids
               PROVE  /\ \A n \in DOMAIN queues'[id] :
                           /\ queues'[id][n] \in DOMAIN ops' /\ ops'[queues'[id][n]].phase = "pending"
                           /\ idOf'[ops'[queues'[id][n]].key] = id
                           /\ \A m \in 1..(n - 1) : queues'[id][m] < queues'[id][n]
                      /\ \A j \in DOMAIN ops' : ops'[j].phase = "pending" /\ Id(j)' = id =>
                           \E n \in DOMAIN queues'[id] : queues'[id][n] = j
                      /\ queues'[id] # <<>> => \E j \in RunningJobs' : Id(j)' = id
    BY DEF QueueInv, Id
  <2> HIDE DEF q
  <2>7. CASE id # Id(i)
    BY <2>4, <2>7
  <2>8. CASE id = Id(i) /\ q = <<>>
    BY <2>5, <2>8, SMT
  <2>9. CASE id = Id(i) /\ q # <<>>
    BY <2>6, <2>9
  <2> QED
    BY <2>7, <2>8, <2>9
<1>8. CoordinatorOrder'
  <2>1. CoordinatorOrder
    BY <1>2 DEF JobInv
  <2> SUFFICES ASSUME NEW x \in DOMAIN ops, NEW y \in DOMAIN ops, x < y
               PROVE  /\ Started(y)' /\ Ordered(x, y)' => Done(x)'
                      /\ Reports(x, y)' /\ Done(y)' => ops'[y].result = "error"
    BY <1>1, ZenonT(30) DEF CoordinatorOrder
  <2>2. Ordered(x, y)' <=> Ordered(x, y)
    BY <1>1, SMT DEF Ordered
  <2>3. ASSUME Started(y)', Ordered(x, y)' PROVE Done(x)'
    <3>1. CASE Started(y)
      BY <1>1, <2>1, <2>2, <2>3, <3>1 DEF CoordinatorOrder
    <3>2. CASE ~Started(y)
      <4>1. /\ ops[y].phase = "pending" /\ ops[y].kind \in Mutations /\ queues[Id(i)] # <<>>
            /\ y = queues[Id(i)][1] /\ Id(y) = Id(i)
        BY <1>1, <1>3, <2>3, <3>2 DEF Started
      <4>2. y <= taken /\ x <= taken /\ x \in Nat /\ y \in Nat
        BY <1>2, <4>1, SMT DEF JobInv, IntakeInv
      <4>3. CASE ops[x].kind \notin Mutations
        <5>1. fence # x
          BY <1>2, <4>2, HybridAssumption, SMT DEF JobInv, IntakeInv
        <5> QED
          BY <1>1, <4>2, <4>3, <5>1, TakenFacts
      <4>4. CASE ops[x].kind \in Mutations
        <5>1. Id(x) = Id(i)
          BY <2>2, <2>3, <4>1, <4>4 DEF Ordered
        <5>2. CASE x \in RunningJobs
          <6>1. ops[x].phase \in Working /\ ops[i].phase \in Working
            BY <1>2, <1>3, <5>2 DEF JobInv, PhaseInv, RunningJobs, Working, Waiting
          <6>2. x = i
            BY <5>1, <6>1, Exclusive
          <6> QED
            BY <1>1, <6>2 DEF Done
        <5>3. ASSUME NEW n \in DOMAIN queues[Id(x)], queues[Id(x)][n] = x PROVE FALSE
          <6>1. n \in Nat /\ n >= 1 /\ queues[Id(i)] \in Seq(Nat)
            BY <1>2, <1>3, <5>1, <5>3, SMT
          <6>0. \A k \in DOMAIN queues[Id(i)] : \A m \in 1..(k - 1) :
                   queues[Id(i)][m] < queues[Id(i)][k]
            BY <1>2, <1>3 DEF JobInv, QueueInv
          <6>2. \A m \in 1..(n - 1) : queues[Id(i)][m] < x
            BY <5>1, <5>3, <6>0
          <6>3. CASE n = 1
            BY <4>1, <4>2, <5>1, <5>3, <6>3, SMT
          <6>4. CASE n > 1
            <7>1. 1 \in 1..(n - 1)
              BY <6>1, <6>4, SMT
            <7> QED
              BY <4>1, <4>2, <6>2, <7>1, SMT
          <6> QED
            BY <6>1, <6>3, <6>4, SMT
        <5>4. Done(x) \/ x \in RunningJobs
          BY <4>2, <4>4, <5>3, TakenFacts
        <5> QED
          BY <1>1, <5>2, <5>4
      <4> QED
        BY <4>3, <4>4
    <3> QED
      BY <3>1, <3>2
  <2>4. ASSUME Reports(x, y)', Done(y)' PROVE ops'[y].result = "error"
    <3>1. ops[y].kind \notin Mutations
      BY <1>1, <2>4 DEF Reports
    <3>2. Done(y)
      BY <1>1, <1>3, <2>4, <3>1 DEF Done
    <3>3. \A f \in x..(y - 1) : f \in DOMAIN ops
      BY <1>2, SMT
    <3>4. Reports(x, y)
      BY <1>1, <2>4, <3>3 DEF Reports
    <3> QED
      BY <1>1, <2>1, <3>2, <3>4, SMT DEF CoordinatorOrder
  <2> QED
    BY <2>3, <2>4
<1> QED
  BY <1>4, <1>5, <1>6, <1>7, <1>8 DEF JobInv

\* The coordinator's invariant when a fence begins, which finds everything before it finished,
\* or ends, which reports the failure noted since the fence before.
LEMMA FenceJobs ==
    ASSUME HybridInv, NEW i \in DOMAIN ops, Fences(i)
    PROVE  JobInv'
<1>1. /\ Changed(i) /\ ops[i].kind \notin Mutations /\ fence = i /\ i = taken /\ i \in Nat
      /\ \/ /\ ops[i].phase = "fence" /\ ops'[i].phase = "flush"
            /\ ops'[i].result = ops[i].result /\ fence' = fence /\ failures' = failures
            /\ RunningJobs = {}
         \/ /\ ops[i].phase = "flush" /\ ops'[i].phase = "done"
            /\ ops'[i].result \in {"ok", "error"} /\ fence' = None
            /\ failures # None => ops'[i].result = "error"
            /\ failures' = None
      /\ UNCHANGED <<idOf, taken, queues>>
  BY DEF Fences
<1>2. /\ DOMAIN ops' = DOMAIN ops /\ Len(ops') = Len(ops)
      /\ \A j \in DOMAIN ops :
           /\ ops'[j].kind = ops[j].kind /\ ops'[j].key = ops[j].key /\ Id(j)' = Id(j)
           /\ j # i => ops'[j] = ops[j]
  BY <1>1 DEF Changed, Id
<1>3. /\ CallTypes /\ JobInv /\ taken \in Nat /\ DOMAIN ops = 1..Len(ops) /\ Len(ops) \in Nat
      /\ ops[i].result = None
  BY <1>1, OpFacts DEF HybridInv, JobTypes, JobInv, PhaseInv
<1>4. \A j \in DOMAIN ops : (Done(j) => Done(j)') /\ (j # i => (Started(j)' <=> Started(j)))
  BY <1>1, <1>2 DEF Done, Started
<1>5. PhaseInv'
  <2>1. PhaseInv
    BY <1>3 DEF JobInv
  <2>2. /\ ops'[i].phase \in {"flush", "done"}
        /\ ops'[i].result = None <=> ops'[i].phase = "flush"
    BY <1>1, <1>3, HybridAssumption
  <2> QED
    BY <1>1, <1>2, <2>1, <2>2, SMT DEF PhaseInv
<1>6. IntakeInv'
  <2>1. IntakeInv /\ i # None
    BY <1>1, <1>3, HybridAssumption DEF JobInv
  <2>2. \A j \in DOMAIN ops : ops[j].phase \in {"fence", "flush"} => j = i
    BY <1>1, <2>1 DEF IntakeInv
  <2>3. /\ \A j \in DOMAIN ops' : ops'[j].phase = "queued" <=> j > taken'
        /\ taken' <= Len(ops')
    BY <1>1, <1>2, <2>1, SMT DEF IntakeInv
  <2>4. /\ \A j \in DOMAIN ops' : ops'[j].phase \in {"fence", "flush"} => fence' = j
        /\ fence' # None => /\ fence' = taken' /\ taken' > 0
                            /\ ops'[fence'].phase \in {"fence", "flush"}
    BY <1>1, <1>2, <1>3, <2>1, <2>2, SMT
  <2> QED
    BY <2>3, <2>4 DEF IntakeInv
<1>7. RunningJobs' = RunningJobs
  BY <1>1, <1>2 DEF RunningJobs
<1>8. QueueInv'
  <2>1. QueueInv
    BY <1>3 DEF JobInv
  <2> SUFFICES ASSUME NEW id \in Ids
               PROVE  /\ \A n \in DOMAIN queues[id] :
                           /\ queues[id][n] \in DOMAIN ops' /\ ops'[queues[id][n]].phase = "pending"
                           /\ idOf'[ops'[queues[id][n]].key] = id
                           /\ \A m \in 1..(n - 1) : queues[id][m] < queues[id][n]
                      /\ \A j \in DOMAIN ops' : ops'[j].phase = "pending" /\ Id(j)' = id =>
                           \E n \in DOMAIN queues[id] : queues[id][n] = j
                      /\ queues[id] # <<>> => \E j \in RunningJobs' : Id(j)' = id
    BY <1>1, ZenonT(30) DEF QueueInv, Id
  <2>2. ASSUME NEW n \in DOMAIN queues[id]
        PROVE  /\ queues[id][n] \in DOMAIN ops' /\ ops'[queues[id][n]].phase = "pending"
               /\ idOf'[ops'[queues[id][n]].key] = id
               /\ \A m \in 1..(n - 1) : queues[id][m] < queues[id][n]
    <3>1. /\ queues[id][n] \in DOMAIN ops /\ ops[queues[id][n]].phase = "pending"
          /\ idOf[ops[queues[id][n]].key] = id
          /\ \A m \in 1..(n - 1) : queues[id][m] < queues[id][n]
      BY <2>1 DEF QueueInv, Id
    <3>2. ops'[queues[id][n]] = ops[queues[id][n]]
      BY <1>1, <1>2, <3>1
    <3> QED
      BY <1>1, <1>2, <3>1, <3>2
  <2>3. ASSUME NEW j \in DOMAIN ops', ops'[j].phase = "pending", Id(j)' = id
        PROVE  \E n \in DOMAIN queues[id] : queues[id][n] = j
    BY <1>1, <1>2, <2>1, <2>3, SMT DEF QueueInv
  <2>4. ASSUME queues[id] # <<>> PROVE \E j \in RunningJobs' : Id(j)' = id
    <3>1. PICK j \in RunningJobs : Id(j) = id
      BY <2>1, <2>4 DEF QueueInv
    <3> QED
      BY <1>2, <1>7, <3>1 DEF RunningJobs
  <2> QED
    BY <2>2, <2>3, <2>4
<1>9. \A x \in DOMAIN ops : ops[x].kind \in Mutations /\ Failed(ops[x].result) => x < i
  <2> SUFFICES ASSUME NEW x \in DOMAIN ops, ops[x].kind \in Mutations, Failed(ops[x].result)
               PROVE  x < i
    OBVIOUS
  <2>1. ops[x].phase # "queued"
    BY <1>3, HybridAssumption DEF JobInv, PhaseInv, Failed
  <2>2. x <= taken /\ x # i
    BY <1>1, <1>3, <2>1, SMT DEF JobInv, IntakeInv
  <2> QED
    BY <1>1, <1>3, <2>2, SMT
<1>10. FailureInv'
  <2>1. CASE ops'[i].phase = "flush"
    BY <1>1, <1>2, <1>3, <1>4, <2>1 DEF JobInv, FailureInv
  <2>2. CASE ops'[i].phase = "done"
    <3>1. i \in DOMAIN ops' /\ ops'[i].kind \notin Mutations /\ Done(i)'
      BY <1>1, <1>2, <2>2 DEF Done
    <3>2. \A x \in DOMAIN ops' : ops'[x].kind \in Mutations /\ Failed(ops'[x].result) => i > x
      BY <1>1, <1>2, <1>3, <1>9
    <3> QED
      BY <3>1, <3>2 DEF FailureInv
  <2> QED
    BY <1>1, <2>1, <2>2
<1>11. CoordinatorOrder'
  <2>1. CoordinatorOrder
    BY <1>3 DEF JobInv
  <2> SUFFICES ASSUME NEW x \in DOMAIN ops, NEW y \in DOMAIN ops, x < y
               PROVE  /\ Started(y)' /\ Ordered(x, y)' => Done(x)'
                      /\ Reports(x, y)' /\ Done(y)' => ops'[y].result = "error"
    BY <1>2 DEF CoordinatorOrder
  <2>2. Ordered(x, y)' <=> Ordered(x, y)
    BY <1>2 DEF Ordered
  <2>3. ASSUME Started(y)', Ordered(x, y)' PROVE Done(x)'
    <3>1. CASE Started(y)
      BY <1>4, <2>1, <2>2, <2>3, <3>1 DEF CoordinatorOrder
    <3>2. CASE ~Started(y)
      <4>1. y = i /\ RunningJobs = {}
        BY <1>1, <1>4, <2>3, <3>2 DEF Started
      <4>2. x <= taken /\ fence # x
        BY <1>1, <1>3, <4>1, SMT
      <4>3. ASSUME ops[x].kind \in Mutations, NEW n \in DOMAIN queues[Id(x)],
                   queues[Id(x)][n] = x
            PROVE  FALSE
        <5>1. Id(x) \in Ids /\ queues \in [Ids -> Seq(Nat)]
          BY <4>3, JobFacts DEF HybridInv, JobTypes
        <5>2. queues[Id(x)] # <<>>
          BY <4>3, <5>1, SMT
        <5> QED
          BY <1>3, <4>1, <5>1, <5>2 DEF JobInv, QueueInv
      <4> QED
        BY <1>4, <4>1, <4>2, <4>3, TakenFacts
    <3> QED
      BY <3>1, <3>2
  <2>4. ASSUME Reports(x, y)', Done(y)' PROVE ops'[y].result = "error"
    <3>1. /\ ops[y].kind \notin Mutations /\ ops[x].kind \in Mutations /\ x # i
          /\ Failed(ops[x].result)
      BY <1>1, <1>2, <2>4 DEF Reports
    <3>2. \A f \in x..(y - 1) : f \in DOMAIN ops /\ ops[f].kind \in Mutations
      <4>1. \A f \in x..(y - 1) : f \in DOMAIN ops
        BY <1>3, SMT
      <4> QED
        BY <1>2, <2>4, <4>1 DEF Reports
    <3>3. CASE y = i
      <4>1. ops[i].phase = "flush" /\ (failures # None => ops'[i].result = "error")
        BY <1>1, <2>4, <3>3 DEF Done
      <4>2. ASSUME NEW f \in DOMAIN ops, f > x, ops[f].kind \notin Mutations, Done(f) PROVE FALSE
        <5>1. f # i /\ ~(f > i)
          BY <1>1, <1>3, <4>1, <4>2 DEF Done, JobInv, IntakeInv
        <5>2. f \in x..(y - 1)
          BY <1>1, <1>3, <3>3, <4>2, <5>1, SMT
        <5> QED
          BY <3>2, <4>2, <5>2
      <4>3. failures # None
        BY <1>3, <3>1, <4>2 DEF JobInv, FailureInv
      <4> QED
        BY <3>3, <4>1, <4>3
    <3>4. CASE y # i
      <4>1. Reports(x, y) /\ Done(y)
        BY <1>2, <2>4, <3>1, <3>2, <3>4 DEF Reports, Done
      <4> QED
        BY <1>2, <2>1, <3>4, <4>1 DEF CoordinatorOrder
    <3> QED
      BY <3>3, <3>4
  <2> QED
    BY <2>3, <2>4
<1> QED
  BY <1>5, <1>6, <1>8, <1>10, <1>11 DEF JobInv

\* Steps that do not touch the coordinator's state keep its invariant.
LEMMA SameJobs ==
    ASSUME JobInv, UNCHANGED <<idOf, ops, taken, queues, fence, failures>>
    PROVE  JobInv'
<1>1. PhaseInv'
  BY DEF JobInv, PhaseInv
<1>2. IntakeInv'
  BY DEF JobInv, IntakeInv
<1>3. QueueInv'
  BY SMT DEF JobInv, QueueInv, Id, RunningJobs
<1>4. FailureInv'
  BY DEF JobInv, FailureInv, Done
<1>5. CoordinatorOrder'
  BY SMT DEF JobInv, CoordinatorOrder, Started, Done, Ordered, Reports, Id
<1> QED
  BY <1>1, <1>2, <1>3, <1>4, <1>5 DEF JobInv

\* Every part of a job that waits for nothing else is a Moved step.
LEMMA JobbingMoves ==
    ASSUME NEW i, Jobbing(i)
    PROVE  Moved(i)
  BY DEF Jobbing, Reserving, Evicting, Putting, Publishing, Versioning, Getting, Deleting

\* Serving a request of the store leaves everything but the store's own state alone.
LEMMA ServingLeaves ==
    ASSUME NEW id, NEW r, NEW a, Serving(id, r, a)
    PROVE  /\ UNCHANGED <<idOf, memory, registry, admission, ops, taken, queues, fence, failures, control>>
           /\ UNCHANGED <<catalog, lookups>>
<1>1. UNCHANGED <<idOf, memory, registry, admission, ops, taken, queues, fence, failures, control>>
  BY ZenonT(30) DEF Serving
<1>2. UNCHANGED <<catalog, lookups>>
  BY ZenonT(30) DEF Serving
<1> QED
  BY <1>1, <1>2

\* The coordinator's part of the invariant.
LEMMA JobsKept ==
    ASSUME HybridInv, Stepping
    PROVE  JobInv'
<1>1. ASSUME NEW i \in DOMAIN ops, Jobbing(i) PROVE JobInv'
  BY <1>1, JobbingMoves, MovedContinues, ContinuesJobs
<1>2. ASSUME NEW i \in DOMAIN ops, Releasing(i) PROVE JobInv'
  <2>1. Continues(i)
    <3>1. ops[i].result # None
      BY <1>2 DEF Releasing, HybridInv, JobInv, PhaseInv
    <3> QED
      BY <1>2, <3>1 DEF Releasing, Continues, Working
  <2> QED
    BY <2>1, ContinuesJobs
<1>3. ASSUME NEW i \in DOMAIN ops, Ending(i) PROVE JobInv'
  BY <1>3, FinishingJobs DEF Ending
<1>4. ASSUME NEW i \in DOMAIN ops, Fenced(i) PROVE JobInv'
  BY <1>4, FenceJobs DEF Fenced
<1>5. ASSUME NEW i \in DOMAIN ops, TakenUp(i) PROVE JobInv'
  BY <1>5, TakingJobs DEF TakenUp
<1>6. ASSUME Added PROVE JobInv'
  BY <1>6, AddedJobs
<1>7. ASSUME UNCHANGED <<idOf, ops, taken, queues, fence, failures>> PROVE JobInv'
  BY <1>7, SameJobs DEF HybridInv
<1>8. ASSUME NEW n, (\E k \in Keys : Mutating(n, k)) \/ (\E l \in Lookups : Filling(n, l)) \/ Fencing(n)
      PROVE  Added
  BY <1>8 DEF Mutating, Filling, Fencing, Admitting
<1>9. ASSUME \/ \E l \in Lookups : \E x : Looks(l, x)
             \/ \E k \in Keys : Forgetting(k)
             \/ Trimming \/ TrimAnswered
             \/ \E id \in Ids : \E r, a : Serving(id, r, a)
      PROVE  UNCHANGED <<idOf, ops, taken, queues, fence, failures>>
  <2>1. CASE \E l \in Lookups : \E x : Looks(l, x)
    BY <2>1 DEF Looks
  <2>2. CASE \E k \in Keys : Forgetting(k)
    BY <2>2 DEF Forgetting
  <2>3. CASE Trimming \/ TrimAnswered
    BY <2>3 DEF Trimming, TrimAnswered
  <2>4. CASE \E id \in Ids : \E r, a : Serving(id, r, a)
    BY <2>4, ServingLeaves
  <2> QED
    BY <1>9, <2>1, <2>2, <2>3, <2>4
<1> QED
  BY <1>1, <1>2, <1>3, <1>4, <1>5, <1>6, <1>7, <1>8, <1>9 DEF Stepping

(***************************************************************************)
(* Freshness of memory and of fills                                        *)
(***************************************************************************)
\* Operations are only added, and an outcome stays what it is.
LEMMA OpsKept ==
    ASSUME HybridInv, Stepping
    PROVE  Kept
<1>1. /\ CallTypes /\ JobInv /\ ops \in Seq(Op) /\ Len(ops) <= MaxOps
      /\ \A j \in DOMAIN ops : ops[j] \in Op
  BY OpFacts DEF HybridInv, CallTypes
<1>2. ASSUME NEW i \in DOMAIN ops, Changed(i), idOf' = idOf,
             ops[i].result # None => ops'[i].result = ops[i].result, Done(i) => Done(i)',
             ops[i].phase \in {"finish", "done"} => ops'[i].phase \in {"finish", "done"},
             ops'[i].born \in {ops[i].born, None},
             ops[i].kind \in Mutations /\ ops'[i].phase # "done" => ops'[i].generation = ops[i].generation
      PROVE  Kept
  <2>1. /\ DOMAIN ops' = DOMAIN ops /\ Len(ops') = Len(ops) /\ ops' \in Seq(Op)
        /\ \A j \in DOMAIN ops :
             /\ ops'[j].kind = ops[j].kind /\ ops'[j].key = ops[j].key /\ ops'[j].len = ops[j].len
             /\ j # i => ops'[j] = ops[j]
    BY <1>2 DEF Changed
  <2>2. \A j \in DOMAIN ops : Id(j)' = Id(j)
    BY <1>2, <2>1 DEF Id
  <2>3. ASSUME NEW j \in DOMAIN ops PROVE KeepsOp(j)
    <3>1. CASE j = i
      BY <1>2, <2>1, <2>2, <3>1 DEF KeepsOp
    <3>2. CASE j # i
      BY <2>1, <2>2, <3>2 DEF KeepsOp, Done
    <3> QED
      BY <3>1, <3>2
  <2> QED
    BY <1>1, <1>2, <2>1, <2>3 DEF Kept
<1>3. ASSUME NEW i \in DOMAIN ops, Jobbing(i) PROVE Kept
  <2>1. Moved(i) /\ Changed(i) /\ ops[i].result = None /\ idOf' = idOf
    BY <1>1, <1>3, JobbingMoves DEF Moved, JobInv, PhaseInv, Working
  <2>2. ops[i].phase \notin {"finish", "done"} /\ ~Done(i)
    BY <2>1 DEF Moved, Done, Working
  <2> QED
    BY <1>2, <2>1, <2>2 DEF Moved
<1>4. ASSUME NEW i \in DOMAIN ops, Releasing(i) PROVE Kept
  <2>1. /\ Changed(i) /\ idOf' = idOf /\ ops[i].phase = "release"
        /\ ops'[i].result = ops[i].result /\ ops'[i].born = ops[i].born
        /\ ops'[i].generation = ops[i].generation
    BY <1>4 DEF Releasing
  <2>2. ~Done(i)
    BY <2>1 DEF Done
  <2> QED
    BY <1>2, <2>1, <2>2
<1>5. ASSUME NEW i \in DOMAIN ops, Ending(i) PROVE Kept
  <2>1. Finishing(i)
    BY <1>5 DEF Ending
  <2>2. /\ idOf' = idOf /\ ops' \in Seq(Op) /\ Len(ops') = Len(ops) /\ ops'[i].born = None
        /\ ops'[i].len = ops[i].len
    BY <2>1 DEF Finishing
  <2>3. /\ DOMAIN ops' = DOMAIN ops
        /\ \A j \in DOMAIN ops :
             /\ ops'[j].kind = ops[j].kind /\ ops'[j].key = ops[j].key /\ Id(j)' = Id(j)
             /\ ops'[j].result = ops[j].result
             /\ Done(j) => Done(j)'
             /\ \/ j = i /\ ops'[j].phase = "done"
                \/ j # i /\ ops'[j] = ops[j]
                \/ j # i /\ ops[j].phase = "pending" /\ ops'[j] = [ops[j] EXCEPT !.phase = "start"]
    BY <2>1, FinishKeeps
  <2>4. ASSUME NEW j \in DOMAIN ops PROVE KeepsOp(j)
    <3>1. CASE j = i
      BY <2>2, <2>3, <3>1 DEF KeepsOp
    <3>2. CASE j # i /\ ops'[j] = ops[j]
      BY <2>3, <3>2 DEF KeepsOp
    <3>3. CASE ops[j].phase = "pending" /\ ops'[j] = [ops[j] EXCEPT !.phase = "start"]
      <4>1. /\ ops'[j].len = ops[j].len /\ ops'[j].born = ops[j].born
            /\ ops'[j].generation = ops[j].generation
        BY <1>1, <3>3 DEF Op
      <4> QED
        BY <2>3, <3>3, <4>1 DEF KeepsOp
    <3> QED
      BY <2>3, <3>1, <3>2, <3>3
  <2> QED
    BY <1>1, <2>2, <2>3, <2>4 DEF Kept
<1>6. ASSUME NEW i \in DOMAIN ops, Fenced(i) PROVE Kept
  <2>1. Fences(i)
    BY <1>6 DEF Fenced
  <2>2. /\ Changed(i) /\ ops[i].kind \notin Mutations /\ ops'[i].born = ops[i].born /\ idOf' = idOf
        /\ ops[i].phase \in {"fence", "flush"}
    BY <2>1 DEF Fences
  <2>3. ops[i].result = None /\ ~Done(i)
    BY <1>1, <2>2 DEF JobInv, PhaseInv, Done
  <2> QED
    BY <1>2, <2>2, <2>3
<1>7. ASSUME NEW i \in DOMAIN ops, TakenUp(i) PROVE Kept
  <2>1. /\ Changed(i) /\ idOf' = idOf /\ ops[i].phase = "queued"
        /\ ops'[i].result = ops[i].result /\ ops'[i].born = ops[i].born
        /\ ops'[i].generation = ops[i].generation
    BY <1>7 DEF TakenUp, Taking
  <2>2. ~Done(i)
    BY <2>1 DEF Done
  <2> QED
    BY <1>2, <2>1, <2>2
<1>8. ASSUME Added PROVE Kept
  <2>1. /\ idOf' = idOf /\ ops' \in Seq(Op) /\ Len(ops') <= MaxOps /\ DOMAIN ops \subseteq DOMAIN ops'
        /\ \A j \in DOMAIN ops : ops'[j] = ops[j]
    BY <1>8 DEF Added
  <2>2. \A j \in DOMAIN ops : KeepsOp(j)
    BY <2>1 DEF KeepsOp, Id, Done
  <2> QED
    BY <1>8, <2>1, <2>2 DEF Kept
<1>9. ASSUME idOf' = idOf, ops' = ops PROVE Kept
  <2>1. \A j \in DOMAIN ops : KeepsOp(j)
    BY <1>9 DEF KeepsOp, Id, Done
  <2> QED
    BY <1>1, <1>9, <2>1 DEF Kept
<1>10. ASSUME NEW n, (\E k \in Keys : Mutating(n, k)) \/ (\E l \in Lookups : Filling(n, l)) \/ Fencing(n)
       PROVE  Added
  BY <1>10 DEF Mutating, Filling, Fencing, Admitting
<1>11. CASE \E l \in Lookups : \E x : Looks(l, x)
  BY <1>9, <1>11 DEF Looks
<1>12. CASE \E k \in Keys : Forgetting(k)
  BY <1>9, <1>12 DEF Forgetting
<1>13. CASE Trimming \/ TrimAnswered
  BY <1>9, <1>13 DEF Trimming, TrimAnswered
<1>14. CASE \E id \in Ids : \E r, a : Serving(id, r, a)
  BY <1>9, <1>14, ServingLeaves
<1> QED
  BY <1>3, <1>4, <1>5, <1>6, <1>7, <1>8, <1>10, <1>11, <1>12, <1>13, <1>14 DEF Stepping

\* The mutations of a key stay its mutations, and only an admission adds one.
LEMMA OpsOfKept ==
    ASSUME Kept, NEW k
    PROVE  /\ OpsOf(k) \subseteq OpsOf(k)'
           /\ \A j \in DOMAIN ops : j \in OpsOf(k)' <=> j \in OpsOf(k)
           /\ DOMAIN ops' = DOMAIN ops => OpsOf(k)' = OpsOf(k)
  BY DEF Kept, KeepsOp, OpsOf

\* What can be served can be served until a mutation of the key is admitted.
LEMMA ServesKept ==
    ASSUME Kept, NEW k, NEW v, Serves(k, v), \A j \in OpsOf(k)' : j \in DOMAIN ops,
           None \notin {"error", "corrupt", "ok", "unwound"}
    PROVE  Serves(k, v)'
<1>1. OpsOf(k)' = OpsOf(k)
  BY OpsOfKept
<1>2. \A j \in OpsOf(k) : ops[j].result # None => ops'[j].result = ops[j].result
  BY DEF Kept, KeepsOp, OpsOf
<1>3. \A j \in OpsOf(k) : j > v => Failed(ops'[j].result)
  BY <1>2 DEF Serves, Failed
<1>4. v = 0 \/ (v \in OpsOf(k) /\ ops'[v].result \in {"ok", "unwound"})
  BY <1>2 DEF Serves
<1> QED
  BY <1>1, <1>3, <1>4 DEF Serves

\* Cache's memory never holds a value that was replaced: it is emptied when a mutation is
\* admitted, and only the newest mutation or a lookup that saw none since fills it.
LEMMA MemoryKept ==
    ASSUME HybridInv, Stepping, Kept
    PROVE  memory' \in [Keys -> Nat \cup {None}] /\ MemoryInv'
<1>1. memory \in [Keys -> Nat \cup {None}] /\ MemoryInv /\ None \notin {"error", "corrupt", "ok", "unwound"}
  BY HybridAssumption DEF HybridInv, CallTypes
<1>2. ASSUME memory' \in [Keys -> Nat \cup {None}], NEW k \in Keys, memory'[k] \in {memory[k], None},
             memory'[k] # None => \A j \in OpsOf(k)' : j \in DOMAIN ops
      PROVE  (memory[k] # None => Serves(k, memory[k]))'
  <2>1. SUFFICES ASSUME memory'[k] # None, memory'[k] = memory[k] PROVE Serves(k, memory[k])'
    BY <1>2 DEF Serves
  <2>2. PICK v : v = memory[k]
    OBVIOUS
  <2>3. Serves(k, v)
    BY <1>1, <2>1, <2>2 DEF MemoryInv
  <2>4. Serves(k, v)'
    BY <1>1, <1>2, <2>1, <2>3, ServesKept
  <2>5. memory'[k] = v
    BY <2>1, <2>2
  <2> QED
    BY <2>1, <2>4, <2>5 DEF Serves
<1>3. ASSUME memory' \in [Keys -> Nat \cup {None}], \A k \in Keys : memory'[k] \in {memory[k], None},
             DOMAIN ops' = DOMAIN ops
      PROVE  MemoryInv'
  <2>1. \A k \in Keys : \A j \in OpsOf(k)' : j \in DOMAIN ops
    BY <1>3 DEF OpsOf
  <2> QED
    BY <1>2, <1>3, <2>1 DEF MemoryInv
<1>4. DOMAIN ops' = DOMAIN ops => \A k : \A j \in OpsOf(k)' : j \in DOMAIN ops
  BY DEF OpsOf
<1>5. ASSUME NEW i \in DOMAIN ops, Jobbing(i)
      PROVE  memory' \in [Keys -> Nat \cup {None}] /\ MemoryInv'
  <2>1. Moved(i)
    BY <1>5, JobbingMoves
  <2>2. /\ DOMAIN ops' = DOMAIN ops /\ i \in Nat /\ ops[i].key \in Keys
        /\ ops'[i].kind = ops[i].kind /\ ops'[i].key = ops[i].key /\ ops[i].kind \in Mutations
    BY <2>1, JobFacts DEF Moved, Changed
  <2>3. CASE memory' = memory
    BY <1>1, <1>3, <2>2, <2>3
  <2>4. CASE Publishing(i) /\ memory' # memory
    <3> DEFINE k == ops[i].key
    <3>1. /\ Publishes(i) /\ ops[i].phase = "publish" /\ ops'[i].result \in {"ok", "unwound"}
      BY <2>4 DEF Publishing
    <3>2. PICK v \in {i, None} : memory' = [memory EXCEPT ![k] = v]
      BY <2>4, <3>1 DEF Publishing
    <3>3. memory' \in [Keys -> Nat \cup {None}]
      BY <1>1, <2>2, <3>2
    <3>4. i \in OpsOf(k) /\ i \in Holders(k)
      BY <2>2, <3>1 DEF OpsOf, Holders
    <3>5. registry[k] # None /\ registry[k].generation \in Nat
      BY <2>2, <3>4, HolderFacts DEF KeyInv
    <3>6. \A j \in OpsOf(k) : ~(j > i)
      <4>1. \A j \in OpsOf(k) : j > i => ops[i].generation < registry[k].generation
        BY <2>2, <3>1, <3>4, <3>5 DEF HybridInv, GenerationInv
      <4>2. registry[k].generation = ops[i].generation
        BY <3>1 DEF Publishes
      <4> QED
        BY <3>5, <4>1, <4>2, SMT
    <3>7. OpsOf(k)' = OpsOf(k)
      BY <2>2, OpsOfKept
    <3>8. Serves(k, i)'
      BY <3>1, <3>4, <3>6, <3>7 DEF Serves
    <3>9. ASSUME NEW y \in Keys, memory'[y] # None PROVE Serves(y, memory[y])'
      <4>1. CASE y # k
        <5>1. memory'[y] = memory[y]
          BY <1>1, <3>2, <4>1
        <5> QED
          BY <1>2, <1>4, <2>2, <3>3, <3>9, <5>1
      <4>2. CASE y = k
        <5>1. memory'[k] = i
          BY <1>1, <2>2, <3>2, <3>9, <4>2
        <5>2. Serves(k, memory[k])'
          BY <2>2, <3>8, <5>1 DEF Serves
        <5> QED
          BY <2>2, <4>2, <5>2
      <4> QED
        BY <4>1, <4>2
    <3> QED
      BY <3>3, <3>9 DEF MemoryInv
  <2>5. memory' = memory \/ Publishing(i)
    BY <1>5 DEF Jobbing, Reserving, Evicting, Putting, Versioning, Getting, Deleting
  <2> QED
    BY <2>3, <2>4, <2>5
<1>6. ASSUME NEW i \in DOMAIN ops, Releasing(i) \/ Ending(i) \/ Fenced(i) \/ TakenUp(i)
      PROVE  memory' \in [Keys -> Nat \cup {None}] /\ MemoryInv'
  <2>1. memory' \in {memory, [k \in Keys |-> None]}
    BY <1>6 DEF Releasing, Ending, Fenced, TakenUp
  <2>2. DOMAIN ops' = DOMAIN ops
    <3>1. CASE Releasing(i)
      BY <3>1 DEF Releasing, Changed
    <3>2. CASE Ending(i)
      BY <3>2 DEF Ending, Finishing
    <3>3. CASE Fenced(i)
      BY <3>3 DEF Fenced, Fences, Changed
    <3>4. CASE TakenUp(i)
      BY <3>4 DEF TakenUp, Taking, Changed
    <3> QED
      BY <1>6, <3>1, <3>2, <3>3, <3>4
  <2>3. memory' \in [Keys -> Nat \cup {None}] /\ \A k \in Keys : memory'[k] \in {memory[k], None}
    BY <1>1, <2>1
  <2> QED
    BY <1>3, <2>2, <2>3
<1>7. ASSUME NEW n, NEW k \in Keys, NEW e, Admitting(n, k, e)
      PROVE  memory' \in [Keys -> Nat \cup {None}] /\ MemoryInv'
  <2>1. /\ memory' = [memory EXCEPT ![k] = None] /\ ops'[n].key = k
        /\ DOMAIN ops' = DOMAIN ops \cup {n}
    BY <1>7 DEF Admitting, Added
  <2>2. memory' \in [Keys -> Nat \cup {None}] /\ memory'[k] = None
    BY <1>1, <2>1
  <2>3. ASSUME NEW y \in Keys, memory'[y] # None PROVE Serves(y, memory[y])'
    <3>1. y # k /\ memory'[y] = memory[y]
      BY <1>1, <2>1, <2>2, <2>3
    <3>2. \A j \in OpsOf(y)' : j \in DOMAIN ops
      BY <2>1, <3>1 DEF OpsOf
    <3> QED
      BY <1>2, <2>2, <2>3, <3>1, <3>2
  <2> QED
    BY <2>2, <2>3 DEF MemoryInv
<1>8. ASSUME NEW n, Fencing(n)
      PROVE  memory' \in [Keys -> Nat \cup {None}] /\ MemoryInv'
  <2>1. memory' = memory /\ ops'[n].kind \notin Mutations /\ DOMAIN ops' = DOMAIN ops \cup {n}
    BY <1>8 DEF Fencing, Added
  <2>2. \A k : \A j \in OpsOf(k)' : j \in DOMAIN ops
    BY <2>1 DEF OpsOf
  <2>3. \A k \in Keys : (memory[k] # None => Serves(k, memory[k]))'
    BY <1>1, <1>2, <2>1, <2>2
  <2> QED
    BY <1>1, <2>1, <2>3 DEF MemoryInv
<1>9. ASSUME NEW l \in Lookups, NEW x, Looks(l, x)
      PROVE  memory' \in [Keys -> Nat \cup {None}] /\ MemoryInv'
  <2> DEFINE k == lookups[l].key
  <2>1. ops' = ops
    BY <1>9 DEF Looks
  <2>2. CASE memory' = memory
    BY <1>1, <1>3, <2>1, <2>2
  <2>3. CASE memory' # memory
    <3>1. lookups[l].pc = "read"
      BY <1>9, <2>3 DEF Looks
    <3>2. k \in Keys
      BY <3>1, LookupFacts
    <3>3. PICK v \in Nat \cup {None} : memory' = [memory EXCEPT ![k] = v] /\ (v # None => Serves(k, v))
      BY <1>9, <2>3 DEF Looks
    <3>4. memory' \in [Keys -> Nat \cup {None}]
      BY <1>1, <3>2, <3>3
    <3>5. \A y \in Keys : \A w : Serves(y, w)' <=> Serves(y, w)
      BY <2>1 DEF Serves, OpsOf
    <3>6. \A y \in Keys : memory'[y] # None => Serves(y, memory'[y])
      <4>1. \A y \in Keys : memory'[y] = IF y = k THEN v ELSE memory[y]
        BY <1>1, <3>3
      <4> QED
        BY <1>1, <3>3, <4>1 DEF MemoryInv
    <3>7. \A y \in Keys : (memory[y] # None => Serves(y, memory[y]))'
      BY <2>1, <3>6 DEF Serves, OpsOf
    <3> QED
      BY <3>4, <3>7 DEF MemoryInv
  <2> QED
    BY <2>2, <2>3
<1>10. ASSUME NEW k \in Keys, Forgetting(k)
       PROVE  memory' \in [Keys -> Nat \cup {None}] /\ MemoryInv'
  <2>1. memory' = [memory EXCEPT ![k] = None] /\ ops' = ops
    BY <1>10 DEF Forgetting
  <2>2. memory' \in [Keys -> Nat \cup {None}] /\ \A y \in Keys : memory'[y] \in {memory[y], None}
    BY <1>1, <2>1
  <2> QED
    BY <1>3, <2>1, <2>2
<1>11. ASSUME Trimming \/ TrimAnswered \/ \E id \in Ids : \E r, a : Serving(id, r, a)
       PROVE  memory' \in [Keys -> Nat \cup {None}] /\ MemoryInv'
  <2>1. memory' = memory /\ ops' = ops
    BY <1>11, ServingLeaves DEF Trimming, TrimAnswered
  <2> QED
    BY <1>1, <1>3, <2>1
<1>12. \A n, l : Filling(n, l) => Admitting(n, lookups[l].key, advance(registry[lookups[l].key]))
                                  /\ lookups[l].key \in Keys
  BY DEF Filling, Admitting
<1> QED
  BY <1>5, <1>6, <1>7, <1>8, <1>9, <1>10, <1>11, <1>12 DEF Stepping, Mutating

\* The steps of lookups, of the memory cache, of Cache::new and of the store leave the
\* operations as they are.
LEMMA CallsLeave ==
    ASSUME (\E l \in Lookups : \E x : Looks(l, x)) \/ (\E k \in Keys : Forgetting(k))
           \/ Trimming \/ TrimAnswered \/ \E id \in Ids : \E r, a : Serving(id, r, a)
    PROVE  UNCHANGED <<idOf, ops, taken, queues, fence, failures>>
<1>1. CASE \E l \in Lookups : \E x : Looks(l, x)
  BY <1>1 DEF Looks
<1>2. CASE \E k \in Keys : Forgetting(k)
  BY <1>2 DEF Forgetting
<1>3. CASE Trimming
  BY <1>3 DEF Trimming
<1>4. CASE TrimAnswered
  BY <1>4 DEF TrimAnswered
<1>5. CASE \E id \in Ids : \E r, a : Serving(id, r, a)
  BY <1>5, ServingLeaves
<1> QED
  BY <1>1, <1>2, <1>3, <1>4, <1>5

\* Only an admission makes an operation; everybody else leaves their number as it is.
LEMMA OpsMade ==
    ASSUME HybridInv, Stepping
    PROVE  \/ DOMAIN ops' = DOMAIN ops
           \/ \E n \in Nat : /\ n = Len(ops) + 1 /\ DOMAIN ops' = DOMAIN ops \cup {n}
                             /\ \/ \E k \in Keys : Mutating(n, k)
                                \/ \E l \in Lookups : Filling(n, l)
                                \/ Fencing(n)
<1>1. ASSUME NEW i \in DOMAIN ops, Jobbing(i) PROVE DOMAIN ops' = DOMAIN ops
  BY <1>1, JobbingMoves DEF Moved, Changed
<1>2. ASSUME NEW i \in DOMAIN ops, Releasing(i) \/ Ending(i) \/ TakenUp(i)
      PROVE  DOMAIN ops' = DOMAIN ops
  BY <1>2 DEF Releasing, Ending, TakenUp, Finishing, Taking, Changed
<1>3. ASSUME NEW i \in DOMAIN ops, Fenced(i) PROVE DOMAIN ops' = DOMAIN ops
  BY <1>3 DEF Fenced, Fences, Changed
<1>4. ASSUME NEW n, \/ \E k \in Keys : Mutating(n, k)
                    \/ \E l \in Lookups : Filling(n, l)
                    \/ Fencing(n)
      PROVE  n = Len(ops) + 1 /\ DOMAIN ops' = DOMAIN ops \cup {n}
  BY <1>4 DEF Mutating, Filling, Admitting, Fencing, Added
<1>5. ASSUME (\E l \in Lookups : \E x : Looks(l, x)) \/ (\E k \in Keys : Forgetting(k))
             \/ Trimming \/ TrimAnswered \/ \E id \in Ids : \E r, a : Serving(id, r, a)
      PROVE  DOMAIN ops' = DOMAIN ops
  BY <1>5, CallsLeave
<1> QED
  BY <1>1, <1>2, <1>3, <1>4, <1>5 DEF Stepping

\* A fill is admitted only when no mutation of its key came between the miss and the fill,
\* although the key's state may have gone and come back: FillToken keeps its lease.
LEMMA FillsKept ==
    ASSUME HybridInv, Stepping, Kept
    PROVE  FillsFresh'
<1>1. SUFFICES ASSUME NEW i \in DOMAIN ops', ops'[i].born # None, NEW j \in DOMAIN ops',
                      ops'[j].kind \in Mutations, ops'[j].key = ops'[i].key,
                      ops'[i].born < j, j < i
               PROVE  FALSE
  BY DEF FillsFresh, OpsOf
<1>2. /\ DOMAIN ops = 1..Len(ops) /\ Len(ops) \in Nat
      /\ DOMAIN ops' = 1..Len(ops') /\ Len(ops') \in Nat /\ j \in DOMAIN ops' /\ j \in Nat /\ i \in Nat
  BY OpFacts, SMT DEF HybridInv, Kept, OpsOf
<1>3. CASE i \in DOMAIN ops
  <2>1. j \in DOMAIN ops
    BY <1>1, <1>2, <1>3, SMT
  <2>2. ops'[i].born = ops[i].born /\ ops'[i].key = ops[i].key
    BY <1>1, <1>3 DEF Kept, KeepsOp
  <2>3. j \in OpsOf(ops[i].key)
    BY <1>1, <2>1, <2>2 DEF Kept, KeepsOp, OpsOf
  <2> QED
    BY <1>1, <1>3, <2>2, <2>3 DEF HybridInv, FillsFresh
<1>4. CASE i \notin DOMAIN ops
  <2>1. PICK n \in Nat : /\ n = Len(ops) + 1 /\ DOMAIN ops' = DOMAIN ops \cup {n}
                         /\ \/ \E k \in Keys : Mutating(n, k)
                            \/ \E l \in Lookups : Filling(n, l)
                            \/ Fencing(n)
    BY <1>4, OpsMade
  <2>2. i = n /\ j \in DOMAIN ops
    <3>1. DOMAIN ops' = DOMAIN ops \cup {n}
      BY <2>1
    <3>2. i = n
      BY <1>4, <3>1
    <3>3. j # i
      BY <1>1, <1>2, SMT
    <3> QED
      BY <3>1, <3>2, <3>3
  <2>3. PICK l \in Lookups : Filling(i, l)
    BY <1>1, <2>1, <2>2 DEF Mutating, Fencing
  <2>4. /\ ops'[i].born = lookups[l].floor /\ ops'[i].key = lookups[l].key
        /\ lookups[l].pc = "token" /\ registry[lookups[l].key].generation = lookups[l].generation
    BY <2>3 DEF Filling, Admitting, ValidToken
  <2>5. j \in OpsOf(lookups[l].key)
    BY <1>1, <2>2, <2>4 DEF Kept, KeepsOp, OpsOf
  <2>6. /\ lookups[l].key \in Keys /\ registry[lookups[l].key] # None
        /\ lookups[l].floor \in Nat
    BY <2>4, LookupFacts DEF Lookup
  <2>7. j <= lookups[l].floor
    BY <2>4, <2>5, <2>6 DEF HybridInv, GenerationInv
  <2> QED
    BY <1>1, <1>2, <2>4, <2>6, <2>7, SMT
<1> QED
  BY <1>3, <1>4

\* What becomes of the lookups in a step.
LEMMA LookupsMove ==
    ASSUME HybridInv, Stepping
    PROVE  \/ lookups' = lookups
           \/ \E l \in Lookups, x \in Lookup :
                /\ lookups' = [lookups EXCEPT ![l] = x] /\ x.fresh
                /\ x.pc = "returned" \/ Looks(l, x)
<1>1. ASSUME NEW i \in DOMAIN ops, Jobbing(i) PROVE lookups' = lookups
  BY <1>1, JobbingMoves DEF Moved
<1>2. ASSUME NEW i \in DOMAIN ops, Releasing(i) \/ Ending(i) \/ TakenUp(i) \/ Fenced(i)
      PROVE  lookups' = lookups
  BY <1>2 DEF Releasing, Ending, TakenUp, Fenced
<1>3. ASSUME NEW n, (\E k \in Keys : Mutating(n, k)) \/ Fencing(n) PROVE lookups' = lookups
  BY <1>3 DEF Mutating, Fencing
<1>4. ASSUME NEW n, NEW l \in Lookups, Filling(n, l)
      PROVE  \E x \in Lookup : lookups' = [lookups EXCEPT ![l] = x] /\ x.fresh /\ x.pc = "returned"
  <2>1. NotLooking \in Lookup /\ NotLooking.fresh /\ NotLooking.pc = "returned"
    BY DEF NotLooking, Lookup
  <2> QED
    BY <1>4, <2>1 DEF Filling
<1>5. ASSUME NEW l \in Lookups, NEW x, Looks(l, x)
      PROVE  x \in Lookup /\ lookups' = [lookups EXCEPT ![l] = x] /\ x.fresh
  BY <1>5 DEF Looks
<1>6. ASSUME (\E k \in Keys : Forgetting(k))
             \/ Trimming \/ TrimAnswered \/ \E id \in Ids : \E r, a : Serving(id, r, a)
      PROVE  lookups' = lookups
  BY <1>6, ServingLeaves DEF Forgetting, Trimming, TrimAnswered
<1> QED
  BY <1>1, <1>2, <1>3, <1>4, <1>5, <1>6 DEF Stepping

\* Nobody meets a version they did not expect.
LEMMA CorruptKept ==
    ASSUME HybridInv, Stepping, Kept
    PROVE  NoneCorrupt'
<1>1. \A j \in DOMAIN ops : ops[j].result # "corrupt" /\ None # "corrupt"
  BY HybridAssumption DEF HybridInv, NoneCorrupt
<1>2. ASSUME NEW i \in DOMAIN ops, Jobbing(i) PROVE NoneCorrupt'
  <2>1. Moved(i)
    BY <1>2, JobbingMoves
  <2>2. ops'[i].result # "corrupt"
    BY <1>1, <1>2, <2>1 DEF Moved, Jobbing, Reserving, Evicting, Putting, Publishing, Versioning,
                            Getting, Deleting
  <2> QED
    BY <1>1, <2>1, <2>2 DEF Moved, Changed, NoneCorrupt
<1>3. ASSUME NEW i \in DOMAIN ops, Releasing(i) \/ TakenUp(i) PROVE NoneCorrupt'
  BY <1>1, <1>3 DEF Releasing, TakenUp, Taking, Changed, NoneCorrupt
<1>4. ASSUME NEW i \in DOMAIN ops, Ending(i) PROVE NoneCorrupt'
  <2>1. Finishing(i)
    BY <1>4 DEF Ending
  <2>2. DOMAIN ops' = DOMAIN ops /\ \A j \in DOMAIN ops : ops'[j].result = ops[j].result
    BY <2>1, FinishKeeps
  <2> QED
    BY <1>1, <2>2 DEF NoneCorrupt
<1>5. ASSUME NEW i \in DOMAIN ops, Fenced(i) PROVE NoneCorrupt'
  BY <1>1, <1>5, SMT DEF Fenced, Fences, Changed, NoneCorrupt
<1>6. ASSUME Added PROVE NoneCorrupt'
  <2>1. PICK n : n = Len(ops) + 1
    OBVIOUS
  <2>2. /\ DOMAIN ops' = DOMAIN ops \cup {n} /\ ops'[n].result = None
        /\ \A j \in DOMAIN ops : ops'[j] = ops[j]
    BY <1>6, <2>1 DEF Added
  <2> QED
    BY <1>1, <2>2, HybridAssumption DEF NoneCorrupt
<1>7. \A n, k, l : Mutating(n, k) \/ Filling(n, l) \/ Fencing(n) => Added
  BY SMT DEF Mutating, Filling, Admitting, Fencing
<1>8. ASSUME (\E l \in Lookups : \E x : Looks(l, x)) \/ (\E k \in Keys : Forgetting(k))
             \/ Trimming \/ TrimAnswered \/ \E id \in Ids : \E r, a : Serving(id, r, a)
      PROVE  NoneCorrupt'
  <2>1. ops' = ops
    BY <1>8, CallsLeave
  <2> QED
    BY <1>1, <2>1 DEF NoneCorrupt
<1> QED
  BY <1>2, <1>3, <1>4, <1>5, <1>6, <1>7, <1>8 DEF Stepping

(***************************************************************************)
(* Types                                                                   *)
(***************************************************************************)
\* A job's step keeps the types of the coordinator's and of the store's state.
LEMMA JobbingTypes ==
    ASSUME HybridInv, NEW i \in DOMAIN ops, Jobbing(i)
    PROVE  JobTypes' /\ StoreTypes' /\ admission' = admission
<1>1. /\ Moved(i) /\ i \in Nat /\ i # None /\ ops[i].kind \in Mutations /\ Id(i) \in Ids
      /\ i \in Nat \cup Lookups \cup {None}
  BY JobbingMoves, JobFacts DEF Moved
<1>2. JobTypes /\ StoreTypes /\ catalog \in CatalogState
  BY DEF HybridInv, JobTypes
<1>3. /\ UNCHANGED <<taken, queues, fence>> /\ failures' \in {failures, i}
  BY <1>1 DEF Moved
<1>4. ops[i].phase \in {"put", "evict", "get", "delete"} /\ Heard(i) =>
        reply' \in [{Opener} \cup Lookups \cup 1..MaxOps -> Reply \cup {None}]
  BY <1>2, AwaitFacts, HeardFacts
<1>5. ops[i].lsn \in Nat
  BY <1>1, JobFacts DEF Op
<1>6. DOMAIN catalog.slots \in SUBSET Ids /\ \A id \in DOMAIN catalog.slots : catalog.slots[id].lsn \in Nat
  BY <1>2, CatalogFacts DEF Slot
<1>7. ASSUME catalog' \in CatalogState, chain' \in [Ids -> Seq(Request)], control' \in {None, i, control},
             UNCHANGED <<admission, disk, log>>,
             reply' = reply \/ (ops[i].phase \in {"put", "evict", "get", "delete"} /\ Heard(i))
      PROVE  JobTypes' /\ StoreTypes' /\ admission' = admission
  <2>1. JobTypes'
    BY <1>1, <1>2, <1>3, <1>7 DEF JobTypes
  <2>2. StoreTypes'
    BY <1>2, <1>4, <1>7 DEF StoreTypes
  <2> QED
    BY <1>7, <2>1, <2>2
<1>8. CASE Reserving(i)
  <2>1. control' \in {None, i, control} /\ UNCHANGED <<admission, disk, reply, log>>
    BY <1>8 DEF Reserving
  <2>2. catalog' \in CatalogState
    BY <1>2, <1>8 DEF Reserving, SameSlots
  <2>3. chain' \in [Ids -> Seq(Request)]
    <3>1. CASE chain' = chain
      BY <1>2, <3>1 DEF StoreTypes
    <3>2. CASE Ask(Id(i), i, "put", 0)
      <4>1. "put" \in {"get", "put", "delete"} /\ 0 \in Nat
        OBVIOUS
      <4> QED
        BY <1>1, <1>2, <3>2, <4>1, AskFacts
    <3>3. CASE /\ ops'[i].victim \in Evictable(catalog, Id(i))
               /\ Ask(ops'[i].victim, i, "delete", catalog.slots[ops'[i].victim].lsn)
      <4>1. PICK v \in DOMAIN catalog.slots : v = ops'[i].victim
        BY <3>3 DEF Evictable
      <4>2. PICK lsn \in Nat : lsn = catalog.slots[v].lsn
        BY <1>6
      <4>3. Ask(v, i, "delete", lsn) /\ "delete" \in {"get", "put", "delete"}
        BY <3>3, <4>1, <4>2
      <4> QED
        BY <1>1, <1>2, <4>3, AskFacts
    <3> QED
      BY <1>8, <3>1, <3>2, <3>3 DEF Reserving
  <2> QED
    BY <1>7, <2>1, <2>2, <2>3
<1>9. CASE Evicting(i)
  BY <1>2, <1>7, <1>9 DEF Evicting, SameBut, StoreTypes
<1>10. CASE Putting(i)
  BY <1>2, <1>7, <1>10 DEF Putting, SameBut, StoreTypes
<1>11. CASE Publishing(i)
  BY <1>2, <1>7, <1>11 DEF Publishing, StoreTypes
<1>12. CASE Versioning(i)
  <2>1. control' \in {None, i, control} /\ UNCHANGED <<admission, catalog, disk, reply, log>>
    BY <1>12 DEF Versioning
  <2>2. chain' = chain \/ Ask(Id(i), i, "get", 0)
    BY <1>12 DEF Versioning
  <2>3. "get" \in {"get", "put", "delete"} /\ 0 \in Nat
    OBVIOUS
  <2>4. chain' \in [Ids -> Seq(Request)]
    BY <1>1, <1>2, <2>2, <2>3, AskFacts DEF StoreTypes
  <2> QED
    BY <1>2, <1>7, <2>1, <2>4
<1>13. CASE Getting(i)
  <2>1. /\ control' \in {None, i, control} /\ UNCHANGED <<admission, catalog, disk, log>>
        /\ ops[i].phase = "get" /\ Heard(i)
    BY <1>13 DEF Getting
  <2>2. chain' = chain \/ Ask(Id(i), i, "delete", ops[i].lsn)
    BY <1>13 DEF Getting
  <2>3. "delete" \in {"get", "put", "delete"}
    OBVIOUS
  <2>4. chain' \in [Ids -> Seq(Request)]
    BY <1>1, <1>2, <1>5, <2>2, <2>3, AskFacts DEF StoreTypes
  <2> QED
    BY <1>2, <1>7, <2>1, <2>4
<1>14. CASE Deleting(i)
  BY <1>2, <1>7, <1>14 DEF Deleting, SameBut, StoreTypes
<1> QED
  BY <1>8, <1>9, <1>10, <1>11, <1>12, <1>13, <1>14 DEF Jobbing

(***************************************************************************)
(* The registry                                                            *)
(***************************************************************************)
\* A caller that hands its lease on: as many hold the key as before.
LEMMA SwapKey ==
    ASSUME NEW e \in KeyState, NEW H, NEW U, KeyInv(e, H, U), NEW l \in H, NEW n, n \notin H
    PROVE  Counted((H \ {l}) \cup {n}, e.leases)
<1>1. e.leases \in Nat /\ Counted(H, e.leases)
  BY HybridAssumption DEF KeyInv, KeyState
<1>2. e.leases - 1 \in Nat /\ Counted(H \ {l}, e.leases - 1) /\ n \notin H \ {l}
  BY <1>1, CountedDrop
<1>3. Counted((H \ {l}) \cup {n}, e.leases - 1 + 1)
  BY <1>2, CountedAdd
<1>4. e.leases - 1 + 1 = e.leases
  BY <1>1, SMT
<1> QED
  BY <1>3, <1>4

\* Registry::acquire: one more holds the key.
LEMMA AcquireKey ==
    ASSUME NEW e \in KeyState \cup {None}, NEW H, NEW U, U \subseteq H,
           KeyInv(e, H, U), NEW x, x \notin H
    PROVE  acquire(e) \in KeyState /\ KeyInv(acquire(e), H \cup {x}, U)
           /\ acquire(e).generation = IF e = None THEN 0 ELSE e.generation
<1>1. CASE e = None
  <2>1. H = {} /\ U = {}
    BY <1>1 DEF KeyInv
  <2>2. acquire(e) = [leases |-> 1, generation |-> 0, pending |-> 0, waiters |-> {}]
    BY <1>1 DEF acquire
  <2>3. acquire(e) \in KeyState
    BY <2>2, SMT DEF KeyState
  <2>4. acquire(e).leases = 1 /\ acquire(e).pending = 0 /\ acquire(e).generation = 0
    BY <2>2, SMT
  <2>5. Counted(H \cup {x}, 1)
    <3>1. 0 \in Nat /\ 0 + 1 = 1
      BY SMT
    <3> QED
      BY <2>1, <3>1, CountedNone, CountedAdd
  <2>6. acquire(e) # None
    BY <2>3, HybridAssumption
  <2> QED
    BY <1>1, <2>1, <2>3, <2>4, <2>5, <2>6, CountedNone DEF KeyInv
<1>2. CASE e # None
  <2>1. /\ e \in KeyState /\ e.leases \in Nat /\ Counted(H, e.leases) /\ Counted(U, e.pending)
    BY <1>2 DEF KeyInv, KeyState
  <2>2. acquire(e) = [e EXCEPT !.leases = @ + 1]
    BY <1>2 DEF acquire
  <2>3. /\ acquire(e) \in KeyState /\ acquire(e).leases = e.leases + 1
        /\ acquire(e).pending = e.pending /\ acquire(e).generation = e.generation
    BY <2>1, <2>2, SMT DEF KeyState
  <2>4. acquire(e) # None
    BY <2>3, HybridAssumption
  <2>5. Counted(H \cup {x}, e.leases + 1)
    BY <2>1, CountedAdd
  <2> QED
    BY <1>2, <2>1, <2>3, <2>4, <2>5 DEF KeyInv
<1> QED
  BY <1>1, <1>2

\* Registry's advance: one mutation more is unsettled.
LEMMA AdvanceKey ==
    ASSUME NEW e \in KeyState, NEW H, NEW U, KeyInv(e, H, U),
           NEW I, Counted(I, e.leases), I # {}, NEW n, n \notin U
    PROVE  /\ advance(e) \in KeyState /\ KeyInv(advance(e), I, U \cup {n})
           /\ advance(e).generation = e.generation + 1
<1>1. e # None /\ e.pending \in Nat /\ Counted(U, e.pending)
  BY HybridAssumption DEF KeyInv, KeyState
<1>2. /\ advance(e) \in KeyState /\ advance(e).leases = e.leases
      /\ advance(e).generation = e.generation + 1 /\ advance(e).pending = e.pending + 1
  <2>1. e.generation + 1 \in Nat /\ e.pending + 1 \in Nat
    BY SMT DEF KeyState
  <2>2. advance(e) = [e EXCEPT !.generation = e.generation + 1, !.pending = e.pending + 1]
    BY DEF advance
  <2> QED
    BY <2>1, <2>2 DEF KeyState
<1>3. advance(e) # None
  BY <1>2, HybridAssumption
<1>4. Counted(U \cup {n}, e.pending + 1)
  BY <1>1, CountedAdd
<1> QED
  BY <1>2, <1>3, <1>4 DEF KeyInv

\* What KeyLease::drop by x makes of the state e of a key.
Dropped(e, H, U, x) ==
    /\ e \in KeyState /\ dropLease(e) \in KeyState \cup {None}
    /\ KeyInv(dropLease(e), H \ {x}, U)
    /\ dropLease(e) # None => dropLease(e).generation = e.generation
    /\ e.leases = 1 <=> dropLease(e) = None

\* KeyLease::drop: the state goes with its last holder.
LEMMA DropKey ==
    ASSUME NEW e \in KeyState \cup {None}, NEW H, NEW U, U \subseteq H,
           KeyInv(e, H, U), NEW x \in H
    PROVE  Dropped(e, H, U, x)
<1>1. /\ e \in KeyState /\ e # None /\ e.leases \in Nat
      /\ Counted(H, e.leases) /\ Counted(U, e.pending)
  BY DEF KeyInv, KeyState
<1>2. /\ e.leases - 1 \in Nat /\ Counted(H \ {x}, e.leases - 1)
      /\ e.leases - 1 = 0 <=> H \ {x} = {}
  <2>1. e.leases - 1 \in Nat /\ Counted(H \ {x}, e.leases - 1)
    BY <1>1, CountedDrop
  <2> QED
    BY <2>1, CountedEmpty
<1>3. e.leases - 1 = 0 <=> e.leases = 1
  BY <1>1, SMT
<1>4. CASE e.leases = 1
  <2>1. dropLease(e) = None
    BY <1>4 DEF dropLease
  <2>2. H \ {x} = {}
    BY <1>2, <1>3, <1>4
  <2> QED
    BY <1>1, <1>4, <2>1, <2>2 DEF KeyInv, Dropped
<1>5. CASE e.leases # 1
  <2>1. dropLease(e) = [e EXCEPT !.leases = @ - 1]
    BY <1>5 DEF dropLease
  <2>2. /\ dropLease(e) \in KeyState /\ dropLease(e).leases = e.leases - 1
        /\ dropLease(e).pending = e.pending /\ dropLease(e).generation = e.generation
    BY <1>1, <1>2, <2>1 DEF KeyState
  <2>3. dropLease(e) # None
    BY <2>2, HybridAssumption
  <2> QED
    BY <1>1, <1>2, <1>3, <1>5, <2>2, <2>3 DEF KeyInv, Dropped
<1> QED
  BY <1>4, <1>5

\* Mutation::drop: the last unsettled one wakes the lookups that wait.
LEMMA SettleKey ==
    ASSUME NEW e \in KeyState \cup {None}, NEW H, NEW U, U \subseteq H,
           KeyInv(e, H, U), NEW i \in U
    PROVE  /\ e \in KeyState /\ dropMutation(e) \in KeyState
           /\ KeyInv(dropMutation(e), H, U \ {i})
           /\ dropMutation(e).generation = e.generation
<1>1. /\ e \in KeyState /\ e # None /\ Counted(H, e.leases) /\ H # {}
      /\ e.pending \in Nat /\ Counted(U, e.pending)
  BY DEF KeyInv, KeyState
<1>2. e.pending - 1 \in Nat /\ Counted(U \ {i}, e.pending - 1)
  BY <1>1, CountedDrop
<1> DEFINE w == IF e.pending = 1 THEN {} ELSE e.waiters
<1>3. w \in SUBSET Lookups
  BY <1>1 DEF KeyState
<1>4. dropMutation(e) = [e EXCEPT !.pending = @ - 1, !.waiters = w]
  BY DEF dropMutation
<1> HIDE DEF w
<1>5. /\ dropMutation(e) \in KeyState /\ dropMutation(e).leases = e.leases
      /\ dropMutation(e).pending = e.pending - 1 /\ dropMutation(e).generation = e.generation
  BY <1>1, <1>2, <1>3, <1>4 DEF KeyState
<1>6. dropMutation(e) # None
  BY <1>5, HybridAssumption
<1> QED
  BY <1>1, <1>2, <1>5, <1>6 DEF KeyInv

\* Who waits for a key does not bear on who holds it.
LEMMA WaitKey ==
    ASSUME NEW e \in KeyState, NEW H, NEW U, KeyInv(e, H, U), NEW w \in SUBSET Lookups
    PROVE  /\ [e EXCEPT !.waiters = w] \in KeyState /\ KeyInv([e EXCEPT !.waiters = w], H, U)
           /\ [e EXCEPT !.waiters = w].generation = e.generation
<1> DEFINE x == [e EXCEPT !.waiters = w]
<1>1. /\ x \in KeyState /\ x.leases = e.leases /\ x.pending = e.pending
      /\ x.generation = e.generation
  BY DEF KeyState
<1>2. x # None /\ e # None
  BY <1>1, HybridAssumption
<1> HIDE DEF x
<1>3. KeyInv(x, H, U)
  BY <1>1, <1>2 DEF KeyInv
<1> QED
  BY <1>1, <1>3 DEF x

\* What a step does to the state of key k: nothing that counts, or a lookup takes the first
\* lease, or mutation n is admitted with the next generation.
RegistryMove(k) ==
    /\ registry'[k] \in KeyState \cup {None}
    /\ KeyInv(registry[k], Holders(k), Unsettled(k))'
    /\ \/ registry'[k] = None
       \/ /\ registry[k] # None /\ registry'[k].generation = registry[k].generation
          /\ OpsOf(k)' = OpsOf(k) /\ Unsettled(k)' \subseteq Unsettled(k)
       \/ registry[k] = None /\ OpsOf(k)' = OpsOf(k)
       \/ /\ registry[k] # None => registry'[k].generation = registry[k].generation + 1
          /\ \E n \in Nat : /\ n = Len(ops) + 1 /\ OpsOf(k)' = OpsOf(k) \cup {n}
                            /\ ops'[n].generation = registry'[k].generation

\* Everybody who held the key and everybody lookups wait for still do.
LEMMA SameHolders ==
    ASSUME Kept, NEW k, DOMAIN ops' = DOMAIN ops,
           \A l \in Lookups : lookups'[l].pc # "returned" /\ lookups'[l].key = k
                                <=> lookups[l].pc # "returned" /\ lookups[l].key = k,
           \A j \in OpsOf(k) :
             /\ ops'[j].phase = "done" <=> ops[j].phase = "done"
             /\ ops'[j].phase \in {"finish", "done"} <=> ops[j].phase \in {"finish", "done"}
    PROVE  /\ Holders(k)' = Holders(k) /\ Unsettled(k)' = Unsettled(k) /\ OpsOf(k)' = OpsOf(k)
<1>1. OpsOf(k)' = OpsOf(k)
  BY OpsOfKept
<1>2. Holders(k)' = Holders(k)
  BY <1>1 DEF Holders
<1>3. Unsettled(k)' = Unsettled(k)
  BY <1>1 DEF Unsettled
<1> QED
  BY <1>1, <1>2, <1>3

\* A key whose state and holders are the same.
LEMMA SameKey ==
    ASSUME HybridInv, NEW k \in Keys, registry'[k] = registry[k],
           Holders(k)' = Holders(k), Unsettled(k)' = Unsettled(k), OpsOf(k)' = OpsOf(k)
    PROVE  RegistryMove(k)
<1>1. registry[k] \in KeyState \cup {None} /\ KeyInv(registry[k], Holders(k), Unsettled(k))
  BY HolderFacts
<1>2. KeyInv(registry[k], Holders(k), Unsettled(k))'
  BY <1>1 DEF KeyInv
<1> QED
  BY <1>1, <1>2 DEF RegistryMove

\* The steps of jobs, but the last two of each, do not touch the registry.
LEMMA JobsLeaveRegistry ==
    ASSUME HybridInv, Kept, NEW i \in DOMAIN ops, Jobbing(i) \/ Fenced(i) \/ TakenUp(i),
           NEW k \in Keys
    PROVE  RegistryMove(k)
<1>1. CASE Jobbing(i)
  <2>1. Moved(i)
    BY <1>1, JobbingMoves
  <2>2. /\ registry' = registry /\ lookups' = lookups /\ DOMAIN ops' = DOMAIN ops
        /\ ops[i].phase \in Working \ {"release", "finish"}
        /\ ops'[i].phase \in Working \ {"start", "finish"}
        /\ \A j \in DOMAIN ops : j # i => ops'[j] = ops[j]
    BY <2>1 DEF Moved, Changed
  <2>3. \A j \in OpsOf(k) :
          /\ ops'[j].phase = "done" <=> ops[j].phase = "done"
          /\ ops'[j].phase \in {"finish", "done"} <=> ops[j].phase \in {"finish", "done"}
    BY <2>2 DEF Working, OpsOf
  <2> QED
    BY <2>2, <2>3, SameHolders, SameKey
<1>2. CASE TakenUp(i)
  <2>1. /\ registry' = registry /\ lookups' = lookups /\ DOMAIN ops' = DOMAIN ops
        /\ ops[i].phase = "queued" /\ ops'[i].phase \in {"fence", "pending", "start"}
        /\ \A j \in DOMAIN ops : j # i => ops'[j] = ops[j]
    BY <1>2 DEF TakenUp, Taking, Changed
  <2>2. \A j \in OpsOf(k) :
          /\ ops'[j].phase = "done" <=> ops[j].phase = "done"
          /\ ops'[j].phase \in {"finish", "done"} <=> ops[j].phase \in {"finish", "done"}
    BY <2>1 DEF OpsOf
  <2> QED
    BY <2>1, <2>2, SameHolders, SameKey
<1>3. CASE Fenced(i)
  <2>1. /\ registry' = registry /\ lookups' = lookups /\ DOMAIN ops' = DOMAIN ops
        /\ ops[i].kind \notin Mutations
        /\ \A j \in DOMAIN ops : j # i => ops'[j] = ops[j]
    BY <1>3 DEF Fenced, Fences, Changed
  <2>2. \A j \in OpsOf(k) : ops'[j] = ops[j]
    BY <2>1 DEF OpsOf
  <2> QED
    BY <2>1, <2>2, SameHolders, SameKey
<1> QED
  BY <1>1, <1>2, <1>3

\* DropMutation before the reply, and the lease that goes with it.
LEMMA EndsInRegistry ==
    ASSUME HybridInv, Kept, NEW i \in DOMAIN ops, Releasing(i) \/ Ending(i), NEW k \in Keys
    PROVE  RegistryMove(k)
<1> DEFINE H == Holders(k)
           U == Unsettled(k)
           e == registry[k]
<1>0. /\ U \subseteq H /\ e \in KeyState \cup {None} /\ KeyInv(e, H, U)
      /\ registry \in [Keys -> KeyState \cup {None}]
  BY HolderFacts DEF HybridInv, CallTypes
<1>1. CASE Releasing(i)
  <2>1. /\ lookups' = lookups /\ DOMAIN ops' = DOMAIN ops
        /\ ops[i].phase = "release" /\ ops'[i].phase = "finish" /\ ops[i].kind \in Mutations
        /\ \A j \in DOMAIN ops : j # i => ops'[j] = ops[j]
        /\ registry' = [registry EXCEPT ![ops[i].key] = dropMutation(@)]
    BY <1>1 DEF Releasing, Changed
  <2>2. CASE ops[i].key # k
    <3>1. \A j \in OpsOf(k) : ops'[j] = ops[j]
      BY <2>1, <2>2 DEF OpsOf
    <3>2. registry'[k] = registry[k]
      BY <1>0, <2>1, <2>2
    <3> QED
      BY <2>1, <3>1, <3>2, SameHolders, SameKey
  <2>3. CASE ops[i].key = k
    <3>1. registry'[k] = dropMutation(e)
      BY <1>0, <2>1, <2>3
    <3>2. OpsOf(k)' = OpsOf(k)
      BY <2>1, OpsOfKept
    <3>3. Holders(k)' = H
      BY <2>1, <3>2 DEF Holders, OpsOf
    <3>4. Unsettled(k)' = U \ {i} /\ i \in U
      BY <2>1, <2>3, <3>2 DEF Unsettled, OpsOf
    <3>5. /\ e \in KeyState /\ dropMutation(e) \in KeyState /\ KeyInv(dropMutation(e), H, U \ {i})
          /\ dropMutation(e).generation = e.generation
      <4> HIDE DEF H, U, e
      <4> QED
        BY <1>0, <3>4, SettleKey
    <3>6. KeyInv(registry[k], Holders(k), Unsettled(k))'
      BY <3>1, <3>3, <3>4, <3>5 DEF KeyInv
    <3>7. registry[k] # None
      BY <3>5, HybridAssumption
    <3> QED
      BY <3>1, <3>2, <3>4, <3>5, <3>6, <3>7 DEF RegistryMove
  <2> QED
    BY <2>2, <2>3
<1>2. CASE Ending(i)
  <2>1. /\ lookups' = lookups /\ DOMAIN ops' = DOMAIN ops
        /\ ops[i].phase = "finish" /\ ops'[i].phase = "done" /\ ops[i].kind \in Mutations
        /\ registry' = [registry EXCEPT ![ops[i].key] = dropLease(@)]
    BY <1>2 DEF Ending, Finishing
  <2>2. Finishing(i)
    BY <1>2 DEF Ending
  <2>3. \A j \in DOMAIN ops : j # i =>
          /\ ops'[j].phase = "done" <=> ops[j].phase = "done"
          /\ ops'[j].phase \in {"finish", "done"} <=> ops[j].phase \in {"finish", "done"}
    <3>1. \A j \in DOMAIN ops : j # i =>
            \/ ops'[j] = ops[j]
            \/ ops[j].phase = "pending" /\ ops'[j].phase = "start"
      BY <2>2, FinishKeeps
    <3> QED
      BY <3>1
  <2>4. CASE ops[i].key # k
    <3>1. \A j \in OpsOf(k) : j # i
      BY <2>4 DEF OpsOf
    <3>2. \A j \in OpsOf(k) :
            /\ ops'[j].phase = "done" <=> ops[j].phase = "done"
            /\ ops'[j].phase \in {"finish", "done"} <=> ops[j].phase \in {"finish", "done"}
      BY <2>3, <3>1 DEF OpsOf
    <3>3. registry'[k] = registry[k]
      BY <1>0, <2>1, <2>4
    <3> QED
      BY <2>1, <3>2, <3>3, SameHolders, SameKey
  <2>5. CASE ops[i].key = k
    <3>1. registry'[k] = dropLease(e)
      BY <1>0, <2>1, <2>5
    <3>2. OpsOf(k)' = OpsOf(k) /\ i \in OpsOf(k) /\ OpsOf(k) \subseteq DOMAIN ops
      BY <2>1, <2>5, OpsOfKept, SMT DEF OpsOf
    <3>3. i \in H /\ i \notin Lookups
      BY <2>1, <3>2, JobFacts DEF Holders
    <3>4. Holders(k)' = H \ {i}
      <4>1. {j \in OpsOf(k) : ops'[j].phase # "done"} = {j \in OpsOf(k) : ops[j].phase # "done"} \ {i}
        BY <2>1, <2>3, <3>2
      <4> QED
        BY <2>1, <3>2, <3>3, <4>1 DEF Holders
    <3>5. Unsettled(k)' = U
      <4>1. \A j \in OpsOf(k) : ops'[j].phase \in {"finish", "done"} <=> ops[j].phase \in {"finish", "done"}
        BY <2>1, <2>3, <3>2
      <4> QED
        BY <3>2, <4>1 DEF Unsettled
    <3>6. /\ e \in KeyState /\ dropLease(e) \in KeyState \cup {None}
          /\ KeyInv(dropLease(e), H \ {i}, U)
          /\ dropLease(e) # None => dropLease(e).generation = e.generation
      <4>1. U \subseteq H /\ e \in KeyState \cup {None} /\ KeyInv(e, H, U) /\ i \in H
        BY <1>0, <3>3
      <4> HIDE DEF H, U, e
      <4>2. Dropped(e, H, U, i)
        BY <4>1, DropKey
      <4> QED
        BY <4>2 DEF Dropped
    <3>7. KeyInv(registry[k], Holders(k), Unsettled(k))'
      BY <3>1, <3>4, <3>5, <3>6 DEF KeyInv
    <3>8. registry[k] # None
      BY <3>6, HybridAssumption
    <3> QED
      BY <3>1, <3>2, <3>5, <3>6, <3>7, <3>8 DEF RegistryMove
  <2> QED
    BY <2>4, <2>5
<1> QED
  BY <1>1, <1>2

\* A lookup takes a lease when it misses memory and gives it back when it returns.
LEMMA LooksInRegistry ==
    ASSUME HybridInv, Kept, NEW l \in Lookups, NEW x, Looks(l, x), NEW k \in Keys
    PROVE  RegistryMove(k)
<1> DEFINE H == Holders(k)
           U == Unsettled(k)
           e == registry[k]
<1>0. /\ U \subseteq H /\ e \in KeyState \cup {None} /\ KeyInv(e, H, U)
      /\ registry \in [Keys -> KeyState \cup {None}] /\ lookups \in [Lookups -> Lookup]
  BY HolderFacts DEF HybridInv, CallTypes
<1>1. /\ ops' = ops /\ lookups' = [lookups EXCEPT ![l] = x] /\ l \notin DOMAIN ops
      /\ Answers(l, x) \/ Begins(l, x) \/ Leaves(l, x) \/ Walks(l, x)
  BY LookupFacts DEF Looks
<1>2. OpsOf(k)' = OpsOf(k) /\ Unsettled(k)' = U /\ OpsOf(k) \subseteq DOMAIN ops
  BY <1>1 DEF OpsOf, Unsettled
<1>3. \A m \in Lookups : lookups'[m] = IF m = l THEN x ELSE lookups[m]
  BY <1>0, <1>1
<1>4. Holders(k)' = IF x.pc # "returned" /\ x.key = k THEN H \cup {l} ELSE H \ {l}
  BY <1>1, <1>2, <1>3 DEF Holders
<1>5. l \in H <=> lookups[l].pc # "returned" /\ lookups[l].key = k
  BY <1>1, <1>2 DEF Holders
<1>6. CASE registry'[k] = e /\ Holders(k)' = H
  BY <1>2, <1>6, SameKey
<1>7. CASE Answers(l, x)
  BY <1>4, <1>5, <1>6, <1>7 DEF Answers
<1>8. CASE Begins(l, x)
  <2>1. CASE x.key # k
    <3>1. registry'[k] = e
      BY <1>0, <1>8, <2>1 DEF Begins
    <3> QED
      BY <1>4, <1>5, <1>6, <1>8, <2>1, <3>1 DEF Begins
  <2>2. CASE x.key = k
    <3>1. registry'[k] = acquire(e) /\ Holders(k)' = H \cup {l} /\ l \notin H
      BY <1>0, <1>4, <1>5, <1>8, <2>2 DEF Begins
    <3>2. /\ acquire(e) \in KeyState /\ KeyInv(acquire(e), H \cup {l}, U)
          /\ acquire(e).generation = IF e = None THEN 0 ELSE e.generation
      BY <1>0, <3>1, AcquireKey
    <3>3. KeyInv(registry[k], Holders(k), Unsettled(k))'
      BY <1>2, <3>1, <3>2 DEF KeyInv
    <3> QED
      BY <1>2, <3>1, <3>2, <3>3 DEF RegistryMove
  <2> QED
    BY <2>1, <2>2
<1>9. CASE Leaves(l, x)
  <2>1. PICK d : /\ registry' = [registry EXCEPT ![lookups[l].key] = d]
                 /\ Drops(registry[lookups[l].key], d)
    BY <1>9 DEF Leaves
  <2>2. lookups[l].pc # "returned" /\ x.pc = "returned" /\ Holders(k)' = H \ {l}
    BY <1>4, <1>9 DEF Leaves
  <2>3. CASE lookups[l].key # k
    <3>1. registry'[k] = e
      BY <1>0, <2>1, <2>3
    <3> QED
      BY <1>5, <1>6, <2>2, <2>3, <3>1
  <2>4. CASE lookups[l].key = k
    <3>1. registry'[k] = d /\ Drops(e, d) /\ l \in H
      BY <1>0, <1>5, <2>1, <2>2, <2>4
    <3>2. /\ e \in KeyState /\ dropLease(e) \in KeyState \cup {None}
          /\ KeyInv(dropLease(e), H \ {l}, U)
          /\ dropLease(e) # None => dropLease(e).generation = e.generation
      <4>1. U \subseteq H /\ e \in KeyState \cup {None} /\ KeyInv(e, H, U) /\ l \in H
        BY <1>0, <3>1
      <4> HIDE DEF H, U, e
      <4>2. Dropped(e, H, U, l)
        BY <4>1, DropKey
      <4> QED
        BY <4>2 DEF Dropped
    <3>3. /\ d \in KeyState \cup {None} /\ KeyInv(d, H \ {l}, U)
          /\ d # None => d.generation = e.generation
      <4>1. CASE d = dropLease(e)
        BY <3>2, <4>1
      <4>2. CASE dropLease(e) # None /\ \E w \in SUBSET Lookups : d = [dropLease(e) EXCEPT !.waiters = w]
        <5>1. PICK w \in SUBSET Lookups : d = [dropLease(e) EXCEPT !.waiters = w]
          BY <4>2
        <5>2. PICK f \in KeyState : f = dropLease(e)
          BY <3>2, <4>2
        <5>3. /\ [f EXCEPT !.waiters = w] \in KeyState /\ KeyInv([f EXCEPT !.waiters = w], H \ {l}, U)
              /\ [f EXCEPT !.waiters = w].generation = f.generation
          BY <3>2, <5>2, WaitKey
        <5> QED
          BY <3>2, <4>2, <5>1, <5>2, <5>3
      <4> QED
        BY <3>1, <4>1, <4>2 DEF Drops
    <3>4. KeyInv(registry[k], Holders(k), Unsettled(k))'
      BY <1>2, <2>2, <3>1, <3>3 DEF KeyInv
    <3>5. e # None
      BY <3>2, HybridAssumption
    <3> QED
      BY <1>2, <3>1, <3>3, <3>4, <3>5 DEF RegistryMove
  <2> QED
    BY <2>3, <2>4
<1>10. CASE Walks(l, x)
  <2>1. /\ lookups[l].pc # "returned" /\ x.pc # "returned" /\ x.key = lookups[l].key
        /\ \/ registry' = registry
           \/ \E w \in SUBSET Lookups : registry' =
                [registry EXCEPT ![lookups[l].key] = [registry[lookups[l].key] EXCEPT !.waiters = w]]
    BY <1>10 DEF Walks
  <2>2. Holders(k)' = H
    BY <1>4, <1>5, <2>1
  <2>3. CASE registry'[k] = e
    BY <1>6, <2>2, <2>3
  <2>4. CASE registry'[k] # e
    <3>1. PICK w \in SUBSET Lookups : registry' =
             [registry EXCEPT ![lookups[l].key] = [registry[lookups[l].key] EXCEPT !.waiters = w]]
      BY <2>1, <2>4
    <3>2. lookups[l].key = k /\ registry'[k] = [e EXCEPT !.waiters = w]
      BY <1>0, <2>4, <3>1
    <3>3. e \in KeyState /\ e # None
      BY <2>1, <3>2, LookupFacts
    <3>4. /\ [e EXCEPT !.waiters = w] \in KeyState /\ KeyInv([e EXCEPT !.waiters = w], H, U)
          /\ [e EXCEPT !.waiters = w].generation = e.generation
      BY <1>0, <3>3, WaitKey
    <3>5. KeyInv(registry[k], Holders(k), Unsettled(k))'
      BY <1>2, <2>2, <3>2, <3>4 DEF KeyInv
    <3> QED
      BY <1>2, <3>2, <3>3, <3>4, <3>5 DEF RegistryMove
  <2> QED
    BY <2>3, <2>4
<1> QED
  BY <1>1, <1>7, <1>8, <1>9, <1>10

\* An admission moves the generation on; a fill keeps the lease of its token.
LEMMA AdmissionsInRegistry ==
    ASSUME HybridInv, Kept, NEW n \in Nat,
           \/ \E y \in Keys : Mutating(n, y)
           \/ \E l \in Lookups : Filling(n, l)
           \/ Fencing(n),
           NEW k \in Keys
    PROVE  RegistryMove(k)
<1> DEFINE H == Holders(k)
           U == Unsettled(k)
           e == registry[k]
<1>0. /\ U \subseteq H /\ e \in KeyState \cup {None} /\ KeyInv(e, H, U)
      /\ registry \in [Keys -> KeyState \cup {None}] /\ lookups \in [Lookups -> Lookup]
  BY HolderFacts DEF HybridInv, CallTypes
<1>1. /\ Added /\ n = Len(ops) + 1 /\ DOMAIN ops' = DOMAIN ops \cup {n} /\ n \notin DOMAIN ops
      /\ \A j \in DOMAIN ops : ops'[j] = ops[j]
      /\ ops'[n].phase = "queued" /\ n \notin Lookups
  <2>1. Added /\ n = Len(ops) + 1
    BY DEF Mutating, Filling, Admitting, Fencing
  <2> QED
    BY <2>1, HybridAssumption DEF Added
<1>2. OpsOf(k)' = IF ops'[n].kind \in Mutations /\ ops'[n].key = k THEN OpsOf(k) \cup {n} ELSE OpsOf(k)
  BY <1>1 DEF OpsOf
<1>3. OpsOf(k) \subseteq DOMAIN ops
  BY DEF OpsOf
<1>4. ASSUME OpsOf(k)' = OpsOf(k), registry'[k] = e,
             \A m \in Lookups : lookups'[m].pc # "returned" /\ lookups'[m].key = k
                                  <=> lookups[m].pc # "returned" /\ lookups[m].key = k
      PROVE  RegistryMove(k)
  <2>1. Holders(k)' = H
    BY <1>1, <1>3, <1>4, ZenonT(30) DEF Holders
  <2>2. Unsettled(k)' = U
    BY <1>1, <1>3, <1>4 DEF Unsettled
  <2> QED
    BY <1>4, <2>1, <2>2, SameKey
<1>5. ASSUME ops'[n].kind \in Mutations, ops'[n].key = k
      PROVE  OpsOf(k)' = OpsOf(k) \cup {n} /\ Unsettled(k)' = U \cup {n} /\ n \notin U /\ n \notin H
  <2>1. OpsOf(k)' = OpsOf(k) \cup {n}
    BY <1>2, <1>5
  <2>2. Unsettled(k)' = U \cup {n} /\ n \notin U
    BY <1>1, <1>3, <2>1 DEF Unsettled
  <2>3. n \notin H
    BY <1>1, <1>3 DEF Holders
  <2> QED
    BY <2>1, <2>2, <2>3
<1>6. CASE Fencing(n)
  BY <1>2, <1>4, <1>6 DEF Fencing
<1>7. ASSUME NEW y \in Keys, Mutating(n, y) PROVE RegistryMove(k)
  <2>1. /\ ops'[n].kind \in Mutations /\ ops'[n].key = y /\ lookups' = lookups
        /\ registry' = [registry EXCEPT ![y] = advance(acquire(registry[y]))]
        /\ ops'[n].generation = advance(acquire(registry[y])).generation
    BY <1>7 DEF Mutating, Admitting
  <2>2. CASE y # k
    <3>1. registry'[k] = e
      BY <1>0, <2>1, <2>2
    <3> QED
      BY <1>2, <1>4, <2>1, <2>2, <3>1
  <2>3. CASE y = k
    <3>1. registry'[k] = advance(acquire(e))
      BY <1>0, <2>1, <2>3
    <3>2. /\ OpsOf(k)' = OpsOf(k) \cup {n} /\ Unsettled(k)' = U \cup {n} /\ n \notin U /\ n \notin H
      BY <1>5, <2>1, <2>3
    <3>3. Holders(k)' = H \cup {n}
      BY <1>1, <1>3, <2>1, <3>2, ZenonT(30) DEF Holders
    <3>4. PICK f \in KeyState : /\ f = acquire(e) /\ KeyInv(f, H \cup {n}, U)
                                /\ f.generation = IF e = None THEN 0 ELSE e.generation
      BY <1>0, <3>2, AcquireKey
    <3>5. /\ advance(f) \in KeyState /\ KeyInv(advance(f), H \cup {n}, U \cup {n})
          /\ advance(f).generation = f.generation + 1
      <4>1. Counted(H \cup {n}, f.leases) /\ H \cup {n} # {}
        BY <3>4, HybridAssumption DEF KeyInv
      <4> HIDE DEF H, U
      <4> QED
        BY <3>2, <3>4, <4>1, AdvanceKey
    <3>6. KeyInv(registry[k], Holders(k), Unsettled(k))'
      BY <3>1, <3>2, <3>3, <3>4, <3>5 DEF KeyInv
    <3>7. ops'[n].generation = registry'[k].generation /\ registry'[k] = advance(f)
      BY <2>1, <2>3, <3>1, <3>4
    <3> QED
      BY <1>1, <3>2, <3>4, <3>5, <3>6, <3>7 DEF RegistryMove
  <2> QED
    BY <2>2, <2>3
<1>8. ASSUME NEW l \in Lookups, Filling(n, l) PROVE RegistryMove(k)
  <2> DEFINE y == lookups[l].key
  <2>1. /\ ops'[n].kind \in Mutations /\ ops'[n].key = y
        /\ lookups' = [lookups EXCEPT ![l] = NotLooking] /\ lookups[l].pc = "token"
        /\ registry' = [registry EXCEPT ![y] = advance(registry[y])]
        /\ ops'[n].generation = advance(registry[y]).generation
    BY <1>8 DEF Filling, Admitting
  <2>2. \A m \in Lookups : lookups'[m] = IF m = l THEN NotLooking ELSE lookups[m]
    BY <1>0, <2>1
  <2>3. NotLooking.pc = "returned" /\ l \notin Nat
    BY LookupFacts DEF NotLooking
  <2>4. CASE y # k
    <3>1. registry'[k] = e
      BY <1>0, <2>1, <2>4
    <3>2. \A m \in Lookups : lookups'[m].pc # "returned" /\ lookups'[m].key = k
                               <=> lookups[m].pc # "returned" /\ lookups[m].key = k
      BY <2>2, <2>3, <2>4
    <3> QED
      BY <1>2, <1>4, <2>1, <2>4, <3>1, <3>2
  <2>5. CASE y = k
    <3>1. registry'[k] = advance(e)
      BY <1>0, <2>1, <2>5
    <3>2. /\ OpsOf(k)' = OpsOf(k) \cup {n} /\ Unsettled(k)' = U \cup {n} /\ n \notin U /\ n \notin H
      BY <1>5, <2>1, <2>5
    <3>3. e \in KeyState /\ e # None /\ l \in H /\ ~(l \in DOMAIN ops)
      BY <2>1, <2>5, LookupFacts
    <3>4. Holders(k)' = (H \ {l}) \cup {n}
      BY <1>1, <1>3, <2>1, <2>2, <2>3, <3>2, <3>3, SMT DEF Holders
    <3>5. Counted((H \ {l}) \cup {n}, e.leases)
      <4> HIDE DEF H, U, e
      <4> QED
        BY <1>0, <3>2, <3>3, SwapKey
    <3>6. /\ advance(e) \in KeyState /\ KeyInv(advance(e), (H \ {l}) \cup {n}, U \cup {n})
          /\ advance(e).generation = e.generation + 1
      <4>1. (H \ {l}) \cup {n} # {}
        OBVIOUS
      <4> HIDE DEF H, U, e
      <4> QED
        BY <1>0, <3>2, <3>3, <3>5, <4>1, AdvanceKey
    <3>7. KeyInv(registry[k], Holders(k), Unsettled(k))'
      BY <3>1, <3>2, <3>4, <3>6 DEF KeyInv
    <3>8. ops'[n].generation = registry'[k].generation
      BY <2>1, <2>5, <3>1
    <3> QED
      BY <1>1, <3>1, <3>2, <3>3, <3>6, <3>7, <3>8 DEF RegistryMove
  <2> QED
    BY <2>4, <2>5
<1> QED
  BY <1>6, <1>7, <1>8

\* Every step moves the state of every key in one of those ways.
LEMMA RegistryMoves ==
    ASSUME HybridInv, Stepping, Kept, NEW k \in Keys
    PROVE  RegistryMove(k)
<1>1. ASSUME NEW i \in DOMAIN ops, Jobbing(i) \/ Fenced(i) \/ TakenUp(i) PROVE RegistryMove(k)
  BY <1>1, JobsLeaveRegistry
<1>2. ASSUME NEW i \in DOMAIN ops, Releasing(i) \/ Ending(i) PROVE RegistryMove(k)
  BY <1>2, EndsInRegistry
<1>3. ASSUME NEW n \in Nat, \/ \E y \in Keys : Mutating(n, y)
                            \/ \E l \in Lookups : Filling(n, l)
                            \/ Fencing(n)
      PROVE  RegistryMove(k)
  BY <1>3, AdmissionsInRegistry
<1>4. ASSUME NEW l \in Lookups, NEW x, Looks(l, x) PROVE RegistryMove(k)
  BY <1>4, LooksInRegistry
<1>5. ASSUME (\E y \in Keys : Forgetting(y)) \/ Trimming \/ TrimAnswered
             \/ \E id \in Ids : \E r, a : Serving(id, r, a)
      PROVE  RegistryMove(k)
  <2>1. registry' = registry /\ lookups' = lookups
    BY <1>5, ServingLeaves DEF Forgetting, Trimming, TrimAnswered
  <2>2. ops' = ops
    BY <1>5, CallsLeave
  <2> QED
    BY <2>1, <2>2, SameHolders, SameKey
<1> QED
  BY <1>1, <1>2, <1>3, <1>4, <1>5 DEF Stepping

\* The registry counts the leases and the pending mutations of a key, and keeps its state as
\* long as anybody holds it.
LEMMA LeaseKept ==
    ASSUME HybridInv, Stepping, Kept
    PROVE  registry' \in [Keys -> KeyState \cup {None}] /\ LeaseInv'
<1>1. \A k \in Keys : RegistryMove(k)
  BY RegistryMoves
<1>2. DOMAIN registry' = Keys /\ registry' = [k \in Keys |-> registry'[k]]
  <2>1. registry \in [Keys -> KeyState \cup {None}]
    BY DEF HybridInv, CallTypes
  <2>2. CASE registry' = registry
    BY <2>1, <2>2
  <2>3. CASE \E k, d : registry' = [registry EXCEPT ![k] = d]
    BY <2>1, <2>3
  <2>4. registry' = registry \/ \E k, d : registry' = [registry EXCEPT ![k] = d]
    <3>1. ASSUME NEW i \in DOMAIN ops, Jobbing(i) PROVE registry' = registry
      BY <3>1, JobbingMoves DEF Moved
    <3>2. ASSUME NEW i \in DOMAIN ops, Fenced(i) \/ TakenUp(i) PROVE registry' = registry
      BY <3>2 DEF Fenced, TakenUp
    <3>3. ASSUME NEW i \in DOMAIN ops, Releasing(i) \/ Ending(i)
          PROVE  \E k, d : registry' = [registry EXCEPT ![k] = d]
      BY <3>3, ZenonT(30) DEF Releasing, Ending
    <3>4. ASSUME NEW n, NEW k, Mutating(n, k) PROVE \E y, d : registry' = [registry EXCEPT ![y] = d]
      BY <3>4 DEF Mutating, Admitting
    <3>5. ASSUME NEW n, NEW l, Filling(n, l) PROVE \E y, d : registry' = [registry EXCEPT ![y] = d]
      BY <3>5 DEF Filling, Admitting
    <3>6. ASSUME NEW n, Fencing(n) PROVE registry' = registry
      BY <3>6 DEF Fencing
    <3>7. ASSUME NEW l, NEW x, Looks(l, x)
          PROVE  registry' = registry \/ \E k, d : registry' = [registry EXCEPT ![k] = d]
      <4>1. Answers(l, x) \/ Begins(l, x) \/ Leaves(l, x) \/ Walks(l, x)
        BY <3>7 DEF Looks
      <4>2. CASE Answers(l, x)
        BY <4>2 DEF Answers
      <4>3. CASE Begins(l, x)
        BY <4>3 DEF Begins
      <4>4. CASE Leaves(l, x)
        BY <4>4 DEF Leaves
      <4>5. CASE Walks(l, x)
        BY <4>5 DEF Walks
      <4> QED
        BY <4>1, <4>2, <4>3, <4>4, <4>5
    <3>8. ASSUME (\E y \in Keys : Forgetting(y)) \/ Trimming \/ TrimAnswered
                 \/ \E id \in Ids : \E r, a : Serving(id, r, a)
          PROVE  registry' = registry
      <4>1. CASE \E y \in Keys : Forgetting(y)
        BY <4>1 DEF Forgetting
      <4>2. CASE Trimming
        BY <4>2 DEF Trimming
      <4>3. CASE TrimAnswered
        BY <4>3 DEF TrimAnswered
      <4>4. CASE \E id \in Ids : \E r, a : Serving(id, r, a)
        BY <4>4, ServingLeaves
      <4> QED
        BY <3>8, <4>1, <4>2, <4>3, <4>4
    <3> QED
      BY <3>1, <3>2, <3>3, <3>4, <3>5, <3>6, <3>7, <3>8 DEF Stepping
  <2> QED
    BY <2>2, <2>3, <2>4
<1>3. registry' \in [Keys -> KeyState \cup {None}]
  BY <1>1, <1>2 DEF RegistryMove
<1>4. \A l \in Lookups : lookups'[l].pc # "returned" => lookups'[l].key \in Keys
  <2>1. SUFFICES ASSUME NEW l \in Lookups, lookups'[l].pc # "returned"
                 PROVE  lookups'[l].key \in Keys
    OBVIOUS
  <2>2. CASE lookups'[l] = lookups[l]
    BY <2>1, <2>2 DEF HybridInv, LeaseInv
  <2>3. CASE lookups'[l] # lookups[l]
    <3>1. PICK x \in Lookup : lookups'[l] = x /\ Looks(l, x)
      BY <2>1, <2>3, LookupsMove DEF HybridInv, CallTypes
    <3>2. Begins(l, x) \/ Walks(l, x)
      BY <2>1, <3>1 DEF Looks, Answers, Leaves
    <3> QED
      BY <3>1, <3>2 DEF Begins, Walks, HybridInv, LeaseInv
  <2> QED
    BY <2>2, <2>3
<1> QED
  BY <1>1, <1>3, <1>4 DEF LeaseInv, RegistryMove

\* The generations that lookups and mutations noted are told apart from later ones.
LEMMA GenerationKept ==
    ASSUME HybridInv, Stepping, Kept
    PROVE  GenerationInv'
<1>1. SUFFICES ASSUME NEW k \in Keys, registry'[k] # None
               PROVE  /\ \A i \in OpsOf(k)' : ops'[i].phase # "done" =>
                           /\ ops'[i].generation <= registry'[k].generation
                           /\ \A j \in OpsOf(k)' : j > i => ops'[i].generation < registry'[k].generation
                      /\ \A l \in Lookups : lookups'[l].key = k /\ lookups'[l].pc \in Noted =>
                           /\ lookups'[l].generation <= registry'[k].generation
                           /\ lookups'[l].generation = registry'[k].generation =>
                                /\ Unsettled(k)' = {}
                                /\ lookups'[l].pc = "token" => \A j \in OpsOf(k)' : j <= lookups'[l].floor
  BY DEF GenerationInv, Noted
<1> DEFINE g == registry[k].generation
           h == registry'[k].generation
<1>2. RegistryMove(k)
  BY RegistryMoves
<1>3. /\ registry'[k] \in KeyState /\ h \in Nat
      /\ registry[k] # None => g \in Nat
      /\ registry[k] = None => Holders(k) = {}
      /\ OpsOf(k) \subseteq DOMAIN ops
      /\ Len(ops) \in Nat /\ DOMAIN ops = 1..Len(ops) /\ DOMAIN ops \subseteq Nat
  <2>1. registry'[k] \in KeyState
    BY <1>1, <1>2 DEF RegistryMove
  <2>2. h \in Nat
    BY <2>1 DEF KeyState
  <2>3. /\ registry[k] # None => g \in Nat
        /\ registry[k] = None => Holders(k) = {}
    BY HolderFacts DEF KeyInv
  <2> QED
    BY <2>1, <2>2, <2>3, OpFacts DEF HybridInv, OpsOf
<1>4. ASSUME NEW i \in OpsOf(k), ops'[i].phase # "done"
      PROVE  /\ registry[k] # None /\ ops'[i].generation = ops[i].generation
             /\ ops[i].generation \in Nat /\ ops[i].generation <= g
             /\ \A j \in OpsOf(k) : j > i => ops[i].generation < g
  <2>1. /\ i \in DOMAIN ops /\ ops[i].kind \in Mutations /\ ops[i].phase # "done"
        /\ ops'[i].generation = ops[i].generation
    BY <1>4 DEF OpsOf, Kept, KeepsOp, Done
  <2>2. ops[i].generation \in Nat
    BY <2>1, JobFacts DEF Op
  <2>3. registry[k] # None
    BY <1>3, <1>4, <2>1 DEF Holders
  <2> QED
    BY <1>4, <2>1, <2>2, <2>3 DEF HybridInv, GenerationInv
<1>5. ASSUME NEW l \in Lookups, lookups'[l].key = k, lookups'[l].pc \in Noted
      PROVE  /\ registry[k] # None /\ lookups'[l].generation \in Nat
             /\ lookups'[l].generation <= g
             /\ lookups'[l].generation = g =>
                  /\ Unsettled(k) = {}
                  /\ lookups'[l].pc = "token" => \A j \in OpsOf(k) : j <= lookups'[l].floor
  <2>1. lookups \in [Lookups -> Lookup] /\ lookups[l] \in Lookup
    BY DEF HybridInv, CallTypes
  <2>2. CASE lookups'[l] = lookups[l]
    <3>1. registry[k] # None
      BY <1>5, <2>2, LookupFacts DEF Noted
    <3>2. lookups[l].generation \in Nat
      BY <2>1 DEF Lookup
    <3> QED
      BY <1>5, <2>2, <3>1, <3>2 DEF HybridInv, GenerationInv, Noted
  <2>3. CASE lookups'[l] # lookups[l]
    <3>1. PICK x \in Lookup : lookups'[l] = x /\ Looks(l, x)
      BY <1>5, <2>1, <2>3, LookupsMove DEF Noted
    <3>2. Walks(l, x)
      BY <1>5, <3>1 DEF Looks, Answers, Begins, Leaves, Noted
    <3>3. lookups[l].key = k /\ lookups[l].pc # "returned" /\ x.generation \in Nat
      BY <1>5, <3>1, <3>2 DEF Walks, Lookup
    <3>4. registry[k] # None
      BY <3>3, LookupFacts
    <3>5. registry[k].pending = 0 <=> Unsettled(k) = {}
      BY <3>4, HolderFacts
    <3>6. \/ /\ lookups[l].pc \in Noted /\ x.pc # "token" /\ x.generation = lookups[l].generation
          \/ /\ x.generation = g /\ registry[k].pending = 0
             /\ x.pc = "token" => x.floor = Len(ops)
      BY <1>5, <3>1, <3>2, <3>3 DEF Walks
    <3>7. CASE lookups[l].pc \in Noted /\ x.pc # "token" /\ x.generation = lookups[l].generation
      BY <3>1, <3>3, <3>4, <3>7 DEF HybridInv, GenerationInv, Noted
    <3>8. CASE x.generation = g /\ registry[k].pending = 0 /\ (x.pc = "token" => x.floor = Len(ops))
      <4>1. \A j \in OpsOf(k) : j <= Len(ops)
        BY <1>3, SMT
      <4> QED
        BY <1>3, <3>1, <3>3, <3>4, <3>5, <3>8, <4>1, SMT
    <3> QED
      BY <3>6, <3>7, <3>8
  <2> QED
    BY <2>2, <2>3
<1>6. CASE registry[k] # None /\ h = g /\ OpsOf(k)' = OpsOf(k) /\ Unsettled(k)' \subseteq Unsettled(k)
  BY <1>4, <1>5, <1>6
<1>7. CASE registry[k] = None /\ OpsOf(k)' = OpsOf(k)
  BY <1>4, <1>5, <1>7
<1>8. CASE /\ registry[k] # None => h = g + 1
           /\ \E n \in Nat : n = Len(ops) + 1 /\ OpsOf(k)' = OpsOf(k) \cup {n} /\ ops'[n].generation = h
  <2>1. PICK n \in Nat : n = Len(ops) + 1 /\ OpsOf(k)' = OpsOf(k) \cup {n} /\ ops'[n].generation = h
    BY <1>8
  <2>2. ASSUME NEW i \in OpsOf(k)', ops'[i].phase # "done"
        PROVE  /\ ops'[i].generation <= h
               /\ \A j \in OpsOf(k)' : j > i => ops'[i].generation < h
    <3>1. CASE i \in OpsOf(k)
      BY <1>3, <1>4, <1>8, <2>2, <3>1, SMT
    <3>2. CASE i = n
      <4>1. \A j \in OpsOf(k)' : ~(j > n)
        BY <1>3, <2>1, SMT
      <4> QED
        BY <1>3, <2>1, <3>2, <4>1, SMT
    <3> QED
      BY <2>1, <2>2, <3>1, <3>2
  <2>3. ASSUME NEW l \in Lookups, lookups'[l].key = k, lookups'[l].pc \in Noted
        PROVE  lookups'[l].generation <= h /\ lookups'[l].generation # h
    BY <1>3, <1>5, <1>8, <2>3, SMT
  <2> QED
    BY <2>2, <2>3
<1> QED
  BY <1>1, <1>2, <1>6, <1>7, <1>8 DEF RegistryMove
=============================================================================
