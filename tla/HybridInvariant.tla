-------------------------- MODULE HybridInvariant ---------------------------
(***************************************************************************)
(* The inductive invariant of HybridCache: the types of its state, and     *)
(* what the registry, the coordinator, the store's requests and the        *)
(* catalog keep to between two critical sections.  Then the effects of the *)
(* steps: what each makes of that state, as far as the invariant can tell. *)
(***************************************************************************)
EXTENDS HybridState

(***************************************************************************)
(* Types                                                                   *)
(***************************************************************************)
Working == {"start", "evict", "evicted", "wait", "put", "publish", "get", "delete", "release",
            "finish"}

Phases == Waiting \cup Working \cup {"fence", "flush"}

Op == [kind : Mutations \cup {"flush", "close"}, key : Keys \cup {None}, len : Nat,
       generation : Nat, born : Nat \cup {None}, phase : Phases, lsn : Nat,
       victim : Ids \cup {None}, result : {None, "ok", "error", "corrupt", "unwound"}]

Lookup == [pc : {"returned", "check", "wait", "probe", "get", "read", "miss", "token"},
           key : Keys \cup {None}, generation : Nat, floor : Nat, fresh : BOOLEAN]

\* Functions from a subset of D to R.
Maps(D, R) == UNION {[S -> R] : S \in SUBSET D}

Slot == [lsn : Nat, len : Nat, position : Nat, visited : BOOLEAN]

Reservation == [extra : Nat, new : Nat, allocation : Nat]

CatalogState ==
    [limits : [capacity : Nat, entries : Nat, reserve : Nat, policy : {"fifo", "sieve"}],
     slots : Maps(Ids, Slot), clock : Nat, hand : Nat, bytes : Int,
     active : Maps(Ids, Reservation),
     extra : Int, new : Int, allocation : Int, waiters : SUBSET Nat]

Request == [who : Nat \cup Lookups \cup {None}, kind : {"get", "put", "delete"}, lsn : Nat]

CallTypes ==
    /\ idOf \in [Keys -> Ids] /\ memory \in [Keys -> Nat \cup {None}]
    /\ registry \in [Keys -> KeyState \cup {None}]
    /\ admission \in {"trim", "open", "closed", "failed"}
    /\ ops \in Seq(Op) /\ Len(ops) <= MaxOps
    /\ lookups \in [Lookups -> Lookup]

JobTypes ==
    /\ taken \in Nat /\ queues \in [Ids -> Seq(Nat)]
    /\ fence \in Nat \cup {None} /\ failures \in Nat \cup {None} /\ control \in Nat \cup {None}
    /\ catalog \in CatalogState

StoreTypes ==
    /\ disk \in [Ids -> Chunk] /\ chain \in [Ids -> Seq(Request)]
    /\ reply \in [{Opener} \cup Lookups \cup 1..MaxOps -> Reply \cup {None}]
    /\ log \in [lsn : Nat, free : Int, room : Int]

(***************************************************************************)
(* The registry                                                            *)
(***************************************************************************)
\* Who holds a lease on k: lookups that have not returned and mutations not answered.
Holders(k) ==
    {l \in Lookups : lookups[l].pc # "returned" /\ lookups[l].key = k}
        \cup {i \in OpsOf(k) : ops[i].phase # "done"}

\* The mutations of k that lookups have to wait for.
Unsettled(k) == {i \in OpsOf(k) : ops[i].phase \notin {"finish", "done"}}

\* S has n members, which f numbers.
Counted(S, n) ==
    \E f \in [1..n -> S] : /\ \A x \in S : \E i \in 1..n : f[i] = x
                           /\ \A i, j \in 1..n : f[i] = f[j] => i = j

\* State e of a key with holders H and unsettled mutations U.
KeyInv(e, H, U) ==
    IF e = None THEN H = {}
    ELSE Counted(H, e.leases) /\ H # {} /\ Counted(U, e.pending)

LeaseInv ==
    /\ \A l \in Lookups : lookups[l].pc # "returned" => lookups[l].key \in Keys
    /\ \A k \in Keys : KeyInv(registry[k], Holders(k), Unsettled(k))

\* A generation is never given twice while somebody holds the key: one that is still the
\* key's belongs to its last mutation, and a lookup that noted it saw no later one.
GenerationInv ==
    \A k \in Keys : registry[k] # None =>
        /\ \A i \in OpsOf(k) : ops[i].phase # "done" =>
             /\ ops[i].generation <= registry[k].generation
             /\ \A j \in OpsOf(k) : j > i => ops[i].generation < registry[k].generation
        /\ \A l \in Lookups :
             lookups[l].key = k /\ lookups[l].pc \in {"probe", "get", "read", "miss", "token"} =>
               /\ lookups[l].generation <= registry[k].generation
               /\ lookups[l].generation = registry[k].generation =>
                    /\ Unsettled(k) = {}
                    /\ lookups[l].pc = "token" => \A j \in OpsOf(k) : j <= lookups[l].floor

\* The second half of LookupsFresh.
FillsFresh ==
    \A i \in DOMAIN ops : ops[i].born # None =>
        \A j \in OpsOf(ops[i].key) : ~(ops[i].born < j /\ j < i)

(***************************************************************************)
(* The coordinator                                                         *)
(***************************************************************************)
PhaseInv ==
    \A i \in DOMAIN ops :
        /\ IF ops[i].kind \in Mutations
           THEN ops[i].key \in Keys /\ ops[i].phase \in Waiting \cup Working
           ELSE ops[i].phase \in {"queued", "fence", "flush", "done"}
        /\ ops[i].phase \in {"evict", "evicted", "wait", "put", "publish"} =>
             ops[i].kind = "insert"
        /\ ops[i].phase \in {"get", "delete"} => ops[i].kind = "invalidate"
        /\ ops[i].result = None <=> ops[i].phase \notin {"release", "finish", "done"}

IntakeInv ==
    /\ taken <= Len(ops)
    /\ \A i \in DOMAIN ops : ops[i].phase = "queued" <=> i > taken
    /\ \A i \in DOMAIN ops : ops[i].phase \in {"fence", "flush"} => fence = i
    /\ fence # None => /\ fence = taken /\ taken > 0
                       /\ ops[fence].phase \in {"fence", "flush"}

\* A chunk's queue holds its waiting jobs in order of admission, behind a running one.
QueueInv ==
    \A id \in Ids :
        /\ \A n \in DOMAIN queues[id] :
             /\ queues[id][n] \in DOMAIN ops /\ ops[queues[id][n]].phase = "pending"
             /\ Id(queues[id][n]) = id
             /\ \A m \in 1..(n - 1) : queues[id][m] < queues[id][n]
        /\ \A i \in DOMAIN ops : ops[i].phase = "pending" /\ Id(i) = id =>
             \E n \in DOMAIN queues[id] : queues[id][n] = i
        /\ queues[id] # <<>> => \E j \in RunningJobs : Id(j) = id

\* A failure not yet reported is remembered until the next fence ends.
FailureInv ==
    \A i \in DOMAIN ops : ops[i].kind \in Mutations /\ Failed(ops[i].result) =>
        \/ failures # None
        \/ \E f \in DOMAIN ops : f > i /\ ops[f].kind \notin Mutations /\ Done(f)

(***************************************************************************)
(* The control lock, and the catalog's writes in flight                    *)
(***************************************************************************)
ControlInv ==
    /\ admission = "trim" => ops = <<>> /\ control = Opener
    /\ \A i \in DOMAIN ops :
         /\ ops[i].phase \in {"evict", "evicted", "wait", "get", "delete"} => control = i
         /\ ops[i].phase \in {"evict", "evicted", "wait"} => ops[i].len <= catalog.limits.capacity

\* A slot is written by its chunk's running job only, and evicted when it is not.
ClaimInv ==
    /\ \A id \in DOMAIN catalog.active : \E i \in DOMAIN ops : ops[i].phase = "put" /\ Id(i) = id
    /\ \A i \in DOMAIN ops :
         /\ ops[i].phase = "put" => Id(i) \in DOMAIN catalog.active
         /\ ops[i].phase = "evict" =>
              /\ ops[i].victim \in DOMAIN catalog.slots \ DOMAIN catalog.active
              /\ ops[i].victim # Id(i)
              /\ \A j \in DOMAIN ops : ops[j].phase = "publish" => Id(j) # ops[i].victim
         /\ ops[i].phase \in {"get", "delete"} =>
              Id(i) \in DOMAIN catalog.slots /\ ops[i].lsn = catalog.slots[Id(i)].lsn

(***************************************************************************)
(* The store                                                               *)
(***************************************************************************)
\* Who made a request still waits for it, and a deletion names the version of the slot.
RequestOk(id, r) ==
    \/ r.kind = "get" /\ r.who = None
    \/ /\ r.kind = "get" /\ r.who \in Lookups /\ reply[r.who] = None
       /\ lookups[r.who].pc = "read" /\ idOf[lookups[r.who].key] = id
    \/ /\ r.who \in DOMAIN ops /\ reply[r.who] = None /\ r.kind = ops[r.who].phase
       /\ Id(r.who) = id
       /\ r.kind = "delete" => r.lsn = ops[r.who].lsn
    \/ /\ r.who \in DOMAIN ops /\ reply[r.who] = None /\ r.kind = "delete"
       /\ ops[r.who].phase = "evict" /\ ops[r.who].victim = id
       /\ r.lsn = catalog.slots[id].lsn
    \/ /\ r.who = Opener /\ reply[r.who] = None /\ r.kind = "delete" /\ admission = "trim"
       /\ id \in DOMAIN catalog.slots /\ r.lsn = catalog.slots[id].lsn

ChainInv ==
    \A id \in Ids : \A n \in DOMAIN chain[id] :
        /\ RequestOk(id, chain[id][n])
        /\ \A x \in Ids : \A m \in DOMAIN chain[x] :
             chain[x][m].who = chain[id][n].who /\ chain[x][m].who # None => x = id /\ m = n

\* An answer is for the one who waits for it, and what it says still holds.
ReplyInv ==
    /\ \A i \in 1..MaxOps : reply[i] # None =>
         /\ i \in DOMAIN ops /\ ops[i].phase \in {"put", "evict", "get", "delete"}
         /\ reply[i].status # "changed"
         /\ reply[i].status = "ok" =>
              /\ ops[i].phase = "put" =>
                   /\ reply[i].chunk = disk[Id(i)] /\ disk[Id(i)].value = i
                   /\ disk[Id(i)].key = ops[i].key /\ disk[Id(i)].len = ops[i].len
              /\ ops[i].phase = "evict" => disk[ops[i].victim] = NoChunk
              /\ ops[i].phase = "get" => reply[i].chunk = disk[Id(i)]
              /\ ops[i].phase = "delete" => disk[Id(i)] = NoChunk
    /\ reply[Opener] # None =>
         /\ admission = "trim" /\ reply[Opener].status # "changed"
         /\ reply[Opener].status = "ok" => disk[reply[Opener].id] = NoChunk
    /\ \A l \in Lookups : reply[l] # None => lookups[l].pc = "read" /\ reply[l].status # "changed"

\* The catalog knows what is on the disk, except what an answer under way will tell it.
Tracks(id) ==
    IF disk[id] = NoChunk THEN id \notin DOMAIN catalog.slots
    ELSE /\ id \in DOMAIN catalog.slots
         /\ catalog.slots[id].lsn = disk[id].lsn /\ catalog.slots[id].len = disk[id].len

Answered(i, id) ==
    /\ reply[i] # None /\ reply[i].status = "ok"
    /\ \/ ops[i].phase \in {"put", "delete"} /\ Id(i) = id
       \/ ops[i].phase = "evict" /\ ops[i].victim = id

TrackInv ==
    \A id \in Ids :
        \/ Tracks(id)
        \/ \E i \in DOMAIN ops : Answered(i, id)
        \/ reply[Opener] # None /\ reply[Opener].status = "ok" /\ reply[Opener].id = id

(***************************************************************************)
(* Freshness                                                               *)
(***************************************************************************)
\* The write of i reached the disk and is not reported as failed.
Stored(i) ==
    \/ ops[i].phase = "put" /\ reply[i] # None /\ reply[i].status = "ok"
    \/ ops[i].phase = "publish"
    \/ ops[i].result \in {"ok", "unwound"}

\* No mutation of k behind v has succeeded.
NothingNewer(k, v) == \A j \in OpsOf(k) : j > v => ops[j].result \in {None, "error", "corrupt"}

Current(id, c) ==
    /\ c.key \in Keys /\ idOf[c.key] = id /\ c.lsn \in 1..log.lsn
    /\ c.value = 0 \/ (c.value \in OpsOf(c.key) /\ Stored(c.value))
    /\ NothingNewer(c.key, c.value)

DiskInv ==
    /\ \A id \in Ids : disk[id] # NoChunk => Current(id, disk[id])
    /\ \A i \in DOMAIN ops : ops[i].phase = "publish" =>
         disk[Id(i)].value = i /\ disk[Id(i)].key = ops[i].key

\* What a lookup has read is the chunk of its version, and current until its slot goes.
ReadInv ==
    \A l \in Lookups :
        LET id == idOf[lookups[l].key]
            c == reply[l].chunk
        IN  reply[l] # None /\ reply[l].status = "ok" /\ c # NoChunk =>
              /\ c.lsn \in 1..log.lsn
              /\ c.lsn = disk[id].lsn => c = disk[id]
              /\ disk[id] = NoChunk /\ id \in DOMAIN catalog.slots
                    /\ catalog.slots[id].lsn = c.lsn => Current(id, c)

\* Value v of k was not reported as failed, and no mutation behind it can replace it.
Serves(k, v) ==
    /\ v = 0 \/ (v \in OpsOf(k) /\ ops[v].result \in {"ok", "unwound"})
    /\ \A j \in OpsOf(k) : j > v => Failed(ops[j].result)

MemoryInv == \A k \in Keys : memory[k] # None => Serves(k, memory[k])

\* The floor of a lookup that has not missed is a mutation answered with success, or none.
FloorInv ==
    \A l \in Lookups :
        /\ lookups[l].fresh
        /\ lookups[l].pc \notin {"returned", "token"} /\ lookups[l].floor # 0 =>
             /\ lookups[l].floor \in OpsOf(lookups[l].key)
             /\ Done(lookups[l].floor) /\ ops[lookups[l].floor].result = "ok"

\* No job meets a version it did not expect; the second half of CatalogTracksStore.
NoneCorrupt == \A i \in DOMAIN ops : ops[i].result # "corrupt"

JobInv == PhaseInv /\ IntakeInv /\ QueueInv /\ FailureInv /\ CoordinatorOrder

HybridInv ==
    /\ CallTypes /\ JobTypes /\ StoreTypes
    /\ LeaseInv /\ GenerationInv /\ FillsFresh
    /\ JobInv /\ NoneCorrupt
    /\ ControlInv /\ ClaimInv /\ ChainInv /\ ReplyInv /\ TrackInv
    /\ DiskInv /\ ReadInv /\ MemoryInv /\ FloorInv

(***************************************************************************)
(* What a step makes of the catalog and of the operations                  *)
(***************************************************************************)
\* cat and new differ at most in hand, marks, counters and the slot of id.
SameBut(cat, new, id) ==
    /\ new \in CatalogState /\ new.limits = cat.limits
    /\ DOMAIN new.slots \ {id} = DOMAIN cat.slots \ {id}
    /\ \A x \in DOMAIN cat.slots \ {id} :
         new.slots[x].lsn = cat.slots[x].lsn /\ new.slots[x].len = cat.slots[x].len

\* cat and new have the same slots in the same versions, and the same writes in flight.
SameSlots(cat, new) ==
    /\ new \in CatalogState /\ new.limits = cat.limits /\ new.active = cat.active
    /\ DOMAIN new.slots = DOMAIN cat.slots
    /\ \A x \in DOMAIN cat.slots :
         new.slots[x].lsn = cat.slots[x].lsn /\ new.slots[x].len = cat.slots[x].len

\* Operation i changes, none else, and what it was admitted with stays.
Changed(i) ==
    /\ i \in DOMAIN ops /\ ops' \in Seq(Op)
    /\ Len(ops') = Len(ops) /\ DOMAIN ops' = DOMAIN ops
    /\ \A j \in DOMAIN ops : j # i => ops'[j] = ops[j]
    /\ ops'[i].kind = ops[i].kind /\ ops'[i].key = ops[i].key /\ ops'[i].len = ops[i].len

\* The running job i goes on, and ends its work with an outcome at "release".
Moved(i) ==
    /\ Changed(i) /\ ops[i].kind \in Mutations
    /\ ops'[i].generation = ops[i].generation /\ ops'[i].born = ops[i].born
    /\ ops[i].phase \in Working \ {"release", "finish"}
    /\ ops'[i].phase \in Working \ {"start", "finish"}
    /\ ops'[i].phase \in {"evict", "evicted", "wait", "put", "publish"} => ops[i].kind = "insert"
    /\ ops'[i].phase \in {"get", "delete"} => ops[i].kind = "invalidate"
    /\ IF ops'[i].phase = "release"
       THEN /\ ops'[i].result # None
            /\ failures' = IF Failed(ops'[i].result) /\ failures = None THEN i ELSE failures
       ELSE ops'[i].result = None /\ failures' = failures
    /\ UNCHANGED <<idOf, registry, taken, queues, fence, lookups>>

\* An operation is admitted: the last one, still in the channel.
Added ==
    LET n == Len(ops) + 1
    IN  /\ ops' \in Seq(Op) /\ Len(ops') = n /\ n <= MaxOps
        /\ DOMAIN ops' = DOMAIN ops \cup {n} /\ n \notin DOMAIN ops
        /\ \A j \in DOMAIN ops : ops'[j] = ops[j] /\ j < n
        /\ ops'[n].phase = "queued" /\ ops'[n].result = None
        /\ ops'[n].kind \in Mutations => ops'[n].key \in Keys
        /\ UNCHANGED <<idOf, jobVars>>

(***************************************************************************)
(* What the steps of a job do                                              *)
(***************************************************************************)
\* A write reserves its slot and asks the store, or evicts, or waits, or fails.
Reserving(i) ==
    /\ Moved(i) /\ ops[i].phase \in {"start", "evicted", "wait"}
    /\ \/ /\ ops'[i].phase = "release" /\ ops'[i].result = "error" /\ ops[i].phase = "start"
          /\ UNCHANGED <<catalog, chain, control>>
       \/ /\ control \in {None, i} /\ ops[i].len <= catalog.limits.capacity
          /\ \/ /\ ops'[i].phase = "release" /\ ops'[i].result = "error" /\ control' = None
                /\ SameSlots(catalog, catalog') /\ chain' = chain
             \/ /\ ops'[i].phase = "wait" /\ control' = i
                /\ SameSlots(catalog, catalog') /\ chain' = chain
             \/ /\ ops'[i].phase = "put" /\ control' = None
                /\ catalog' \in CatalogState /\ catalog'.limits = catalog.limits
                /\ catalog'.slots = catalog.slots
                /\ DOMAIN catalog'.active = DOMAIN catalog.active \cup {Id(i)}
                /\ Ask(Id(i), i, "put", 0)
             \/ /\ ops'[i].phase = "evict" /\ control' = i
                /\ ops'[i].victim \in Evictable(catalog, Id(i))
                /\ SameSlots(catalog, catalog')
                /\ Ask(ops'[i].victim, i, "delete", catalog.slots[ops'[i].victim].lsn)
    /\ UNCHANGED <<memory, admission, disk, reply, log>>

\* The answer to an eviction: the slot goes and the write looks again, or it fails.
Evicting(i) ==
    /\ Moved(i) /\ ops[i].phase = "evict" /\ reply[i] # None /\ Heard(i)
    /\ \/ /\ reply[i].status = "ok" /\ ops'[i].phase = "evicted" /\ control' = control
          /\ SameBut(catalog, catalog', ops[i].victim) /\ catalog'.active = catalog.active
          /\ ops[i].victim \notin DOMAIN catalog'.slots
       \/ /\ reply[i].status # "ok" /\ ops'[i].phase = "release" /\ ops'[i].result = "error"
          /\ control' = None /\ catalog' = catalog
    /\ UNCHANGED <<memory, admission, disk, chain, log>>

\* The answer to a put: the slot is the new version's, or stays, and is active no more.
Putting(i) ==
    /\ Moved(i) /\ ops[i].phase = "put" /\ reply[i] # None /\ Heard(i)
    /\ SameBut(catalog, catalog', Id(i))
    /\ DOMAIN catalog'.active = DOMAIN catalog.active \ {Id(i)}
    /\ \/ /\ reply[i].status = "ok" /\ ops'[i].phase = "publish"
          /\ Id(i) \in DOMAIN catalog'.slots
          /\ catalog'.slots[Id(i)].lsn = reply[i].chunk.lsn
          /\ catalog'.slots[Id(i)].len = ops[i].len
       \/ /\ reply[i].status # "ok" /\ ops'[i].phase = "release" /\ ops'[i].result = "error"
          /\ catalog'.slots = catalog.slots
    /\ UNCHANGED <<memory, admission, control, disk, chain, log>>

\* A stored write is published, or not, and the job ends well or unwinds.
Publishing(i) ==
    /\ Moved(i) /\ ops[i].phase = "publish"
    /\ ops'[i].phase = "release" /\ ops'[i].result \in {"ok", "unwound"}
    /\ IF Publishes(i)
       THEN \E v \in {i, None} : memory' = [memory EXCEPT ![ops[i].key] = v]
       ELSE memory' = memory
    /\ UNCHANGED <<admission, control, catalog, disk, chain, reply, log>>

\* An invalidation notes the slot's version and asks for the chunk, or has nothing to do.
Versioning(i) ==
    /\ Moved(i) /\ ops[i].phase = "start" /\ control = None /\ ops[i].kind = "invalidate"
    /\ \/ /\ ops'[i].phase = "release" /\ ops'[i].result = "ok"
          /\ Id(i) \in DOMAIN catalog.active \/ Id(i) \notin DOMAIN catalog.slots
          /\ UNCHANGED <<chain, control>>
       \/ /\ ops'[i].phase = "get" /\ Id(i) \in DOMAIN catalog.slots \ DOMAIN catalog.active
          /\ ops'[i].lsn = catalog.slots[Id(i)].lsn /\ control' = i
          /\ Ask(Id(i), i, "get", 0)
    /\ UNCHANGED <<memory, admission, catalog, disk, reply, log>>

\* The chunk an invalidation asked for is of the version it noted; it is deleted if it holds
\* the key.
Getting(i) ==
    /\ Moved(i) /\ ops[i].phase = "get" /\ reply[i] # None /\ Heard(i)
    /\ \/ /\ reply[i].status # "ok" /\ ops'[i].phase = "release" /\ ops'[i].result = "error"
          /\ control' = None /\ chain' = chain
       \/ /\ reply[i].status = "ok" /\ disk[Id(i)] # NoChunk /\ disk[Id(i)].key # ops[i].key
          /\ ops'[i].phase = "release" /\ ops'[i].result = "ok"
          /\ control' = None /\ chain' = chain
       \/ /\ reply[i].status = "ok" /\ disk[Id(i)].key = ops[i].key
          /\ ops'[i].phase = "delete" /\ ops'[i].lsn = ops[i].lsn
          /\ control' = control /\ Ask(Id(i), i, "delete", ops[i].lsn)
    /\ UNCHANGED <<memory, admission, catalog, disk, log>>

Deleting(i) ==
    /\ Moved(i) /\ ops[i].phase = "delete" /\ reply[i] # None /\ Heard(i)
    /\ ops'[i].phase = "release" /\ control' = None
    /\ \/ /\ reply[i].status = "ok" /\ ops'[i].result = "ok"
          /\ SameBut(catalog, catalog', Id(i)) /\ catalog'.active = catalog.active
          /\ Id(i) \notin DOMAIN catalog'.slots
       \/ reply[i].status # "ok" /\ ops'[i].result = "error" /\ catalog' = catalog
    /\ UNCHANGED <<memory, admission, disk, chain, log>>

\* The coordinator takes operation i from its channel.
Taking(i) ==
    /\ Changed(i) /\ i = taken + 1 /\ taken' = i /\ fence = None /\ ops[i].phase = "queued"
    /\ ops'[i].result = ops[i].result /\ ops'[i].born = ops[i].born
    /\ ops'[i].generation = ops[i].generation
    /\ \/ /\ ops[i].kind \notin Mutations /\ ops'[i].phase = "fence" /\ fence' = i
          /\ queues' = queues
       \/ /\ ops[i].kind \in Mutations /\ ops'[i].phase = "pending" /\ fence' = fence
          /\ queues' = [queues EXCEPT ![Id(i)] = Append(@, i)]
          /\ \E j \in RunningJobs : Id(j) = Id(i)
       \/ /\ ops[i].kind \in Mutations /\ ops'[i].phase = "start" /\ fence' = fence
          /\ queues' = queues
          /\ ~\E j \in RunningJobs : Id(j) = Id(i)
    /\ UNCHANGED <<idOf, failures>>

\* Job i is done, and the next of its chunk, if one waits, starts.
Finishing(i) ==
    LET queue == queues[Id(i)]
        h == queue[1]
    IN  /\ i \in DOMAIN ops /\ ops[i].phase = "finish" /\ ops[i].kind \in Mutations
        /\ ops' \in Seq(Op) /\ Len(ops') = Len(ops) /\ DOMAIN ops' = DOMAIN ops
        /\ ops'[i].kind = ops[i].kind /\ ops'[i].key = ops[i].key /\ ops'[i].len = ops[i].len
        /\ ops'[i].result = ops[i].result /\ ops'[i].phase = "done" /\ ops'[i].born = None
        /\ IF queue = <<>>
           THEN /\ \A j \in DOMAIN ops : j # i => ops'[j] = ops[j]
                /\ queues' = queues
           ELSE /\ h \in DOMAIN ops /\ h # i /\ ops[h].phase = "pending" /\ Id(h) = Id(i)
                /\ ops'[h] = [ops[h] EXCEPT !.phase = "start"]
                /\ \A j \in DOMAIN ops : j \notin {h, i} => ops'[j] = ops[j]
                /\ queues' = [queues EXCEPT ![Id(i)] = Tail(queue)]
        /\ UNCHANGED <<idOf, taken, fence, failures>>

(***************************************************************************)
(* What the steps of a lookup do                                           *)
(***************************************************************************)
\* Where a lookup has noted the generation of its key.
Noted == {"probe", "get", "read", "miss", "token"}

\* A lease on a key in state e is given back; a lookup that waits takes its name back, too.
Drops(e, d) ==
    \/ d = dropLease(e)
    \/ dropLease(e) # None /\ \E w \in SUBSET Lookups : d = [dropLease(e) EXCEPT !.waiters = w]

\* From "returned" a lookup is answered at once, or takes a lease.
Answers(l, x) == lookups[l].pc = "returned" /\ x.pc = "returned" /\ registry' = registry

Begins(l, x) ==
    /\ lookups[l].pc = "returned" /\ x.pc = "check" /\ x.key \in Keys /\ x.floor = Newest(x.key)
    /\ registry' = [registry EXCEPT ![x.key] = acquire(@)]

\* It gives the lease back when it returns.
Leaves(l, x) ==
    /\ lookups[l].pc # "returned" /\ x.pc = "returned"
    /\ \E d : /\ registry' = [registry EXCEPT ![lookups[l].key] = d]
              /\ Drops(registry[lookups[l].key], d)

\* In between it keeps its key, and notes the generation when no mutation is unsettled.
Walks(l, x) ==
    LET k == lookups[l].key
    IN  /\ lookups[l].pc \notin {"returned", "token"} /\ x.pc # "returned" /\ x.key = k
        /\ x.pc # "token" => x.floor = lookups[l].floor
        /\ x.pc \in Noted =>
             \/ /\ lookups[l].pc \in Noted /\ x.pc # "token"
                /\ x.generation = lookups[l].generation
             \/ /\ x.generation = registry[k].generation /\ registry[k].pending = 0
                /\ x.pc = "token" => x.floor = Len(ops)
        /\ \/ registry' = registry
           \/ \E w \in SUBSET Lookups :
                registry' = [registry EXCEPT ![k] = [registry[k] EXCEPT !.waiters = w]]

Looks(l, x) ==
    LET k == lookups[l].key
    IN  /\ x \in Lookup /\ x.fresh /\ lookups' = [lookups EXCEPT ![l] = x]
        /\ Answers(l, x) \/ Begins(l, x) \/ Leaves(l, x) \/ Walks(l, x)
        /\ \/ lookups[l].pc # "read" /\ x.pc # "read" /\ UNCHANGED <<memory, catalog, chain, reply>>
           \/ /\ lookups[l].pc = "get" /\ x.pc = "read" /\ Ask(idOf[k], l, "get", 0)
              /\ UNCHANGED <<memory, catalog, reply>>
           \/ /\ lookups[l].pc = "read" /\ x.pc # "read" /\ reply[l] # None /\ Heard(l)
              /\ SameSlots(catalog, catalog') /\ chain' = chain
              /\ \/ memory' = memory
                 \/ \E v \in Nat \cup {None} : /\ memory' = [memory EXCEPT ![k] = v]
                                               /\ v # None => Serves(k, v)
           \/ /\ lookups[l].pc # "returned" /\ x.pc = "returned" /\ Heard(l)
              /\ chain' = [id \in Ids |-> [n \in DOMAIN chain[id] |->
                              IF chain[id][n].who = l THEN [chain[id][n] EXCEPT !.who = None]
                              ELSE chain[id][n]]]
              /\ UNCHANGED <<memory, catalog>>
        /\ UNCHANGED <<idOf, admission, ops, taken, queues, fence, failures, control, disk, log>>

(***************************************************************************)
(* What an admission does                                                  *)
(***************************************************************************)
\* Operation n, a mutation of k, is admitted, and e is the key's state from then on.
Admitting(n, k, e) ==
    /\ Added /\ n = Len(ops) + 1 /\ n \in Nat /\ admission = "open" /\ admission' = admission
    /\ k \in Keys /\ ops'[n].kind \in Mutations /\ ops'[n].key = k
    /\ ops'[n].generation = e.generation
    /\ registry' = [registry EXCEPT ![k] = e] /\ memory' = [memory EXCEPT ![k] = None]
    /\ UNCHANGED <<catalog, disk, chain, reply, log>>

Mutating(n, k) ==
    /\ Admitting(n, k, advance(acquire(registry[k])))
    /\ ops'[n].born = None /\ lookups' = lookups

Filling(n, l) ==
    /\ lookups[l].pc = "token" /\ ValidToken(l)
    /\ Admitting(n, lookups[l].key, advance(registry[lookups[l].key]))
    /\ ops'[n].born = lookups[l].floor /\ lookups' = [lookups EXCEPT ![l] = NotLooking]

Fencing(n) ==
    /\ Added /\ n = Len(ops) + 1 /\ n \in Nat /\ admission = "open" /\ admission' \in {"open", "closed"}
    /\ ops'[n].kind \notin Mutations /\ ops'[n].born = None
    /\ UNCHANGED <<memory, registry, lookups, catalog, disk, chain, reply, log>>

\* Mutation's release: what the job changed of its operation and of its key.
Releasing(i) ==
    /\ Changed(i) /\ ops[i].kind \in Mutations /\ ops[i].phase = "release" /\ ops'[i].phase = "finish"
    /\ ops'[i].result = ops[i].result /\ ops'[i].born = ops[i].born
    /\ ops'[i].generation = ops[i].generation
    /\ registry' = [registry EXCEPT ![ops[i].key] = dropMutation(@)]
    /\ UNCHANGED <<idOf, memory, admission, lookups, taken, queues, fence, failures, control>>
    /\ UNCHANGED <<catalog, disk, chain, reply, log>>

(***************************************************************************)
(* What the store and Cache::new do                                        *)
(***************************************************************************)
\* The first request of a chunk is answered with a.
Serving(id, r, a) ==
    /\ id \in Ids /\ chain[id] # <<>> /\ r = chain[id][1] /\ r \in Request /\ RequestOk(id, r)
    /\ chain' = [chain EXCEPT ![id] = Tail(chain[id])]
    /\ a \in Reply /\ a.id = id /\ a.status \in {"ok", "error"}
    /\ reply' = IF r.who = None THEN reply ELSE [reply EXCEPT ![r.who] = a]
    /\ log' \in [lsn : Nat, free : Int, room : Int]
    /\ \/ a.status = "error" /\ UNCHANGED <<disk, log>>
       \/ a.status = "ok" /\ r.kind = "get" /\ a.chunk = disk[id] /\ UNCHANGED <<disk, log>>
       \/ /\ a.status = "ok" /\ r.kind = "put" /\ log'.lsn = log.lsn + 1
          /\ a.chunk.lsn = log.lsn + 1 /\ a.chunk.value = r.who
          /\ a.chunk.key = ops[r.who].key /\ a.chunk.len = ops[r.who].len
          /\ disk' = [disk EXCEPT ![id] = a.chunk]
       \/ /\ a.status = "ok" /\ r.kind = "delete" /\ log'.lsn = log.lsn + 1
          /\ disk[id] # NoChunk /\ disk' = [disk EXCEPT ![id] = NoChunk]
    /\ UNCHANGED <<idOf, memory, registry, admission, ops, taken, queues, fence, failures, control>>
    /\ UNCHANGED <<catalog, lookups>>

\* A step of the trimming: the cache opens, or a victim's deletion is asked for.
Trimming ==
    /\ admission = "trim" /\ ops = <<>> /\ reply[Opener] = None /\ \A id \in Ids : chain[id] = <<>>
    /\ \/ admission' = "open" /\ control' = None /\ UNCHANGED <<catalog, chain>>
       \/ /\ SameSlots(catalog, catalog') /\ UNCHANGED <<admission, control>>
          /\ \/ chain' = chain
             \/ \E id \in DOMAIN catalog.slots : Ask(id, Opener, "delete", catalog.slots[id].lsn)
    /\ UNCHANGED <<idOf, memory, registry, ops, lookups, taken, queues, fence, failures>>
    /\ UNCHANGED <<disk, reply, log>>

\* The answer: the victim's slot goes, or there is no cache.
TrimAnswered ==
    /\ admission = "trim" /\ ops = <<>> /\ reply[Opener] # None /\ Heard(Opener)
    /\ \/ /\ reply[Opener].status = "ok" /\ UNCHANGED <<admission, control>>
          /\ SameBut(catalog, catalog', reply[Opener].id) /\ catalog'.active = catalog.active
          /\ reply[Opener].id \notin DOMAIN catalog'.slots
       \/ /\ reply[Opener].status # "ok" /\ admission' = "failed" /\ control' = None
          /\ catalog' = catalog
    /\ UNCHANGED <<idOf, memory, registry, ops, lookups, taken, queues, fence, failures>>
    /\ UNCHANGED <<disk, chain, log>>

(***************************************************************************)
(* All steps                                                               *)
(***************************************************************************)
Jobbing(i) ==
    \/ Reserving(i) \/ Evicting(i) \/ Putting(i) \/ Publishing(i)
    \/ Versioning(i) \/ Getting(i) \/ Deleting(i)

\* The end of a job gives its lease back.
Ending(i) ==
    /\ Finishing(i) /\ registry' = [registry EXCEPT ![ops[i].key] = dropLease(@)]
    /\ UNCHANGED <<memory, admission, lookups, control, catalog, disk, chain, reply, log>>

\* A fence begins or ends; closing empties memory.
\* A fence waits until nothing runs; when the store has answered, it takes the failure
\* recorded before it.
Fences(i) ==
    /\ Changed(i) /\ ops[i].kind \notin Mutations /\ fence = i /\ i = taken /\ i \in Nat
    /\ ops'[i].born = ops[i].born
    /\ \/ /\ ops[i].phase = "fence" /\ ops'[i].phase = "flush"
          /\ ops'[i].result = ops[i].result /\ fence' = fence /\ failures' = failures
          /\ RunningJobs = {}
       \/ /\ ops[i].phase = "flush" /\ ops'[i].phase = "done"
          /\ ops'[i].result \in {"ok", "error"} /\ fence' = None
          /\ failures # None => ops'[i].result = "error"
          /\ failures' = None
    /\ UNCHANGED <<idOf, taken, queues>>

Fenced(i) ==
    /\ Fences(i)
    /\ memory' \in {memory, [k \in Keys |-> None]}
    /\ UNCHANGED <<idOf, registry, admission, lookups, taken, queues, control, catalog>>
    /\ UNCHANGED <<disk, chain, reply, log>>

TakenUp(i) ==
    /\ Taking(i)
    /\ UNCHANGED <<memory, registry, admission, lookups, control, catalog, disk, chain, reply, log>>

Forgetting(k) ==
    /\ memory' = [memory EXCEPT ![k] = None]
    /\ UNCHANGED <<idOf, registry, admission, ops, lookups, taken, queues, fence, failures>>
    /\ UNCHANGED <<control, catalog, disk, chain, reply, log>>

Stepping ==
    \/ \E i \in DOMAIN ops : Thread(i) /\ Jobbing(i)
    \/ \E i \in DOMAIN ops : Releasing(i) \/ Ending(i) \/ Fenced(i) \/ TakenUp(i)
    \/ \E n \in Nat :
         (\E k \in Keys : Mutating(n, k)) \/ (\E l \in Lookups : Filling(n, l)) \/ Fencing(n)
    \/ \E l \in Lookups : \E x : Looks(l, x)
    \/ \E k \in Keys : Forgetting(k)
    \/ Trimming \/ TrimAnswered
    \/ \E id \in Ids : \E r, a : Serving(id, r, a)

\* What no step changes of an operation: what it was admitted with, and what it has come to.
KeepsOp(j) ==
    /\ j \in DOMAIN ops' /\ Id(j)' = Id(j)
    /\ ops'[j].kind = ops[j].kind /\ ops'[j].key = ops[j].key /\ ops'[j].len = ops[j].len
    /\ ops[j].result # None => ops'[j].result = ops[j].result
    /\ Done(j) => Done(j)'
    /\ ops[j].phase \in {"finish", "done"} => ops'[j].phase \in {"finish", "done"}
    /\ ops'[j].born \in {ops[j].born, None}
    /\ ops[j].kind \in Mutations /\ ops'[j].phase # "done" => ops'[j].generation = ops[j].generation

Kept ==
    /\ idOf' = idOf /\ ops' \in Seq(Op) /\ Len(ops') <= MaxOps
    /\ DOMAIN ops' = DOMAIN ops \/ Added
    /\ \A j \in DOMAIN ops : KeepsOp(j)
=============================================================================
