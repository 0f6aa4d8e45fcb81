----------------------------- MODULE Durability -----------------------------
(***************************************************************************)
(* What survives a crash: the bytes the engine puts on its device, the     *)
(* order of its writes and syncs (pipeline/, engine/lifecycle.rs), offline *)
(* formatting (engine/layout.rs), recovery at the next open                *)
(* (engine/recovery.rs) and the LSNs a session hands out                   *)
(* (moat-server, storage/mod.rs).                                          *)
(*                                                                         *)
(* The device is a set of areas.  A write is visible to readers once it    *)
(* completes (`cached') and survives power loss once a sync that started   *)
(* later completes (`durable').  Superblocks, allocation headers and       *)
(* trailers fit in one sector and are old or new after a crash; frames and *)
(* footer metadata span several and may also be torn.  Poll order and      *)
(* queue slots are the subject of Pipeline and are left out here.          *)
(***************************************************************************)
EXTENDS Integers, Sequences, FiniteSets

CONSTANTS
    SegmentCount,   \* slots of the device
    SegmentFrames,  \* frames that fit in one segment
    PrefixFrames,   \* a footer of so many frames needs more than its final page
    Depth,          \* writes in flight
    Plans,          \* what to consider: records of a SyncMode and bounds on LSNs, errors, formats
    MaxRuns, MaxCrashes,                    \* bounds
    Zero, Torn,     \* an area never written or zeroed; one partly written
    None

ASSUME DurabilityAssumption ==
    /\ {SegmentCount, SegmentFrames, PrefixFrames, Depth, MaxRuns} \subseteq Nat \ {0}
    /\ MaxCrashes \in Nat
    /\ Plans \subseteq [sync_mode : {"Enabled", "Disabled"}, lsns : Nat, errors : Nat, formats : Nat]

Numbers == 0..SegmentCount - 1
Offsets == 1..SegmentFrames
Supers == {<<"super", c>> : c \in {"a", "b"}}
Areas == Supers \cup ({"header", "prefix", "meta", "trailer"} \X Numbers)
                \cup ({"frame"} \X Numbers \X Offsets)

Header(n) == <<"header", n>>
Prefix(n) == <<"prefix", n>>
Meta(n) == <<"meta", n>>            \* the metadata in the final page
Trailer(n) == <<"trailer", n>>      \* the last 64 bytes of the final page
FrameAt(n, i) == <<"frame", n, i>>
MultiSector(x) == x[1] \in {"frame", "prefix", "meta"}

VARIABLES
    plan,               \* Options.sync_mode and the bounds, fixed
    cached, durable,    \* what each area holds for readers, and after power loss
    flight,             \* what a write in the queue puts in each area, or None
    barrier,            \* what the sync in the queue makes durable, or None
    mode,               \* down, format, ready, failed, or corrupt: recovery refused
    first,              \* Layout.sequence: slot n has generation first + n
    used, active,       \* allocated slots and the writable one
    appended,           \* the builder: frames placed in the active slot
    writes,             \* frame writes in submission order: [at, stage]
    failed,             \* failed_at is set
    flush,              \* none, queued, sync
    job,                \* the lifecycle job
    step,               \* of format
    next_lsn,
    run,                \* how often the device was opened
    log,                \* history: frames accepted or recovered, in order
    reported,           \* history: greatest LSN reported written, or recovered, that power
                        \* loss has not taken back
    promised,           \* history: greatest LSN reported durable; LSNs count from 1 and only
                        \* a format takes these two back
    issued, crashes, errors, formats    \* history: greatest generation used; bounds

deviceVars == <<cached, durable, flight, barrier>>
engineVars == <<first, used, active, appended, writes, failed, flush, job, next_lsn, run>>
crashVars == <<issued, crashes, formats>>
boundVars == <<crashVars, errors>>
historyVars == <<log, reported, promised>>
vars == <<plan, deviceVars, engineVars, mode, step, historyVars, boundVars>>

Init ==
    /\ plan \in Plans
    /\ cached = [x \in Areas |-> Zero] /\ durable = cached
    /\ flight = [x \in Areas |-> None] /\ barrier = None
    /\ mode = "down" /\ first = 0 /\ used = {} /\ active = None /\ appended = <<>>
    /\ writes = <<>> /\ failed = FALSE /\ flush = "none" /\ job = None /\ step = "none"
    /\ next_lsn = 1 /\ run = 0
    /\ log = <<>> /\ reported = 0 /\ promised = 0 /\ issued = 0 /\ crashes = 0 /\ errors = 0
    /\ formats = 0

SyncEnabled == plan.sync_mode = "Enabled"

(***************************************************************************)
(* The device                                                              *)
(***************************************************************************)
\* How a request ends; the device fails at most plan.errors of them.
Outcome(ok) == IF ok THEN UNCHANGED errors ELSE errors < plan.errors /\ errors' = errors + 1

Put(image, areas, values) == [x \in Areas |-> IF x \in areas THEN values[x] ELSE image[x]]

\* A request that puts `content' on the device; the queue holds it until it completes.
Start(content) ==
    flight' = [x \in Areas |-> IF x \in DOMAIN content THEN content[x] ELSE flight[x]]

InFlight == {x \in Areas : flight[x] # None}
ControlAreas == InFlight \ {writes[i].at : i \in DOMAIN writes}

Settled(xs) == flight' = [x \in Areas |-> IF x \in xs THEN None ELSE flight[x]]

\* A write that fails, or is cut short by a crash, may have changed any part of its areas.
Uncertain(old, new, xs) ==
    {[x \in Areas |-> IF x \in torn THEN Torn
                      ELSE IF x \in kept THEN new[x] ELSE old[x]] :
        kept \in SUBSET xs, torn \in SUBSET {x \in xs : MultiSector(x)}}

FinishWrite(xs, ok) ==
    /\ IF ok THEN cached' = Put(cached, xs, flight)
             ELSE cached' \in Uncertain(cached, flight, xs)
    /\ Settled(xs)

StartSync == barrier' = cached

\* A sync covers what had completed when it was submitted.
FinishSync(ok) ==
    /\ IF ok THEN durable' = [x \in Areas |-> IF cached[x] = barrier[x] THEN cached[x]
                                              ELSE durable[x]]
             ELSE UNCHANGED durable
    /\ barrier' = None

(***************************************************************************)
(* Recovery of an image                                                    *)
(***************************************************************************)
Layouts(image) == {image[x] : x \in Supers} \ {Zero}

\* The next frame of generation `seq' is complete and in place.
Valid(image, n, i, seq) ==
    /\ image[FrameAt(n, i)] \notin {Zero, Torn}
    /\ image[FrameAt(n, i)].seq = seq

\* How far Scanner gets in an unsealed segment: to the first frame that does not validate.
Scanned(image, n, seq) ==
    CHOOSE k \in 0..SegmentFrames :
        /\ \A i \in 1..k : Valid(image, n, i, seq)
        /\ k < SegmentFrames => ~Valid(image, n, k + 1, seq)

FooterComplete(image, n) ==
    LET frames == image[Trailer(n)].frames
    IN  /\ image[Meta(n)] = frames
        /\ Len(frames) >= PrefixFrames => image[Prefix(n)] = frames

Unused(image, n) == image[Header(n)] = Zero /\ image[Meta(n)] = Zero /\ image[Trailer(n)] = Zero
Sealed(image, n) == image[Trailer(n)] # Zero

\* Recovery refuses a slot whose pages contradict each other or whose sealed frames are gone.
Corrupt(image, n, seq) ==
    IF image[Header(n)] = Zero
    THEN ~Unused(image, n)
    ELSE \/ image[Header(n)] # seq
         \/ Sealed(image, n) /\ image[Trailer(n)].seq # seq
         \/ /\ Sealed(image, n) /\ ~FooterComplete(image, n)
            /\ \E i \in DOMAIN image[Trailer(n)].frames : ~Valid(image, n, i, seq)

\* The frames recovery puts in the index: a complete footer is trusted without reading them.
Recovered(image, n, seq) ==
    IF image[Header(n)] = Zero THEN <<>>
    ELSE IF Sealed(image, n)
         THEN IF FooterComplete(image, n)
              THEN image[Trailer(n)].frames
              ELSE [i \in DOMAIN image[Trailer(n)].frames |-> image[FrameAt(n, i)]]
         ELSE [i \in 1..Scanned(image, n, seq) |-> image[FrameAt(n, i)]]

RecoveredFrames(image, base) ==
    UNION {{Recovered(image, n, base + n)[i] : i \in DOMAIN Recovered(image, n, base + n)} :
              n \in Numbers}

LsnsOf(frames) == {f.lsn : f \in frames}
Greatest(lsns) == IF lsns = {} THEN 0 ELSE CHOOSE l \in lsns : \A m \in lsns : m <= l

NextLsnOfNewest(frames) == IF frames = {} THEN 1 ELSE Greatest(LsnsOf(frames))

NextLsn(frames) == Greatest(LsnsOf(frames)) + 1

\* Frames in LSN order, which is the order in which they were accepted.
InOrder(frames) ==
    [i \in 1..Cardinality(frames) |->
        CHOOSE f \in frames : Cardinality({g \in frames : g.lsn <= f.lsn}) = i]

(***************************************************************************)
(* Opening a session                                                       *)
(***************************************************************************)
AllocatedAndSealed(image) == {n \in Numbers : image[Header(n)] # Zero /\ Sealed(image, n)}

\* A slot once allocated is never written again, sealed or not.
Allocated(image) == {n \in Numbers : image[Header(n)] # Zero}

Refused(image) ==
    \/ Cardinality(Layouts(image)) > 1
    \/ \E base \in Layouts(image), n \in Numbers : Corrupt(image, n, base + n)

Open ==
    /\ mode = "down" /\ Layouts(cached) # {} /\ run < MaxRuns
    /\ run' = run + 1
    /\ IF Refused(cached)
       THEN /\ mode' = "corrupt"
            /\ UNCHANGED <<first, used, next_lsn, log, reported>>
       ELSE \E base \in Layouts(cached) :
            LET frames == RecoveredFrames(cached, base)
            IN  /\ mode' = "ready"
                /\ first' = base
                /\ used' = Allocated(cached)
                /\ next_lsn' = NextLsn(frames)
                /\ log' = InOrder(frames)
                /\ reported' = Greatest(LsnsOf(frames) \cup {reported})
    /\ UNCHANGED <<deviceVars, active, appended, writes, failed, flush, job, step, promised,
                   boundVars>>

(***************************************************************************)
(* Writes and flushes                                                      *)
(***************************************************************************)
Writable == mode = "ready" /\ job = None

Write ==
    /\ Writable /\ active # None
    /\ ~failed /\ flush = "none" /\ Len(writes) < Depth
    /\ Len(appended) < SegmentFrames
    /\ next_lsn <= plan.lsns
    /\ LET at == FrameAt(active, Len(appended) + 1)
           frame == [seq |-> first + active, lsn |-> next_lsn, run |-> run]
       IN  /\ Start([x \in {at} |-> frame])
           /\ writes' = Append(writes, [at |-> at, stage |-> "io"])
           /\ appended' = Append(appended, frame)
           /\ log' = Append(log, frame)
    /\ next_lsn' = next_lsn + 1
    /\ UNCHANGED <<cached, durable, barrier, mode, first, used, active, failed, flush, job,
                   step, run, reported, promised, boundVars>>

WriteDone(i, ok) ==
    /\ Outcome(ok)
    /\ writes[i].stage = "io"
    /\ FinishWrite({writes[i].at}, ok)
    /\ writes' = [writes EXCEPT ![i].stage = IF ok THEN "ok" ELSE "err"]
    /\ failed' = (failed \/ ~ok)
    /\ UNCHANGED <<durable, barrier, mode, first, used, active, appended, flush, job, step,
                   next_lsn, run, historyVars, crashVars>>

RetireOwnResult ==
    /\ writes # <<>> /\ Head(writes).stage # "io"
    /\ writes' = Tail(writes)
    /\ reported' = IF Head(writes).stage = "ok" THEN reported + 1 ELSE reported
    /\ UNCHANGED <<deviceVars, mode, first, used, active, appended, failed, flush, job, step,
                   next_lsn, run, log, promised, boundVars>>

\* Retirement reports success only to the writes before the first failed one.
Retire ==
    /\ writes # <<>> /\ Head(writes).stage # "io"
    /\ writes' = Tail(writes)
    /\ reported' = IF Head(writes).stage = "ok" /\ reported = Len(log) - Len(writes)
                   THEN reported + 1 ELSE reported
    /\ UNCHANGED <<deviceVars, mode, first, used, active, appended, failed, flush, job, step,
                   next_lsn, run, log, promised, boundVars>>

Flush ==
    /\ Writable /\ ~failed /\ flush = "none"
    /\ flush' = "queued"
    /\ UNCHANGED <<deviceVars, mode, first, used, active, appended, writes, failed, job, step,
                   next_lsn, run, historyVars, boundVars>>

FlushAnyTime == flush = "queued"

FlushRunnable == flush = "queued" /\ writes = <<>>

\* A flush fails without a sync after a failed write; without syncs it is only a fence.
FlushStart ==
    /\ FlushRunnable
    /\ IF failed \/ ~SyncEnabled
       THEN /\ flush' = "none"
            /\ promised' = IF failed THEN promised ELSE Len(log)
            /\ UNCHANGED barrier
       ELSE flush' = "sync" /\ StartSync /\ UNCHANGED promised
    /\ UNCHANGED <<cached, durable, flight, mode, first, used, active, appended, writes, failed,
                   job, step, next_lsn, run, log, reported, boundVars>>

FlushDone(ok) ==
    /\ Outcome(ok)
    /\ flush = "sync"
    /\ FinishSync(ok)
    /\ flush' = "none"
    /\ failed' = (failed \/ ~ok)
    /\ promised' = IF ok THEN Len(log) ELSE promised
    /\ UNCHANGED <<cached, flight, mode, first, used, active, appended, writes, job, step,
                   next_lsn, run, log, reported, crashVars>>

(***************************************************************************)
(* Lifecycle jobs: seal, rollover and close                                *)
(***************************************************************************)
StartJob(kind, next) ==
    /\ job = None
    /\ job' = [kind |-> kind, stage |-> "Drain", next |-> next, number |-> None,
               frames |-> <<>>, prefix |-> FALSE, io |-> "none"]
    /\ UNCHANGED <<deviceVars, first, used, active, appended, writes, failed, flush, step,
                   next_lsn, run, historyVars, boundVars>>

\* The caller may name any slot.
FreeSlot(number) == number \in Numbers \ used

Rollover(number) ==
    Writable /\ FreeSlot(number) /\ StartJob("Rollover", number) /\ UNCHANGED mode

Seal == Writable /\ StartJob("Seal", None) /\ UNCHANGED mode

Close == mode \in {"ready", "failed"} /\ StartJob("Close", None) /\ mode' = "closing"

JobAt(stage) == job # None /\ job.stage = stage /\ job.io = "none"

JobGoto(stage) ==
    job' = [job EXCEPT !.stage = stage] /\ UNCHANGED <<flight, barrier>>

JobWrite(stage, content) ==
    job' = [job EXCEPT !.stage = stage, !.io = "write"] /\ Start(content) /\ UNCHANGED barrier

JobSync(stage) ==
    IF SyncEnabled
    THEN job' = [job EXCEPT !.stage = stage, !.io = "sync"] /\ StartSync /\ UNCHANGED flight
    ELSE JobGoto(stage)

\* The state a session leaves behind: nothing but the device.
Forget ==
    /\ active' = None /\ appended' = <<>> /\ writes' = <<>> /\ failed' = FALSE
    /\ flush' = "none" /\ job' = None /\ used' = {} /\ first' = 0 /\ next_lsn' = 1

FinishJob(ok) ==
    /\ IF job.kind = "Close"
       THEN mode' = "down" /\ Forget
       ELSE /\ mode' = IF ok THEN mode ELSE "failed"
            /\ job' = None
            /\ UNCHANGED <<active, appended, writes, failed, flush, used, first, next_lsn>>
    \* Only a seal that found nothing to seal reports success without a sync.
    /\ promised' = IF ok /\ (job.kind # "Seal" \/ job.number # None) THEN Len(log) ELSE promised

Drained == writes = <<>> /\ flush = "none"

Drain ==
    /\ JobAt("Drain") /\ Drained
    /\ IF active # None /\ ~failed
       THEN /\ job' = [job EXCEPT !.stage = "Footer", !.number = active, !.frames = appended,
                                  !.prefix = Len(appended) >= PrefixFrames]
            /\ active' = None /\ appended' = <<>>
            /\ UNCHANGED <<flight, barrier, mode, writes, failed, flush, used, first, next_lsn,
                           promised>>
       ELSE IF active # None
       THEN FinishJob(FALSE) /\ UNCHANGED <<flight, barrier>>
       ELSE /\ IF job.kind = "Close" THEN JobSync("Closed") ELSE JobGoto("Allocate")
            /\ UNCHANGED <<mode, active, appended, writes, failed, flush, used, first, next_lsn,
                           promised>>
    /\ UNCHANGED <<cached, durable, step, run, log, reported, boundVars>>

Sealing(stage) ==
    /\ JobAt(stage)
    /\ UNCHANGED <<cached, durable, mode, first, used, active, appended, writes, failed, flush,
                   step, next_lsn, run, historyVars, boundVars>>

FooterUnsynced ==
    /\ Sealing("Footer")
    /\ IF job.prefix
       THEN /\ job' = [job EXCEPT !.prefix = FALSE, !.io = "write"]
            /\ Start([x \in {Prefix(job.number)} |-> job.frames])
            /\ UNCHANGED barrier
       ELSE JobGoto("LastWrite")

\* All footer pages but the last are written, then everything so far is made durable.
Footer ==
    /\ Sealing("Footer")
    /\ IF job.prefix
       THEN /\ job' = [job EXCEPT !.prefix = FALSE, !.io = "write"]
            /\ Start([x \in {Prefix(job.number)} |-> job.frames])
            /\ UNCHANGED barrier
       ELSE JobSync("LastWrite")

FinalPage(n, frames, seq) ==
    [x \in {Meta(n), Trailer(n)} |->
        IF x = Meta(n) THEN frames ELSE [seq |-> seq, frames |-> frames]]

LastWrite ==
    /\ Sealing("LastWrite")
    /\ JobWrite("LastSync", FinalPage(job.number, job.frames, first + job.number))

LastSync == Sealing("LastSync") /\ JobSync("Allocate")

\* An allocation that may have reached the device is not used again by this owner.
Allocate ==
    /\ JobAt("Allocate")
    /\ IF job.next = None
       THEN FinishJob(TRUE) /\ UNCHANGED <<flight, barrier>>
       ELSE /\ used' = used \cup {job.next}
            /\ JobWrite("HeaderSync", [x \in {Header(job.next)} |-> first + job.next])
            /\ UNCHANGED <<mode, active, appended, writes, failed, flush, first, next_lsn,
                           promised>>
    /\ UNCHANGED <<cached, durable, step, run, log, reported, boundVars>>

HeaderSync == Sealing("HeaderSync") /\ JobSync("Attach")

\* The pipeline takes no new segment after a failed write or flush.
Attach ==
    /\ JobAt("Attach")
    /\ IF failed
       THEN FinishJob(FALSE)
       ELSE /\ job' = None /\ active' = job.next /\ appended' = <<>>
            /\ promised' = Len(log)
            /\ UNCHANGED <<mode, writes, failed, flush, used, first, next_lsn>>
    /\ UNCHANGED <<deviceVars, step, run, log, reported, boundVars>>

Closed ==
    /\ JobAt("Closed") /\ FinishJob(TRUE)
    /\ UNCHANGED <<deviceVars, step, run, log, reported, boundVars>>

JobIoDone(ok) ==
    /\ Outcome(ok)
    /\ job # None /\ job.io # "none"
    /\ IF job.io = "write"
       THEN FinishWrite(ControlAreas, ok) /\ UNCHANGED <<durable, barrier>>
       ELSE FinishSync(ok) /\ UNCHANGED <<cached, flight>>
    /\ IF ok
       THEN /\ job' = [job EXCEPT !.io = "none"]
            /\ UNCHANGED <<mode, active, appended, writes, failed, flush, used, first, next_lsn,
                           promised>>
       ELSE FinishJob(FALSE)
    /\ UNCHANGED <<step, run, log, reported, crashVars>>

(***************************************************************************)
(* Offline formatting                                                      *)
(***************************************************************************)
\* The epoch is above every generation of the old layout; with none to be read the fresh
\* random device identity supplies one that no surviving frame carries.
NextEpoch ==
    IF Layouts(cached) = {} THEN issued + 1
    ELSE (CHOOSE base \in Layouts(cached) : TRUE) + SegmentCount

FormatBegin ==
    /\ mode = "down" /\ formats < plan.formats
    /\ Cardinality(Layouts(cached)) <= 1
    /\ \A base \in Layouts(cached), n \in Numbers : cached[Header(n)] \in {Zero, base + n}
    /\ mode' = "format" /\ step' = "zero"
    /\ first' = NextEpoch
    /\ issued' = IF NextEpoch + SegmentCount - 1 > issued
                 THEN NextEpoch + SegmentCount - 1 ELSE issued
    /\ formats' = formats + 1
    /\ reported' = 0 /\ promised' = 0
    /\ UNCHANGED <<deviceVars, used, active, appended, writes, failed, flush, job, next_lsn, run,
                   log, crashes, errors>>

SlotPages == {Header(n) : n \in Numbers} \cup {Meta(n) : n \in Numbers}
                \cup {Trailer(n) : n \in Numbers}

\* What each step of format writes.
FormatContent ==
    CASE step = "zero" -> [x \in Supers |-> Zero]
      [] step = "slots" -> [x \in SlotPages |-> Zero]
      [] step = "a" -> [x \in {<<"super", "a">>} |-> first]
      [] step = "b" -> [x \in {<<"super", "b">>} |-> first]

FormatWrite ==
    /\ mode = "format" /\ step \in {"zero", "slots", "a", "b"} /\ InFlight = {}
    /\ Start(FormatContent)
    /\ log' = IF step = "a" THEN <<>> ELSE log
    /\ UNCHANGED <<cached, durable, barrier, engineVars, mode, step, reported, promised,
                   boundVars>>

AfterSync == [x \in {"zero sync", "slots sync", "a sync", "b sync"} |->
    CASE x = "zero sync" -> "slots" [] x = "slots sync" -> "a"
      [] x = "a sync" -> "b" [] x = "b sync" -> "none"]

SyncOf == [x \in {"zero", "slots", "a", "b"} |->
    CASE x = "zero" -> "zero sync" [] x = "slots" -> "slots sync"
      [] x = "a" -> "a sync" [] x = "b" -> "b sync"]

FormatWritten(ok) ==
    /\ Outcome(ok)
    /\ mode = "format" /\ InFlight # {}
    /\ FinishWrite(InFlight, ok)
    /\ IF ok THEN step' = SyncOf[step] /\ UNCHANGED <<mode, first>>
             ELSE step' = "none" /\ mode' = "down" /\ first' = 0
    /\ UNCHANGED <<durable, barrier, used, active, appended, writes, failed, flush, job,
                   next_lsn, run, historyVars, crashVars>>

FormatSync(ok) ==
    /\ Outcome(ok)
    /\ mode = "format" /\ step \in DOMAIN AfterSync
    /\ durable' = IF ok /\ SyncEnabled THEN cached ELSE durable
    /\ step' = IF ok THEN AfterSync[step] ELSE "none"
    /\ IF step' = "none" THEN mode' = "down" /\ first' = 0 ELSE UNCHANGED <<mode, first>>
    /\ UNCHANGED <<cached, flight, barrier, used, active, appended, writes, failed, flush, job,
                   next_lsn, run, historyVars, crashVars>>

(***************************************************************************)
(* Crashes                                                                 *)
(***************************************************************************)
Running == mode \in {"ready", "failed", "closing", "format"}

Halt ==
    /\ mode' = "down" /\ step' = "none" /\ Forget
    /\ flight' = [x \in Areas |-> None] /\ barrier' = None
    /\ crashes' = crashes + 1
    /\ UNCHANGED <<run, log, promised, issued, errors, formats>>

\* The owner stops: requests in the queue took effect or not.
ProcessCrash ==
    /\ Running /\ crashes < MaxCrashes
    /\ cached' \in Uncertain(cached, flight, InFlight)
    /\ Halt
    /\ UNCHANGED <<durable, reported>>

Dirty == InFlight \cup {x \in Areas : cached[x] # durable[x]}
Newest == [x \in Areas |-> IF flight[x] # None THEN flight[x] ELSE cached[x]]

\* The device stops: what no sync covered took effect or not.  Without syncs the engine
\* promises nothing about it.
PowerFailure ==
    /\ SyncEnabled /\ crashes < MaxCrashes
    /\ Running \/ (mode = "down" /\ Dirty # {})
    /\ cached' \in Uncertain(durable, Newest, Dirty)
    /\ durable' = cached'
    /\ Halt
    /\ reported' = promised

EngineNext ==
    \/ Open \/ Write \/ Retire \/ Flush \/ FlushStart
    \/ \E i \in DOMAIN writes, ok \in BOOLEAN : WriteDone(i, ok)
    \/ \E ok \in BOOLEAN : FlushDone(ok)
    \/ \E number \in 0..SegmentCount : Rollover(number)
    \/ Seal \/ Close \/ Drain \/ Footer \/ LastWrite \/ LastSync
    \/ Allocate \/ HeaderSync \/ Attach \/ Closed
    \/ \E ok \in BOOLEAN : JobIoDone(ok)

FormatNext ==
    \/ FormatBegin \/ FormatWrite
    \/ \E ok \in BOOLEAN : FormatWritten(ok) \/ FormatSync(ok)

Next == (EngineNext \/ FormatNext \/ ProcessCrash \/ PowerFailure) /\ UNCHANGED plan

Spec == Init /\ [][Next]_vars

(***************************************************************************)
(* Properties                                                              *)
(***************************************************************************)
\* The device as the next open finds it.
AtRest == mode = "down" /\ Layouts(cached) # {}

\* Recovery accepts whatever a crash leaves behind: the order of writes and syncs keeps the
\* pages of a slot, and the two superblocks, from ever contradicting each other.
AlwaysRecoverable == AtRest => ~Refused(cached)

FoundFrames == RecoveredFrames(cached, CHOOSE base \in Layouts(cached) : TRUE)

\* Recovery finds a prefix of the accepted frames, in the order of their LSNs: no frame
\* without its predecessors, none of an earlier format, and none that an earlier recovery
\* had given up.  The prefix holds all that was reported durable by flush, seal, rollover or
\* close and, unless power failed since, all that was reported written.
RecoversReported ==
    AtRest /\ ~Refused(cached) =>
        \E k \in 0..Len(log) :
            /\ k >= promised /\ k >= reported
            /\ FoundFrames = {log[i] : i \in 1..k}

LsnsFresh == mode \in {"ready", "failed", "closing"} => next_lsn > reported /\ next_lsn > promised

LsnsIncrease == \A i, j \in DOMAIN log : i < j => log[i].lsn < log[j].lsn

WritesFreshOffsets ==
    mode # "format" =>
        \A x \in InFlight : x[1] = "frame" =>
            (cached[x] \notin {Zero, Torn} => cached[x].seq < first + x[2])

\* Within a format no session hands out an LSN that any earlier one reported durable, nor one
\* reported written unless power failed before a flush covered it, and no two frames in use
\* share one (storage/mod.rs takes the greatest LSN recovered plus one).  An LSN whose record
\* was lost with the power, or never reported, may be handed out again; RecoversReported says
\* that its first record is then gone for good.  Nor does a session write a frame where the
\* format has already put one: a recovered segment is never appended to, whatever lies behind
\* its last valid frame.
NeverReused == LsnsFresh /\ LsnsIncrease /\ WritesFreshOffsets
=============================================================================
