------------------------------- MODULE Engine -------------------------------
(***************************************************************************)
(* One device owner (moat-engine, engine/): the pipeline together with its *)
(* lifecycle.  At most one job runs at a time: Open recovers the device,   *)
(* Seal closes the active segment with a footer, Rollover also allocates   *)
(* the next one, Close drains and seals.  A job advances by steps of       *)
(* drive_job, called before and after the pipeline's poll, and does its    *)
(* I/O through the pipeline's control request.                             *)
(*                                                                         *)
(* drive_job runs without interruption; it is split here at its calls into *)
(* the pipeline (take / step / act) so that every step of the engine is a  *)
(* step of Pipeline or leaves the pipeline alone.                          *)
(***************************************************************************)
EXTENDS Pipeline

CONSTANTS
    SegmentCount,   \* layout.segment_count()
    FooterChunks    \* largest number of footer writes before the final page

Segments == 0..SegmentCount - 1

VARIABLES
    state,      \* "New" before open, then State
    opened,
    used,       \* segment slots that hold an allocation
    next,       \* where the search for an unused slot resumes
    allocated,
    active,     \* the slot being appended to, or None
    job,        \* the lifecycle job, or None
    phase,      \* where Engine::poll is: idle, take, step, act, poll, polling
    turn,       \* first or second drive_job of this poll
    progress,   \* what the step asked for: none, io, done, err
    may_wait,   \* the wait argument Engine::poll gives Pipeline::poll, if asked to wait
    finished, contents, sealed, attached    \* history

jobVars == <<phase, turn, progress, may_wait>>
lifeVars == <<state, opened, used, next, allocated, active, job>>
historyVars == <<finished, contents, sealed, attached>>
engineVars == <<jobVars, lifeVars, historyVars>>
allVars == <<vars, engineVars>>

Kinds == {"Open", "Seal", "Rollover", "Close"}
JobStages == {"Start", "Super", "Header", "Tail", "Load", "Scan",
              "Drain", "Footer", "LastWrite", "LastSync", "Allocate", "HeaderSync",
              "Attach", "Closed"}
Job == [kind : Kinds, ticket : Nat, stage : JobStages, target : Segments \cup {SegmentCount, None},
        left : Nat, waiting : BOOLEAN, blocked : BOOLEAN]

ASSUME EngineAssumption ==
    SegmentCount \in Nat \ {0} /\ FooterChunks \in Nat /\ None \notin Job

EngineInit ==
    /\ Init
    /\ state = "New" /\ opened = FALSE
    /\ used = {} /\ next = 0 /\ allocated = 0 /\ active = None /\ job = None
    /\ phase = "idle" /\ turn = 1 /\ progress = "none" /\ may_wait = FALSE
    /\ finished = {} /\ contents = [n \in Segments |-> {}] /\ sealed = {} /\ attached = {}

(***************************************************************************)
(* API calls.  `target' is the slot a rollover allocates; during Open it   *)
(* is the slot being recovered.                                            *)
(***************************************************************************)
Idle == phase = "idle"
CheckReadable == Idle /\ opened /\ state \notin {"Closing", "Closed"}
CheckWritableAnyJob == CheckReadable /\ state # "Failed"   \* mutant: a job is no obstacle
CheckWritable == CheckReadable /\ state # "Failed" /\ job = None

NewJob(kind, stage, target, ticketed) ==
    job' = [kind |-> kind, ticket |-> IF ticketed THEN next_ticket ELSE 0, stage |-> stage,
            target |-> target, left |-> 0, waiting |-> FALSE, blocked |-> FALSE]

Open ==
    /\ Idle /\ state = "New"
    /\ BeginMaintenance(TRUE)
    /\ NewJob("Open", "Start", 0, TRUE)
    /\ state' = "Opening"
    /\ UNCHANGED <<jobVars, opened, used, next, allocated, active, historyVars>>

EngineRead(k, s) ==
    /\ CheckReadable
    /\ Read(k, s) \/ ReadEmpty(k, s) \/ \E inline \in BOOLEAN : ReadVerified(k, inline, s)
    /\ UNCHANGED engineVars

EngineFlush(s) == CheckWritable /\ Flush(s) /\ UNCHANGED engineVars

EngineWrite(frame, s) ==
    /\ CheckWritable
    /\ active # None
    /\ Write(frame, s)
    /\ contents' = [contents EXCEPT ![active] = @ \cup {next_ticket}]
    /\ UNCHANGED <<jobVars, lifeVars, finished, sealed, attached>>

\* The search of start_rollover for an unused slot; SegmentCount when there is none.
NextUnused ==
    CHOOSE n \in next..SegmentCount :
        /\ n \notin used
        /\ \A m \in next..SegmentCount : m \notin used => n <= m

StartRollover(number, ticketed) ==
    /\ number \in Segments \ used
    /\ BeginMaintenance(ticketed)
    /\ NewJob("Rollover", "Drain", number, ticketed)

\* A write that finds no active segment, or a full one, starts a rollover and is refused.
WriteStartsRollover ==
    /\ CheckWritable
    /\ \/ active = None /\ ~WritesPending
       \/ active # None /\ WriteFull /\ segment > 0
    /\ next' = NextUnused
    /\ \/ StartRollover(NextUnused, FALSE)
       \/ NextUnused = SegmentCount /\ UNCHANGED <<vars, job>>
    /\ UNCHANGED <<jobVars, state, opened, used, allocated, active, historyVars>>

Rollover ==
    /\ CheckWritable
    /\ next' = NextUnused
    /\ \/ StartRollover(NextUnused, TRUE)
       \/ NextUnused = SegmentCount /\ WasteTicket /\ UNCHANGED job
    /\ UNCHANGED <<jobVars, state, opened, used, allocated, active, historyVars>>

RolloverTo(number) ==
    /\ CheckWritable
    /\ \/ StartRollover(number, TRUE)
       \/ number \notin Segments \ used /\ WasteTicket /\ UNCHANGED job
    /\ UNCHANGED <<jobVars, state, opened, used, next, allocated, active, historyVars>>

Seal ==
    /\ CheckWritable
    /\ BeginMaintenance(TRUE)
    /\ NewJob("Seal", "Drain", None, TRUE)
    /\ UNCHANGED <<jobVars, state, opened, used, next, allocated, active, historyVars>>

Close ==
    /\ Idle /\ state \in {"Ready", "Failed"} /\ job = None
    /\ BeginMaintenance(TRUE)
    /\ NewJob("Close", "Drain", None, TRUE)
    /\ state' = "Closing"
    /\ UNCHANGED <<jobVars, opened, used, next, allocated, active, historyVars>>

(***************************************************************************)
(* Engine::poll: drive_job, Pipeline::poll, drive_job                      *)
(***************************************************************************)
PollEngine ==
    /\ Idle /\ state # "New"
    /\ phase' = "take" /\ turn' = 1
    /\ UNCHANGED <<vars, progress, may_wait, lifeVars, historyVars>>

JobReadyForgotten == FALSE      \* mutant: has_ready asks only the pipeline

\* The job's part in has_ready.
JobReady == job # None /\ ~job.waiting /\ ~job.blocked

\* drive_job returns whether it progressed.
DriveReturn(progressed) ==
    /\ phase' = IF turn = 1 THEN "poll" ELSE "idle"
    /\ progress' = "none"
    /\ may_wait' = (turn = 1 /\ ~progressed)
    /\ turn' = 1

Act(p) == phase' = "act" /\ progress' = p /\ UNCHANGED <<turn, may_wait>>

TakeNoJob ==
    /\ phase = "take" /\ job = None
    /\ DriveReturn(FALSE)
    /\ UNCHANGED <<vars, lifeVars, historyVars>>

TakeQueueFailed ==
    /\ phase = "take" /\ job # None
    /\ queue_failed /\ (job.kind # "Close" \/ job.waiting)
    /\ Act("err")
    /\ UNCHANGED <<vars, lifeVars, historyVars>>

TakeNothingYet ==
    /\ phase = "take" /\ job # None /\ ~queue_failed
    /\ job.waiting /\ control \notin {"ok", "err"}
    /\ DriveReturn(FALSE)
    /\ UNCHANGED <<vars, lifeVars, historyVars>>

TakeInput ==
    /\ phase = "take" /\ job # None /\ ~queue_failed
    /\ job.waiting
    /\ TakeControl
    /\ job' = [job EXCEPT !.waiting = FALSE]
    /\ IF control = "ok" THEN phase' = "step" /\ UNCHANGED <<turn, progress, may_wait>> ELSE Act("err")
    /\ UNCHANGED <<state, opened, used, next, allocated, active, historyVars>>

TakeRunnable ==
    /\ phase = "take" /\ job # None
    /\ ~job.waiting /\ (queue_failed => job.kind = "Close")
    /\ phase' = "step"
    /\ UNCHANGED <<vars, turn, progress, may_wait, lifeVars, historyVars>>

\* job.step: `p' is the Progress, `stage' the next stage.
Sync == IF SyncEnabled THEN "io" ELSE "continue"
Step(stage) == phase = "step" /\ job.stage = stage
To(j, p) ==
    /\ job' = [j EXCEPT !.blocked = (p = "wait")]
    /\ IF p \in {"continue", "wait"} THEN DriveReturn(p = "continue") ELSE Act(p)

StepStart ==
    /\ Step("Start")
    /\ To([job EXCEPT !.stage = "Super"], "io")
    /\ UNCHANGED <<vars, state, opened, used, next, allocated, active, historyVars>>

\* Both superblocks are read and agree, or recovery fails.
StepSuper(ok) ==
    /\ Step("Super")
    /\ IF ok THEN To([job EXCEPT !.stage = "Header"], "continue") ELSE To(job, "err")
    /\ UNCHANGED <<vars, state, opened, used, next, allocated, active, historyVars>>

AllScanned == job.target = SegmentCount

StepHeader ==
    /\ Step("Header")
    /\ IF AllScanned THEN To(job, "done") ELSE To([job EXCEPT !.stage = "Tail"], "io")
    /\ UNCHANGED <<vars, state, opened, used, next, allocated, active, historyVars>>

NextSegment == [job EXCEPT !.stage = "Header", !.target = @ + 1]

CountOnly == allocated' = allocated + 1 /\ UNCHANGED used    \* mutant: the slot is not marked
MarkUsed == used' = used \cup {job.target} /\ allocated' = allocated + 1

\* The slot is unused, holds an allocation of at most `frames' frames, or is corrupt.
StepTail(found, frames) ==
    /\ Step("Tail")
    /\ CASE found = "unused" -> To(NextSegment, "continue")
         [] found = "allocated" -> To([job EXCEPT !.stage = "Load", !.left = frames], "continue")
         [] found = "corrupt" -> To(job, "err")
    /\ IF found = "allocated"
       THEN /\ MarkUsed
            /\ attached' = attached \cup {job.target}
       ELSE UNCHANGED <<used, allocated, attached>>
    /\ UNCHANGED <<vars, state, opened, next, active, finished, contents, sealed>>

\* The next frame comes from the footer in memory or is read from the segment; the index may
\* be too small for it, or it is corrupt.
LoadFrame == \E frame \in Frames :
    Restore(frame) /\ To([job EXCEPT !.stage = "Load", !.left = @ - 1], "continue")

StepLoad ==
    /\ Step("Load")
    /\ \/ job.left > 0 /\ LoadFrame
       \/ job.left > 0 /\ To([job EXCEPT !.stage = "Scan"], "io") /\ UNCHANGED vars
       \/ job.left = 0 /\ To(NextSegment, "continue") /\ UNCHANGED vars
       \/ To(job, "err") /\ UNCHANGED vars
    /\ UNCHANGED <<state, opened, used, next, allocated, active, historyVars>>

\* A frame that is incomplete or stale ends the scan of an unsealed segment.
StepScan ==
    /\ Step("Scan")
    /\ \/ LoadFrame
       \/ To([NextSegment EXCEPT !.left = 0], "continue") /\ UNCHANGED vars
       \/ To(job, "err") /\ UNCHANGED vars
    /\ UNCHANGED <<state, opened, used, next, allocated, active, historyVars>>

StepNotOpened ==
    /\ phase = "step" /\ job.kind # "Open" /\ ~opened
    /\ To(job, "err")
    /\ UNCHANGED <<vars, state, opened, used, next, allocated, active, historyVars>>

DrainWritesOnly == WritesPending    \* mutant: close does not wait for reads
\* Drain waits for accepted writes (Close: for everything), then takes the builder.
DrainBlocked == WritesPending \/ (job.kind = "Close" /\ InFlight # {})

StepDrainWait ==
    /\ Step("Drain") /\ opened
    /\ DrainBlocked
    /\ To(job, "wait")
    /\ UNCHANGED <<vars, state, opened, used, next, allocated, active, historyVars>>

StepDrainSeal(chunks) ==
    /\ Step("Drain") /\ opened
    /\ ~DrainBlocked /\ active # None
    /\ \/ /\ TakeSegment
          /\ To([job EXCEPT !.stage = "Footer", !.left = chunks], "continue")
          /\ active' = None
          /\ sealed' = sealed \cup {active}
       \/ /\ queue_failed \/ failed_at # 0
          /\ To(job, "err")
          /\ UNCHANGED <<vars, active, sealed>>
    /\ UNCHANGED <<state, opened, used, next, allocated, finished, contents, attached>>

StepDrainInactive ==
    /\ Step("Drain") /\ opened
    /\ ~DrainBlocked /\ active = None
    /\ IF job.kind = "Close" THEN To([job EXCEPT !.stage = "Closed"], Sync)
                             ELSE To([job EXCEPT !.stage = "Allocate"], "continue")
    /\ UNCHANGED <<vars, state, opened, used, next, allocated, active, historyVars>>

\* Footer pages are written one chunk at a time; before the final page comes a sync.
StepFooter ==
    /\ Step("Footer")
    /\ IF job.left > 0 THEN To([job EXCEPT !.left = @ - 1], "io")
                       ELSE To([job EXCEPT !.stage = "LastWrite"], Sync)
    /\ UNCHANGED <<vars, state, opened, used, next, allocated, active, historyVars>>

StepLastWrite ==
    /\ Step("LastWrite")
    /\ To([job EXCEPT !.stage = "LastSync"], "io")
    /\ UNCHANGED <<vars, state, opened, used, next, allocated, active, historyVars>>

StepLastSync ==
    /\ Step("LastSync")
    /\ To([job EXCEPT !.stage = "Allocate"], Sync)
    /\ UNCHANGED <<vars, state, opened, used, next, allocated, active, historyVars>>

\* The slot counts as used from here on, whatever becomes of the header write.
StepAllocate ==
    /\ Step("Allocate")
    /\ IF job.target = None
       THEN To(job, "done") /\ UNCHANGED <<used, allocated>>
       ELSE /\ To([job EXCEPT !.stage = "HeaderSync"], "io")
            /\ MarkUsed
    /\ UNCHANGED <<vars, state, opened, next, active, historyVars>>

StepHeaderSync ==
    /\ Step("HeaderSync")
    /\ To([job EXCEPT !.stage = "Attach"], Sync)
    /\ UNCHANGED <<vars, state, opened, used, next, allocated, active, historyVars>>

\* A flush may have failed meanwhile: then the pipeline refuses to switch segments.
StepAttach ==
    /\ Step("Attach")
    /\ \/ Attach /\ To(job, "done") /\ active' = job.target /\ attached' = attached \cup {job.target}
       \/ failed_at # 0 /\ To(job, "err") /\ UNCHANGED <<vars, active, attached>>
    /\ UNCHANGED <<state, opened, used, next, allocated, finished, contents, sealed>>

StepClosed ==
    /\ Step("Closed")
    /\ To(job, "done")
    /\ UNCHANGED <<vars, state, opened, used, next, allocated, active, historyVars>>

\* control_io refuses after a queue failure, which fails the job.
ActIo ==
    /\ phase = "act" /\ progress = "io"
    /\ IF queue_failed
       THEN Act("err") /\ UNCHANGED <<vars, job>>
       ELSE /\ ControlIo
            /\ job' = [job EXCEPT !.waiting = TRUE]
            /\ DriveReturn(TRUE)
    /\ UNCHANGED <<state, opened, used, next, allocated, active, historyVars>>

FinalState ==
    IF job.kind = "Close" THEN "Closed"
    ELSE IF progress = "err" THEN "Failed" ELSE "Ready"

FinishJob ==
    /\ phase = "act" /\ progress \in {"done", "err"}
    /\ EndMaintenance
    /\ state' = FinalState
    /\ opened' = (opened \/ (job.kind = "Open" /\ progress = "done"))
    /\ finished' = finished \cup {job.ticket}
    /\ job' = None
    /\ DriveReturn(TRUE)
    /\ UNCHANGED <<used, next, allocated, active, contents, sealed, attached>>

PipelinePoll ==
    /\ phase = "poll"
    /\ PollBegin
    /\ phase' = "polling"
    /\ may_wait' = (may_wait /\ ~HasReady /\ ~JobReady)
    /\ UNCHANGED <<turn, progress, lifeVars, historyVars>>

PipelineStep == phase = "polling" /\ (PollStep \/ Device) /\ UNCHANGED engineVars

PipelineReturned ==
    /\ phase = "polling" /\ pc = "idle"
    /\ state' = IF queue_failed /\ state # "Closed" THEN "Failed" ELSE state
    /\ phase' = "take" /\ turn' = 2
    /\ UNCHANGED <<vars, progress, may_wait, opened, used, next, allocated, active, job, historyVars>>

DriveJob ==
    \/ TakeNoJob \/ TakeQueueFailed \/ TakeNothingYet \/ TakeInput \/ TakeRunnable
    \/ StepStart \/ (\E ok \in BOOLEAN : StepSuper(ok)) \/ StepHeader
    \/ StepLoad \/ StepScan
    \/ (\E found \in {"unused", "allocated", "corrupt"}, frames \in 0..SegmentFrames :
          StepTail(found, frames))
    \/ StepNotOpened \/ StepDrainWait \/ (\E chunks \in 0..FooterChunks : StepDrainSeal(chunks))
    \/ StepDrainInactive \/ StepFooter \/ StepLastWrite \/ StepLastSync \/ StepAllocate
    \/ StepHeaderSync \/ StepAttach \/ StepClosed
    \/ ActIo \/ FinishJob

EngineApi ==
    \/ Open
    \/ \E s \in Slots : \/ \E k \in Keys : EngineRead(k, s)
                        \/ \E frame \in Frames : EngineWrite(frame, s)
                        \/ EngineFlush(s)
    \/ WriteStartsRollover \/ Rollover \/ (\E number \in 0..SegmentCount : RolloverTo(number))
    \/ Seal \/ Close

EnginePoll == PollEngine \/ DriveJob \/ PipelinePoll \/ PipelineStep \/ PipelineReturned

EngineNext == EngineApi \/ EnginePoll

EngineSpec == EngineInit /\ [][EngineNext]_allVars

\* Why an owner that sleeps on the queue's descriptor polls: has_ready says so, a request in
\* the queue will signal the descriptor, or it has just submitted a flush.
Notified == HasReady \/ JobReady \/ InQueue # {} \/ FlushRunnable

\* The owner finishes a poll it began and begins one while it is notified, no more; the kernel
\* completes every submitted request, and the completion queue is popped in FIFO order, so a
\* completed request is not passed over for ever.
Polling(A) == phase = "polling" /\ A /\ UNCHANGED engineVars

EngineFairness ==
    /\ WF_allVars((phase # "idle" \/ Notified) /\ EnginePoll)
    /\ \A t \in Tokens :
          SF_allVars(Polling(\E result \in {"ok", "err"} : DeviceComplete(t, result)))
    /\ SF_allVars(Polling(\E bytes \in 0..1 : ReapControl(bytes)))
    /\ \A s \in Slots : SF_allVars(Polling(Reap(s)))

(***************************************************************************)
(* Properties                                                              *)
(***************************************************************************)
\* The engine is an owner that keeps the pipeline's contract: every step of it is a step of
\* Pipeline, so what holds of the pipeline holds in the engine.
ImplementsPipeline == Spec

\* A segment becomes writable only if it was never attached before, neither by an earlier
\* rollover nor, read-only, by recovery.
FreshAttach == [][active' # active /\ active' # None => active' \notin attached]_allVars

\* A footer is written only for a segment all of whose frames were published: no frame in
\* it failed or is still in flight (Drain, take_segment).
SealedArePublished == \A n \in sealed : contents[n] \subseteq Published

\* When close completes every accepted operation has been completed (Drain of Close), also
\* after a queue failure while closing.
ClosedIsDrained == state = "Closed" => InFlight = {}

\* Every lifecycle job finishes, whatever fails, although the owner polls only when has_ready
\* or the queue's descriptor tells it to: has_ready counts every job that can go on without a
\* completion, and a job that waits for the drain is woken by what it waits for.
JobCompletes == job # None ~> job = None
=============================================================================
