---------------------------- MODULE EngineProofs ----------------------------
(***************************************************************************)
(* Proofs about Engine: it keeps the pipeline's contract, so everything    *)
(* proved of Pipeline holds in it, a rollover never attaches a segment     *)
(* twice, only published frames are sealed, and close drains.              *)
(***************************************************************************)
EXTENDS Engine, PipelineResources

USE Zenon

OpenStages == {"Start", "Super", "Header", "Tail", "Load", "Scan"}
Unallocated == {"Drain", "Footer", "LastWrite", "LastSync", "Allocate"}
Allocated == {"HeaderSync", "Attach"}

\* A job is at a stage of its kind, and targets a slot where the stage needs one.
JobWf(j) ==
    /\ j \in Job
    /\ j.kind = "Open" <=> j.stage \in OpenStages
    /\ j.stage \in {"Start", "Super", "Header"} => j.target \in 0..SegmentCount
    /\ j.stage \in {"Tail", "Load", "Scan"} => j.target \in Segments
    /\ j.stage = "Scan" => j.left > 0
    /\ j.kind = "Rollover" => j.target \in Segments
    /\ j.kind \in {"Seal", "Close"} => j.target = None
    /\ j.stage \in Allocated => j.kind = "Rollover"
    /\ j.stage = "Closed" => j.kind = "Close"

\* The job is present exactly while the pipeline is under maintenance; it is not waiting for
\* its control request when it runs, and a control request belongs to a waiting job.
JobInv ==
    /\ job # None => JobWf(job)
    /\ maintenance <=> job # None
    /\ phase \in {"step", "act"} => job # None
    /\ phase = "act" => progress \in {"io", "done", "err"}
    /\ control # "none" /\ ~queue_failed => job # None /\ job.waiting
    /\ phase = "step" => ~job.waiting
    /\ phase = "act" /\ job.waiting => queue_failed
    /\ phase = "act" /\ progress = "io" => job.stage # "Drain"
    /\ job # None /\ job.waiting => job.stage # "Drain"
    /\ state = "New" => job = None /\ phase = "idle" /\ ~opened

\* Past the drain no write or flush is pending, and nothing at all when closing.
DrainInv ==
    /\ ~opened => ~WritesPending /\ InFlight = {}
    /\ job # None /\ job.kind = "Open" => ~opened
    /\ job # None /\ job.stage # "Drain" => ~WritesPending
    /\ job # None /\ job.kind = "Close" /\ (job.stage # "Drain" \/ phase = "act") => InFlight = {}
    /\ job # None /\ job.kind = "Close" => state = "Closing" \/ queue_failed
    /\ state = "Closed" => InFlight = {} /\ job = None

\* The slot a rollover allocates is not used before, nor attached until the job ends.
SlotInv ==
    /\ attached \subseteq used /\ used \subseteq Segments
    /\ job # None /\ job.kind = "Rollover" /\ job.stage \in Unallocated => job.target \notin used
    /\ job # None /\ job.stage \in Allocated =>
          /\ job.target \in used
          /\ job.target \in attached => phase = "act" /\ progress = "done"

\* The frames of a segment are writes, all published once it is sealed.
SealInv ==
    /\ sealed \subseteq attached
    /\ active # None => active \in attached \ sealed
    /\ DOMAIN contents = Segments
    /\ \A n \in Segments : contents[n] \subseteq WriteTickets
    /\ \A n \in sealed : contents[n] \subseteq Published

EngineInv == JobInv /\ DrainInv /\ SlotInv /\ SealInv

(***************************************************************************)
(* What the steps of a job have in common                                  *)
(***************************************************************************)
Progress == {"continue", "wait", "io", "done", "err"}

\* The steps of job.step, each of which moves to a next stage with some progress.
StepJob ==
    \/ StepStart \/ (\E ok \in BOOLEAN : StepSuper(ok)) \/ StepHeader
    \/ StepLoad \/ StepScan
    \/ (\E found \in {"unused", "allocated", "corrupt"}, frames \in 0..SegmentFrames :
          StepTail(found, frames))
    \/ StepNotOpened \/ StepDrainWait \/ (\E chunks \in 0..FooterChunks : StepDrainSeal(chunks))
    \/ StepDrainInactive \/ StepFooter \/ StepLastWrite \/ StepLastSync \/ StepAllocate
    \/ StepHeaderSync \/ StepAttach \/ StepClosed

\* The job moves to `stage' and asks for `p'.
Moved(stage, p) ==
    /\ job' # None /\ JobWf(job')
    /\ job'.kind = job.kind /\ job'.waiting = job.waiting /\ job'.stage = stage
    /\ job.kind # "Open" => job'.target = job.target
    /\ phase' \in {"act", "poll", "idle"}
    /\ phase' = "act" => p \in {"io", "done", "err"}
    /\ p \in {"io", "done", "err"} => phase' = "act" /\ progress' = p

\* An assignment of job.stage followed by a return is a move.
LEMMA ToMoved ==
    ASSUME NEW j, JobWf(j), j.kind = job.kind, j.waiting = job.waiting,
           job.kind # "Open" => j.target = job.target,
           NEW p \in Progress, To(j, p)
    PROVE  Moved(j.stage, p)
<1>1. job' = [j EXCEPT !.blocked = (p = "wait")]
  BY DEF To
<1>2. /\ job' \in Job /\ job'.kind = j.kind /\ job'.stage = j.stage /\ job'.target = j.target
      /\ job'.left = j.left /\ job'.waiting = j.waiting
  BY <1>1 DEF Job, JobWf
<1>3. job' # None /\ JobWf(job')
  BY <1>2, EngineAssumption DEF JobWf
<1>4. /\ phase' \in {"act", "poll", "idle"}
      /\ phase' = "act" => p \in {"io", "done", "err"}
      /\ p \in {"io", "done", "err"} => phase' = "act" /\ progress' = p
  BY DEF To, DriveReturn, Act, Progress
<1> QED
  BY <1>2, <1>3, <1>4 DEF Moved

\* Where a step may go: it leaves the drain only when that is over, and the stages after the
\* allocation are not left.
Goes(stage, p) ==
    /\ p = "io" => stage # "Drain"
    /\ stage = "Drain" => job.stage = "Drain"
    /\ job.stage = "Drain" /\ (stage # "Drain" \/ p # "wait") => ~opened \/ ~DrainBlocked
    /\ stage \in Allocated => job.stage \in Allocated \/ StepAllocate
    /\ job.stage \in Allocated => stage \in Allocated

\* Every arm of the match in Job::step moves the job, and goes where it may.
LEMMA StepEffect ==
    ASSUME JobInv, StepJob
    PROVE  /\ phase = "step" /\ job # None /\ JobWf(job)
           /\ UNCHANGED <<state, opened>>
           /\ \E stage \in JobStages, p \in Progress : Moved(stage, p) /\ Goes(stage, p)
<1>1. phase = "step" /\ UNCHANGED <<state, opened>>
  BY DEF StepJob, StepStart, StepSuper, StepHeader, StepLoad, StepScan, StepTail, StepNotOpened,
     StepDrainWait, StepDrainSeal, StepDrainInactive, StepFooter, StepLastWrite, StepLastSync,
     StepAllocate, StepHeaderSync, StepAttach, StepClosed, Step
<1>2. job # None /\ JobWf(job)
  BY <1>1 DEF JobInv
<1>3. job \in Job /\ job.stage \in JobStages
  BY <1>2 DEF JobWf, Job
<1> DEFINE Effect == \E stage \in JobStages, p \in Progress : Moved(stage, p) /\ Goes(stage, p)
<1>4. ASSUME NEW stage \in JobStages, NEW p \in Progress, Moved(stage, p), Goes(stage, p)
      PROVE  Effect
  BY <1>4
<1>5. Sync \in {"io", "continue"}
  BY DEF Sync
<1> SUFFICES Effect
  BY <1>1, <1>2
<1> HIDE DEF Effect
<1>6. ASSUME NEW p \in Progress, To(job, p), p # "io",
             job.stage = "Drain" => p = "wait" \/ ~opened \/ ~DrainBlocked
      PROVE  Effect
  <2>1. Moved(job.stage, p)
    BY <1>2, <1>6, ToMoved
  <2>2. Goes(job.stage, p)
    BY <1>6 DEF Goes
  <2> QED
    BY <1>3, <1>4, <2>1, <2>2
<1>7. ASSUME NEW stage \in JobStages, NEW p \in Progress, To([job EXCEPT !.stage = stage], p),
             JobWf([job EXCEPT !.stage = stage]), Goes(stage, p)
      PROVE  Effect
  <2> DEFINE j == [job EXCEPT !.stage = stage]
  <2>1. j.kind = job.kind /\ j.waiting = job.waiting /\ j.target = job.target /\ j.stage = stage
    BY <1>3 DEF Job
  <2> HIDE DEF j
  <2>2. JobWf(j) /\ To(j, p)
    BY <1>7 DEF j
  <2>3. Moved(j.stage, p)
    BY <2>1, <2>2, ToMoved
  <2> QED
    BY <1>4, <1>7, <2>1, <2>3
<1>8. ASSUME NEW stage \in JobStages, NEW left \in Nat, NEW p \in Progress,
             To([job EXCEPT !.stage = stage, !.left = left], p),
             JobWf([job EXCEPT !.stage = stage, !.left = left]), Goes(stage, p)
      PROVE  Effect
  <2> DEFINE j == [job EXCEPT !.stage = stage, !.left = left]
  <2>1. j.kind = job.kind /\ j.waiting = job.waiting /\ j.target = job.target /\ j.stage = stage
    BY <1>3 DEF Job
  <2> HIDE DEF j
  <2>2. JobWf(j) /\ To(j, p)
    BY <1>8 DEF j
  <2>3. Moved(j.stage, p)
    BY <2>1, <2>2, ToMoved
  <2> QED
    BY <1>4, <1>8, <2>1, <2>3
\* A stage of the same kind that needs nothing of `left'.
<1>9. ASSUME NEW stage \in JobStages, job.stage \in OpenStages <=> stage \in OpenStages,
             stage \notin Allocated, stage # "Scan", stage = "Closed" => job.kind = "Close",
             stage \in {"Tail", "Load"} => job.target \in Segments,
             stage \in {"Start", "Super", "Header"} => job.target \in 0..SegmentCount
      PROVE  JobWf([job EXCEPT !.stage = stage])
  <2> DEFINE j == [job EXCEPT !.stage = stage]
  <2>1. /\ j \in Job /\ j.kind = job.kind /\ j.target = job.target /\ j.stage = stage
        /\ j.left = job.left
    BY <1>3, <1>9 DEF Job
  <2> HIDE DEF j
  <2>2. JobWf(j)
    BY <1>2, <1>9, <2>1 DEF JobWf, Allocated
  <2> QED
    BY <2>2 DEF j
<1>10. ASSUME job.stage \in {"Tail", "Load", "Scan"}
       PROVE  /\ JobWf(NextSegment) /\ NextSegment.kind = job.kind
              /\ NextSegment.waiting = job.waiting /\ NextSegment.stage = "Header"
              /\ job.kind = "Open"
  <2>1. job.target \in Segments /\ job.kind = "Open"
    BY <1>2, <1>10 DEF JobWf, OpenStages
  <2>2. job.target + 1 \in 0..SegmentCount /\ job.target + 1 \in Segments \cup {SegmentCount}
    BY <2>1, EngineAssumption, SMT DEF Segments
  <2>3. NextSegment = [job EXCEPT !.stage = "Header", !.target = job.target + 1]
    BY <1>3 DEF NextSegment, Job
  <2>4. /\ NextSegment \in Job /\ NextSegment.kind = job.kind /\ NextSegment.waiting = job.waiting
        /\ NextSegment.stage = "Header" /\ NextSegment.target = job.target + 1
    BY <1>3, <2>2, <2>3 DEF Job, JobStages
  <2> QED
    BY <2>1, <2>2, <2>4 DEF JobWf, OpenStages, Allocated
<1>11. ASSUME job.stage \in {"Tail", "Load", "Scan"}, To(NextSegment, "continue")
       PROVE  Effect
  <2>1. Moved("Header", "continue")
    BY <1>10, <1>11, ToMoved DEF Progress
  <2>2. Goes("Header", "continue") /\ "Header" \in JobStages /\ "continue" \in Progress
    BY <1>11 DEF Goes, JobStages, Progress, Allocated
  <2> QED
    BY <1>4, <2>1, <2>2
<1>12. CASE StepStart
  <2>1. job.stage = "Start" /\ To([job EXCEPT !.stage = "Super"], "io")
    BY <1>12 DEF StepStart, Step
  <2>2. JobWf([job EXCEPT !.stage = "Super"])
    BY <1>2, <1>9, <2>1 DEF JobWf, OpenStages, JobStages, Allocated
  <2> QED
    BY <1>7, <2>1, <2>2 DEF Goes, JobStages, Progress, Allocated
<1>13. ASSUME NEW ok \in BOOLEAN, StepSuper(ok)
       PROVE  Effect
  <2>1. job.stage = "Super"
    BY <1>13 DEF StepSuper, Step
  <2>2. CASE ok
    <3>1. To([job EXCEPT !.stage = "Header"], "continue")
      BY <1>13, <2>2 DEF StepSuper
    <3>2. JobWf([job EXCEPT !.stage = "Header"])
      BY <1>2, <1>9, <2>1 DEF JobWf, OpenStages, JobStages, Allocated
    <3> QED
      BY <1>7, <2>1, <3>1, <3>2 DEF Goes, JobStages, Progress, Allocated
  <2>3. CASE ~ok
    BY <1>6, <1>13, <2>1, <2>3 DEF StepSuper, Progress
  <2> QED
    BY <2>2, <2>3
<1>14. CASE StepHeader
  <2>1. job.stage = "Header"
    BY <1>14 DEF StepHeader, Step
  <2>2. CASE AllScanned
    BY <1>6, <1>14, <2>1, <2>2 DEF StepHeader, Progress
  <2>3. CASE ~AllScanned
    <3>1. To([job EXCEPT !.stage = "Tail"], "io")
      BY <1>14, <2>3 DEF StepHeader
    <3>2. job.target \in Segments
      BY <1>2, <2>1, <2>3, EngineAssumption, SMT DEF JobWf, AllScanned, Segments
    <3>3. JobWf([job EXCEPT !.stage = "Tail"])
      BY <1>9, <2>1, <3>2 DEF OpenStages, JobStages, Allocated
    <3> QED
      BY <1>7, <2>1, <3>1, <3>3 DEF Goes, JobStages, Progress, Allocated
  <2> QED
    BY <2>2, <2>3
<1>15. ASSUME job.stage \in {"Load", "Scan"}, job.left > 0, LoadFrame
       PROVE  Effect
  <2> DEFINE j == [job EXCEPT !.stage = "Load", !.left = job.left - 1]
  <2>1. job.left \in Nat /\ job.left - 1 \in Nat
    BY <1>3, <1>15, SMT DEF Job
  <2>2. To(j, "continue")
    BY <1>3, <1>15 DEF LoadFrame, Job
  <2>3. /\ j \in Job /\ j.kind = job.kind /\ j.target = job.target /\ j.stage = "Load"
        /\ j.waiting = job.waiting
    BY <1>3, <2>1 DEF Job, JobStages
  <2> HIDE DEF j
  <2>4. JobWf(j)
    BY <1>2, <1>15, <2>3 DEF JobWf, OpenStages, Allocated
  <2>5. Moved("Load", "continue")
    BY <2>2, <2>3, <2>4, ToMoved DEF Progress
  <2> QED
    BY <1>4, <1>15, <2>5 DEF Goes, JobStages, Progress, Allocated
<1>16. CASE StepLoad
  <2>1. job.stage = "Load"
    BY <1>16 DEF StepLoad, Step
  <2>2. CASE job.left > 0 /\ LoadFrame
    BY <1>15, <2>1, <2>2
  <2>3. CASE job.left > 0 /\ To([job EXCEPT !.stage = "Scan"], "io")
    <3> DEFINE j == [job EXCEPT !.stage = "Scan"]
    <3>1. /\ j \in Job /\ j.kind = job.kind /\ j.target = job.target /\ j.stage = "Scan"
          /\ j.left = job.left /\ j.waiting = job.waiting
      BY <1>3 DEF Job, JobStages
    <3>2. JobWf(j)
      <4> HIDE DEF j
      <4> QED
        BY <1>2, <2>1, <2>3, <3>1 DEF JobWf, OpenStages, Allocated
    <3> QED
      BY <1>7, <2>1, <2>3, <3>2 DEF Goes, JobStages, Progress, Allocated
  <2>4. CASE To(NextSegment, "continue")
    BY <1>11, <2>1, <2>4
  <2>5. CASE To(job, "err")
    BY <1>6, <2>1, <2>5 DEF Progress
  <2> QED
    BY <1>16, <2>2, <2>3, <2>4, <2>5 DEF StepLoad
<1>17. CASE StepScan
  <2>1. job.stage = "Scan" /\ job.left > 0
    BY <1>2, <1>17 DEF StepScan, Step, JobWf
  <2>2. CASE LoadFrame
    BY <1>15, <2>1, <2>2
  <2>3. CASE To([NextSegment EXCEPT !.left = 0], "continue")
    <3> DEFINE n == NextSegment
               j == [n EXCEPT !.left = 0]
    <3>1. JobWf(n) /\ n.kind = job.kind /\ n.waiting = job.waiting /\ n.stage = "Header"
          /\ job.kind = "Open"
      BY <1>10, <2>1
    <3> HIDE DEF n
    <3>2. /\ j \in Job /\ j.kind = n.kind /\ j.target = n.target /\ j.stage = n.stage
          /\ j.waiting = n.waiting
      BY <3>1 DEF JobWf, Job
    <3>3. To(j, "continue")
      BY <2>3 DEF n
    <3> HIDE DEF j
    <3>4. JobWf(j)
      BY <3>1, <3>2 DEF JobWf, OpenStages, Allocated
    <3>5. Moved("Header", "continue")
      BY <3>1, <3>2, <3>3, <3>4, ToMoved DEF Progress
    <3> QED
      BY <1>4, <2>1, <3>5 DEF Goes, JobStages, Progress, Allocated
  <2>4. CASE To(job, "err")
    BY <1>6, <2>1, <2>4 DEF Progress
  <2> QED
    BY <1>17, <2>2, <2>3, <2>4 DEF StepScan
<1>18. ASSUME NEW found \in {"unused", "allocated", "corrupt"}, NEW frames \in 0..SegmentFrames,
              StepTail(found, frames)
       PROVE  Effect
  <2>1. job.stage = "Tail"
    BY <1>18 DEF StepTail, Step
  <2>2. CASE found = "unused"
    BY <1>11, <1>18, <2>1, <2>2 DEF StepTail
  <2>3. CASE found = "corrupt"
    <3>1. To(job, "err")
      BY <1>18, <2>3 DEF StepTail
    <3> QED
      BY <1>6, <2>1, <3>1 DEF Progress
  <2>4. CASE found = "allocated"
    <3> DEFINE j == [job EXCEPT !.stage = "Load", !.left = frames]
    <3>1. To(j, "continue") /\ frames \in Nat
      BY <1>18, <2>4, PipelineAssumption, SMT DEF StepTail
    <3>2. j \in Job /\ j.kind = job.kind /\ j.target = job.target /\ j.stage = "Load"
      BY <1>3, <3>1 DEF Job, JobStages
    <3>3. JobWf(j)
      <4> HIDE DEF j
      <4> QED
        BY <1>2, <2>1, <3>2 DEF JobWf, OpenStages, Allocated
    <3> QED
      BY <1>8, <2>1, <3>1, <3>3 DEF Goes, JobStages, Progress, Allocated
  <2> QED
    BY <2>2, <2>3, <2>4
<1>19. CASE StepNotOpened \/ StepDrainWait \/ StepClosed
  <2>1. CASE StepNotOpened
    BY <1>6, <2>1 DEF StepNotOpened, Progress
  <2>2. CASE StepDrainWait
    BY <1>6, <2>2 DEF StepDrainWait, Progress
  <2>3. CASE StepClosed
    BY <1>6, <2>3 DEF StepClosed, Step, Progress
  <2> QED
    BY <1>19, <2>1, <2>2, <2>3
<1>20. ASSUME NEW chunks \in 0..FooterChunks, StepDrainSeal(chunks)
       PROVE  Effect
  <2>1. job.stage = "Drain" /\ ~DrainBlocked
    BY <1>20 DEF StepDrainSeal, Step
  <2>2. CASE To(job, "err")
    BY <1>6, <2>1, <2>2 DEF Progress
  <2>3. CASE To([job EXCEPT !.stage = "Footer", !.left = chunks], "continue")
    <3> DEFINE j == [job EXCEPT !.stage = "Footer", !.left = chunks]
    <3>1. chunks \in Nat
      BY EngineAssumption, SMT
    <3>2. j \in Job /\ j.kind = job.kind /\ j.target = job.target /\ j.stage = "Footer"
      BY <1>3, <3>1 DEF Job, JobStages
    <3>3. JobWf(j)
      <4> HIDE DEF j
      <4> QED
        BY <1>2, <2>1, <3>2 DEF JobWf, OpenStages, Allocated
    <3> QED
      BY <1>8, <2>1, <2>3, <3>1, <3>3 DEF Goes, JobStages, Progress, Allocated
  <2> QED
    BY <1>20, <2>2, <2>3 DEF StepDrainSeal
<1>21. CASE StepDrainInactive
  <2>1. job.stage = "Drain" /\ ~DrainBlocked
    BY <1>21 DEF StepDrainInactive, Step
  <2>2. CASE job.kind = "Close"
    <3>1. To([job EXCEPT !.stage = "Closed"], Sync)
      BY <1>21, <2>2 DEF StepDrainInactive
    <3>2. JobWf([job EXCEPT !.stage = "Closed"])
      BY <1>9, <2>1, <2>2 DEF OpenStages, JobStages, Allocated
    <3> QED
      BY <1>5, <1>7, <2>1, <3>1, <3>2 DEF Goes, JobStages, Progress, Allocated
  <2>3. CASE job.kind # "Close"
    <3>1. To([job EXCEPT !.stage = "Allocate"], "continue")
      BY <1>21, <2>3 DEF StepDrainInactive
    <3>2. JobWf([job EXCEPT !.stage = "Allocate"])
      BY <1>9, <2>1 DEF OpenStages, JobStages, Allocated
    <3> QED
      BY <1>7, <2>1, <3>1, <3>2 DEF Goes, JobStages, Progress, Allocated
  <2> QED
    BY <2>2, <2>3
<1>22. CASE StepFooter
  <2>1. job.stage = "Footer"
    BY <1>22 DEF StepFooter, Step
  <2>2. CASE job.left > 0
    <3> DEFINE j == [job EXCEPT !.left = job.left - 1]
    <3>1. To(j, "io") /\ job.left - 1 \in Nat
      BY <1>3, <1>22, <2>2, SMT DEF StepFooter, Job
    <3>2. /\ j \in Job /\ j.kind = job.kind /\ j.target = job.target /\ j.stage = "Footer"
          /\ j.waiting = job.waiting
      BY <1>3, <2>1, <3>1 DEF Job
    <3> HIDE DEF j
    <3>3. JobWf(j)
      BY <1>2, <2>1, <3>2 DEF JobWf, OpenStages, Allocated
    <3>4. Moved("Footer", "io")
      BY <3>1, <3>2, <3>3, ToMoved DEF Progress
    <3> QED
      BY <1>4, <2>1, <3>4 DEF Goes, JobStages, Progress, Allocated
  <2>3. CASE ~(job.left > 0)
    <3>1. To([job EXCEPT !.stage = "LastWrite"], Sync)
      BY <1>22, <2>3 DEF StepFooter
    <3>2. JobWf([job EXCEPT !.stage = "LastWrite"])
      BY <1>9, <2>1 DEF OpenStages, JobStages, Allocated
    <3> QED
      BY <1>5, <1>7, <2>1, <3>1, <3>2 DEF Goes, JobStages, Progress, Allocated
  <2> QED
    BY <2>2, <2>3
<1>23. CASE StepLastWrite
  <2>1. job.stage = "LastWrite" /\ To([job EXCEPT !.stage = "LastSync"], "io")
    BY <1>23 DEF StepLastWrite, Step
  <2>2. JobWf([job EXCEPT !.stage = "LastSync"])
    BY <1>9, <2>1 DEF OpenStages, JobStages, Allocated
  <2> QED
    BY <1>7, <2>1, <2>2 DEF Goes, JobStages, Progress, Allocated
<1>24. CASE StepLastSync
  <2>1. job.stage = "LastSync" /\ To([job EXCEPT !.stage = "Allocate"], Sync)
    BY <1>24 DEF StepLastSync, Step
  <2>2. JobWf([job EXCEPT !.stage = "Allocate"])
    BY <1>9, <2>1 DEF OpenStages, JobStages, Allocated
  <2> QED
    BY <1>5, <1>7, <2>1, <2>2 DEF Goes, JobStages, Progress, Allocated
\* The stages after the allocation belong to a rollover.
<1>25. ASSUME NEW stage \in Allocated, job.kind = "Rollover"
       PROVE  JobWf([job EXCEPT !.stage = stage])
  <2> DEFINE j == [job EXCEPT !.stage = stage]
  <2>1. j \in Job /\ j.kind = job.kind /\ j.target = job.target /\ j.stage = stage
    BY <1>3, <1>25 DEF Job, JobStages, Allocated
  <2>2. JobWf(j)
    <3> HIDE DEF j
    <3> QED
      BY <1>2, <1>25, <2>1 DEF JobWf, OpenStages, Allocated
  <2> QED
    BY <2>2
<1>26. CASE StepAllocate
  <2>1. job.stage = "Allocate"
    BY <1>26 DEF StepAllocate, Step
  <2>2. CASE job.target = None
    BY <1>6, <1>26, <2>1, <2>2 DEF StepAllocate, Progress
  <2>3. CASE job.target # None
    <3>1. job.kind = "Rollover"
      BY <1>2, <1>3, <2>1, <2>3 DEF JobWf, Job, Kinds, OpenStages
    <3>2. To([job EXCEPT !.stage = "HeaderSync"], "io")
      BY <1>26, <2>3 DEF StepAllocate
    <3>3. JobWf([job EXCEPT !.stage = "HeaderSync"])
      BY <1>25, <3>1 DEF Allocated
    <3> QED
      BY <1>7, <1>26, <2>1, <3>2, <3>3 DEF Goes, JobStages, Progress, Allocated
  <2> QED
    BY <2>2, <2>3
<1>27. CASE StepHeaderSync
  <2>1. job.stage = "HeaderSync" /\ To([job EXCEPT !.stage = "Attach"], Sync)
    BY <1>27 DEF StepHeaderSync, Step
  <2>2. JobWf([job EXCEPT !.stage = "Attach"])
    BY <1>2, <1>25, <2>1 DEF JobWf, Allocated
  <2> QED
    BY <1>5, <1>7, <2>1, <2>2 DEF Goes, JobStages, Progress, Allocated
<1>28. CASE StepAttach
  <2>1. job.stage = "Attach" /\ \E p \in {"done", "err"} : To(job, p)
    BY <1>28 DEF StepAttach, Step
  <2> QED
    BY <1>6, <2>1 DEF Progress
<1> QED
  BY <1>12, <1>13, <1>14, <1>16, <1>17, <1>18, <1>19, <1>20, <1>21, <1>22, <1>23, <1>24, <1>26,
     <1>27, <1>28 DEF StepJob

(***************************************************************************)
(* The engine as an owner of the pipeline                                  *)
(***************************************************************************)
\* Pipeline::poll only completes operations and moves the control request on.
LEMMA PollShrinks ==
    ASSUME Inv, QueueInv, PollStep \/ Device \/ PollBegin
    PROVE  /\ InFlight' \subseteq InFlight
           /\ WritesPending' => WritesPending
           /\ maintenance' = maintenance
           /\ queue_failed => queue_failed'
           /\ control' # "none" => control # "none"
<1> DEFINE Gone(s) == slots' = [slots EXCEPT ![s] = None]
<1>1. slots \in [Slots -> Pending \cup {None}]
  BY DEF Inv, TypeOK, QueueType
<1>2. ASSUME NEW s, slots' = [slots EXCEPT ![s] = None] PROVE InFlight' \subseteq InFlight
  BY <1>1, <1>2 DEF InFlight, Free
<1>3. ASSUME NEW s \in Slots, slots[s] # None, NEW x, slots' = [slots EXCEPT ![s] = x]
      PROVE  InFlight' \subseteq InFlight
  BY <1>1, <1>3 DEF InFlight, Free
<1>4. ASSUME UNCHANGED slots PROVE InFlight' \subseteq InFlight
  BY <1>4 DEF InFlight, Free
<1>5. ASSUME NEW s \in Slots, Reap(s) PROVE slots[s] # None
  <2>1. io[s] # "idle" /\ ~queue_failed
    BY <1>5 DEF Inv, Running, Reap, ReapWrite, ReapMetadata, ReapFlush, ReapRead, Pop
  <2> QED
    BY <2>1 DEF Inv, IdleSlots
<1>6. CASE Device \/ PollBegin
  <2>1. UNCHANGED <<slots, writes, flush, maintenance, queue_failed, control>>
    BY <1>6 DEF Device, DeviceComplete, PollBegin, queueVars, ownerVars, failVars
  <2> QED
    BY <1>4, <2>1 DEF WritesPending
<1>7. CASE RetireEnd \/ FlushSkip \/ ReadsEnd \/ QueuePoll \/ QueueError \/ ReapEnd
  <2>1. UNCHANGED <<slots, writes, flush, maintenance, control>> /\ (queue_failed => queue_failed')
    BY <1>7, SMT DEF RetireEnd, FlushSkip, ReadsEnd, QueuePoll, QueueError, ReapEnd, queueVars,
       ownerVars, failVars
  <2> QED
    BY <1>4, <2>1 DEF WritesPending
<1>8. CASE RetireFailedEnd
  <2>1. /\ UNCHANGED <<slots, maintenance, control, queue_failed>>
        /\ writes' = <<>> /\ flush' = None
    BY <1>8 DEF RetireFailedEnd, ownerVars, failVars
  <2> QED
    BY <1>4, <2>1 DEF WritesPending
<1>9. CASE StartControl \/ \E bytes \in 0..1 : ReapControl(bytes)
  <2>1. UNCHANGED <<slots, writes, flush, maintenance, queue_failed>>
    BY <1>9 DEF StartControl, ReapControl, failVars
  <2>2. control' # "none" => control # "none"
    <3>1. CASE StartControl
      BY <3>1 DEF StartControl
    <3>2. CASE \E bytes \in 0..1 : ReapControl(bytes)
      <4>1. io[CONTROL] \in {"ok", "err"}
        BY <3>2 DEF ReapControl, Pop
      <4> QED
        BY <4>1 DEF QueueInv, ControlToken
    <3> QED
      BY <1>9, <3>1, <3>2
  <2> QED
    BY <1>4, <2>1, <2>2 DEF WritesPending
<1>10. CASE RetireWrite
  <2>1. /\ writes # <<>> /\ flush' = flush
        /\ UNCHANGED <<maintenance, queue_failed, control>>
    BY <1>10 DEF RetireWrite, FrontCompleted, ownerVars, failVars
  <2>2. InFlight' \subseteq InFlight
    BY <1>2, <1>10 DEF RetireWrite
  <2> QED
    BY <2>1, <2>2 DEF WritesPending
<1>11. CASE FlushFinish
  <2>1. WritesPending /\ UNCHANGED <<maintenance, queue_failed, control>>
    BY <1>11 DEF FlushFinish, FlushRunnable, WritesPending, ownerVars, failVars
  <2>2. InFlight' \subseteq InFlight
    BY <1>2, <1>11 DEF FlushFinish
  <2> QED
    BY <2>1, <2>2
<1>12. CASE FlushSubmit
  <2>1. WritesPending /\ UNCHANGED <<maintenance, queue_failed, control>>
    BY <1>12 DEF FlushSubmit, FlushRunnable, WritesPending, ownerVars, failVars
  <2>2. flush \in Slots /\ slots[flush] # None
    BY <1>12 DEF Inv, Running, FlushSubmit, FlushRunnable, FlushSlot, Holds, TypeOK, QueueType
  <2>3. InFlight' \subseteq InFlight
    BY <1>3, <1>12, <2>2 DEF FlushSubmit
  <2> QED
    BY <2>1, <2>3
<1>13. CASE CompleteEmptyRead
  <2>1. UNCHANGED <<writes, flush, maintenance, queue_failed, control>>
    BY <1>13 DEF CompleteEmptyRead, ownerVars, failVars
  <2>2. InFlight' \subseteq InFlight
    BY <1>2, <1>13 DEF CompleteEmptyRead
  <2> QED
    BY <2>1, <2>2 DEF WritesPending
<1>14. CASE \E s \in Slots : Reap(s)
  <2>1. PICK s \in Slots : Reap(s)
    BY <1>14
  <2>2. UNCHANGED <<writes, maintenance, queue_failed, control>> /\ flush' \in {flush, None}
    BY <2>1 DEF Reap, ReapWrite, ReapMetadata, ReapFlush, ReapRead, ownerVars, failVars
  <2>3. InFlight' \subseteq InFlight
    <3>1. CASE ReapWrite(s) \/ ReapMetadata(s)
      <4>1. \E x : slots' = [slots EXCEPT ![s] = x]
        BY <3>1 DEF ReapWrite, ReapMetadata
      <4> QED
        BY <1>3, <1>5, <2>1, <4>1
    <3>2. CASE ReapFlush(s) \/ \E result \in {"ok", "err"} : ReapRead(s, result)
      BY <1>2, <3>2 DEF ReapFlush, ReapRead
    <3> QED
      BY <2>1, <3>1, <3>2 DEF Reap
  <2> QED
    BY <2>2, <2>3 DEF WritesPending
<1>15. CASE \E s \in Slots : RetireFailed(s)
  <2>1. UNCHANGED <<writes, flush, maintenance, queue_failed, control>>
    BY <1>15 DEF RetireFailed, ownerVars
  <2>2. InFlight' \subseteq InFlight
    BY <1>2, <1>4, <1>15 DEF RetireFailed
  <2> QED
    BY <2>1, <2>2 DEF WritesPending
<1> QED
  BY <1>6, <1>7, <1>8, <1>9, <1>10, <1>11, <1>12, <1>13, <1>14, <1>15 DEF PollStep

\* A lifecycle call starts a job, or only takes a ticket, or does nothing.
Started(kind) ==
    /\ job = None /\ job' # None /\ JobWf(job') /\ job'.kind = kind
    /\ ~job'.waiting /\ job'.stage = (IF kind = "Open" THEN "Start" ELSE "Drain")
    /\ \E ticketed \in BOOLEAN : BeginMaintenance(ticketed)

\* A new job is well formed.
LEMMA NewJobWf ==
    ASSUME NEW kind \in Kinds, NEW stage, stage = (IF kind = "Open" THEN "Start" ELSE "Drain"),
           NEW target, IF kind = "Open" THEN target = 0
                       ELSE IF kind = "Rollover" THEN target \in Segments ELSE target = None,
           NEW ticketed \in BOOLEAN, Inv, NewJob(kind, stage, target, ticketed)
    PROVE  /\ job' # None /\ JobWf(job') /\ job'.kind = kind /\ ~job'.waiting /\ job'.stage = stage
           /\ job'.target = target
<1>1. next_ticket \in Nat /\ 0 \in Nat
  BY PipelineAssumption, SMT DEF Inv, TypeOK, TicketType
<1>2. job' = [kind |-> kind, ticket |-> IF ticketed THEN next_ticket ELSE 0, stage |-> stage,
              target |-> target, left |-> 0, waiting |-> FALSE, blocked |-> FALSE]
  BY DEF NewJob
<1>3. (IF ticketed THEN next_ticket ELSE 0) \in Nat
  BY <1>1
<1>4. stage \in JobStages /\ target \in Segments \cup {SegmentCount, None}
  BY EngineAssumption, SMT DEF JobStages, Kinds, Segments
<1>5. job' \in Job
  BY <1>2, <1>3, <1>4 DEF Job
<1>6. job'.kind = kind /\ job'.stage = stage /\ job'.target = target /\ ~job'.waiting
  BY <1>2
<1>7. job' # None
  BY <1>5, EngineAssumption
<1>8. JobWf(job')
  BY <1>5, <1>6, EngineAssumption, SMT DEF JobWf, OpenStages, Allocated, Kinds, Segments
<1> QED
  BY <1>6, <1>7, <1>8

\* open, rollover, seal and close each start a job of their kind.
LEMMA Starts ==
    ASSUME Inv, JobInv
    PROVE  /\ Open => Started("Open") /\ ~opened /\ opened' = opened
           /\ \A number, ticketed : StartRollover(number, ticketed) /\ ticketed \in BOOLEAN /\ job = None
                 => Started("Rollover") /\ job'.target = number /\ number \notin used
           /\ Seal => Started("Seal")
           /\ Close => Started("Close")
<1>1. ASSUME Open PROVE Started("Open") /\ ~opened /\ opened' = opened
  <2>1. /\ NewJob("Open", "Start", 0, TRUE) /\ job = None /\ BeginMaintenance(TRUE)
        /\ ~opened /\ opened' = opened
    BY <1>1 DEF Open, JobInv
  <2>2. "Open" \in Kinds /\ TRUE \in BOOLEAN
    BY DEF Kinds
  <2>3. job' # None /\ JobWf(job') /\ job'.kind = "Open" /\ ~job'.waiting /\ job'.stage = "Start"
    BY <2>1, <2>2, NewJobWf
  <2> QED
    BY <2>1, <2>3 DEF Started
<1>2. ASSUME NEW number, NEW ticketed \in BOOLEAN, StartRollover(number, ticketed), job = None
      PROVE  Started("Rollover") /\ job'.target = number /\ number \notin used
  <2>1. /\ NewJob("Rollover", "Drain", number, ticketed) /\ BeginMaintenance(ticketed)
        /\ number \in Segments /\ number \notin used
    BY <1>2 DEF StartRollover
  <2>2. /\ job' # None /\ JobWf(job') /\ job'.kind = "Rollover" /\ ~job'.waiting
        /\ job'.stage = "Drain" /\ job'.target = number
    BY <2>1, NewJobWf, SMT DEF Kinds
  <2> QED
    BY <1>2, <2>1, <2>2 DEF Started
<1>3. ASSUME Seal PROVE Started("Seal")
  <2>1. NewJob("Seal", "Drain", None, TRUE) /\ BeginMaintenance(TRUE) /\ job = None
    BY <1>3 DEF Seal, CheckWritable
  <2>2. "Seal" \in Kinds /\ TRUE \in BOOLEAN
    BY DEF Kinds
  <2>3. job' # None /\ JobWf(job') /\ job'.kind = "Seal" /\ ~job'.waiting /\ job'.stage = "Drain"
    BY <2>1, <2>2, NewJobWf
  <2> QED
    BY <2>1, <2>3 DEF Started
<1>4. ASSUME Close PROVE Started("Close")
  <2>1. NewJob("Close", "Drain", None, TRUE) /\ BeginMaintenance(TRUE) /\ job = None
    BY <1>4 DEF Close
  <2>2. "Close" \in Kinds /\ TRUE \in BOOLEAN
    BY DEF Kinds
  <2>3. job' # None /\ JobWf(job') /\ job'.kind = "Close" /\ ~job'.waiting /\ job'.stage = "Drain"
    BY <2>1, <2>2, NewJobWf
  <2> QED
    BY <2>1, <2>3 DEF Started
<1> QED
  BY <1>1, <1>2, <1>3, <1>4

\* Every step of the engine is a step of the pipeline with its owner, or leaves it alone.
LEMMA EngineStep ==
    ASSUME Inv, JobInv, DrainInv, [EngineNext]_allVars
    PROVE  [Next]_vars
<1>1. ASSUME NEW ticketed \in BOOLEAN, BeginMaintenance(ticketed), job = None PROVE Next
  BY <1>1 DEF JobInv, Next, Owner
<1>2. ASSUME WasteTicket, job = None PROVE Next
  BY <1>2 DEF JobInv, Next, Owner
<1>3. CASE EngineApi
  <2>1. CASE Open \/ Seal \/ Close
    BY <1>1, <2>1, Starts DEF Started
  <2>2. CASE WriteStartsRollover \/ Rollover \/ \E number \in 0..SegmentCount : RolloverTo(number)
    <3>1. job = None
      BY <2>2 DEF WriteStartsRollover, Rollover, RolloverTo, CheckWritable
    <3>2. \/ \E ticketed \in BOOLEAN : BeginMaintenance(ticketed)
          \/ WasteTicket \/ UNCHANGED vars
      BY <2>2 DEF WriteStartsRollover, Rollover, RolloverTo, StartRollover
    <3> QED
      BY <1>1, <1>2, <3>1, <3>2
  <2>3. ASSUME NEW s \in Slots, \/ \E k \in Keys : EngineRead(k, s)
                                \/ \E frame \in Frames : EngineWrite(frame, s)
                                \/ EngineFlush(s)
        PROVE  Next
    <3>1. CASE \E k \in Keys : EngineRead(k, s)
      BY <3>1 DEF EngineRead, Next, Api
    <3>2. CASE \E frame \in Frames : EngineWrite(frame, s)
      BY <3>2 DEF EngineWrite, CheckWritable, JobInv, Next, Api
    <3>3. CASE EngineFlush(s)
      BY <3>3 DEF EngineFlush, CheckWritable, JobInv, Next, Api
    <3> QED
      BY <2>3, <3>1, <3>2, <3>3
  <2> QED
    BY <1>3, <2>1, <2>2, <2>3 DEF EngineApi
<1>4. CASE \/ PollEngine \/ TakeNoJob \/ TakeQueueFailed \/ TakeNothingYet \/ TakeRunnable
           \/ PipelineReturned \/ UNCHANGED allVars
  <2>1. UNCHANGED vars
    BY <1>4 DEF PollEngine, TakeNoJob, TakeQueueFailed, TakeNothingYet, TakeRunnable,
       PipelineReturned, allVars
  <2> QED
    BY <2>1
<1>5. CASE TakeInput
  BY <1>5 DEF TakeInput, JobInv, Next, Owner
<1>6. CASE StepJob
  <2>1. maintenance
    BY <1>6, StepEffect DEF JobInv
  <2>2. UNCHANGED vars \/ TakeSegment \/ Attach \/ \E frame \in Frames : Restore(frame)
    BY <1>6 DEF StepJob, StepStart, StepSuper, StepHeader, StepLoad, StepScan, StepTail,
       StepNotOpened, StepDrainWait, StepDrainSeal, StepDrainInactive, StepFooter, StepLastWrite,
       StepLastSync, StepAllocate, StepHeaderSync, StepAttach, StepClosed, LoadFrame
  <2> QED
    BY <2>1, <2>2 DEF Next, Owner
<1>7. CASE ActIo
  <2>1. phase = "act" /\ progress = "io" /\ job # None /\ maintenance
    BY <1>7 DEF ActIo, JobInv
  <2>2. ~WritesPending
    BY <2>1 DEF JobInv, DrainInv
  <2> QED
    BY <1>7, <2>1, <2>2 DEF ActIo, Next, Owner
<1>8. CASE FinishJob
  <2>1. EndMaintenance /\ phase = "act" /\ job # None /\ maintenance
    BY <1>8 DEF FinishJob, JobInv
  <2>2. control = "none" \/ queue_failed
    BY <2>1 DEF JobInv
  <2> QED
    BY <2>1, <2>2 DEF Next, Owner
<1>9. CASE PipelinePoll \/ PipelineStep
  BY <1>9 DEF PipelinePoll, PipelineStep, Next
<1> QED
  BY <1>3, <1>4, <1>5, <1>6, <1>7, <1>8, <1>9 DEF EngineNext, EnginePoll, DriveJob, StepJob

(***************************************************************************)
(* The invariant is kept                                                   *)
(***************************************************************************)
\* Data operations do not touch the job, nor what it knows of the pipeline.
LEMMA DataEffect ==
    ASSUME NEW s \in Slots, \/ \E k \in Keys : EngineRead(k, s)
                            \/ \E frame \in Frames : EngineWrite(frame, s)
                            \/ EngineFlush(s)
    PROVE  /\ opened /\ state \notin {"Closing", "Closed"} /\ ~queue_failed
           /\ UNCHANGED <<job, phase, progress, state, opened, used, attached, active, sealed>>
           /\ UNCHANGED <<maintenance, control, queue_failed>>
           /\ job = None \/ UNCHANGED <<writes, flush>>
<1>1. CASE \E k \in Keys : EngineRead(k, s)
  BY <1>1 DEF EngineRead, CheckReadable, Read, ReadEmpty, ReadVerified, Admission, engineVars,
     jobVars, lifeVars, historyVars, ownerVars, failVars
<1>2. CASE \E frame \in Frames : EngineWrite(frame, s)
  BY <1>2 DEF EngineWrite, CheckWritable, CheckReadable, Write, Admission, jobVars, lifeVars,
     failVars
<1>3. CASE EngineFlush(s)
  BY <1>3 DEF EngineFlush, CheckWritable, CheckReadable, Flush, Admission, engineVars, jobVars,
     lifeVars, historyVars, ownerVars, failVars
<1> QED
  BY <1>1, <1>2, <1>3

\* Lifecycle calls leave the queue alone and start at most one job.
LEMMA CallEffect ==
    ASSUME Inv, JobInv, \/ Open \/ Seal \/ Close \/ WriteStartsRollover \/ Rollover
                        \/ \E number \in 0..SegmentCount : RolloverTo(number)
    PROVE  /\ job = None /\ phase = "idle" /\ state' # "New"
           /\ UNCHANGED <<phase, progress, opened, used, attached, active, sealed, contents>>
           /\ UNCHANGED <<slots, writes, flush, control, queue_failed>>
           /\ state' = state \/ state' \in {"Opening", "Closing"}
           /\ \/ job' = None /\ maintenance' = maintenance /\ state' = state
              \/ /\ maintenance' = TRUE
                 /\ \E kind \in Kinds : Started(kind)
                 /\ job'.kind = "Open" => ~opened
                 /\ job'.kind = "Close" => state' = "Closing"
                 /\ job'.kind = "Rollover" => job'.target \notin used
           /\ state # "Closed" /\ state' # "Closed"
<1>1. job = None /\ phase = "idle" /\ state # "Closed" /\ state' \notin {"New", "Closed"}
  BY DEF Open, Seal, Close, WriteStartsRollover, Rollover, RolloverTo, CheckWritable,
     CheckReadable, Idle, JobInv
<1>2. UNCHANGED <<phase, progress, opened, used, attached, active, sealed, contents>>
      /\ (state' = state \/ state' \in {"Opening", "Closing"})
  BY DEF Open, Seal, Close, WriteStartsRollover, Rollover, RolloverTo, jobVars, historyVars
<1>3. \/ \E ticketed \in BOOLEAN : BeginMaintenance(ticketed)
      \/ WasteTicket \/ UNCHANGED vars
  BY DEF Open, Seal, Close, WriteStartsRollover, Rollover, RolloverTo, StartRollover
<1>4. UNCHANGED <<slots, writes, flush, control, queue_failed>>
  BY <1>3 DEF BeginMaintenance, WasteTicket, vars, queueVars, ownerVars, failVars
<1>5. \A kind : Started(kind) => maintenance' = TRUE /\ job'.kind = kind
  BY DEF Started, BeginMaintenance
<1>6. CASE Open
  <2>1. Started("Open") /\ ~opened
    BY <1>6, Starts
  <2> QED
    BY <1>1, <1>2, <1>4, <1>5, <2>1, SMT DEF Kinds
<1>7. CASE Seal
  <2>1. Started("Seal")
    BY <1>7, Starts
  <2> QED
    BY <1>1, <1>2, <1>4, <1>5, <2>1, SMT DEF Kinds
<1>8. CASE Close
  <2>1. Started("Close") /\ state' = "Closing"
    BY <1>8, Starts DEF Close
  <2> QED
    BY <1>1, <1>2, <1>4, <1>5, <2>1, SMT DEF Kinds
<1>9. CASE WriteStartsRollover \/ Rollover \/ \E number \in 0..SegmentCount : RolloverTo(number)
  <2>1. /\ state' = state
        /\ \/ \E number, ticketed : ticketed \in BOOLEAN /\ StartRollover(number, ticketed)
           \/ job' = job /\ (WasteTicket \/ UNCHANGED vars)
    BY <1>9 DEF WriteStartsRollover, Rollover, RolloverTo
  <2>2. CASE \E number, ticketed : ticketed \in BOOLEAN /\ StartRollover(number, ticketed)
    <3>1. Started("Rollover") /\ job'.target \notin used
      BY <1>1, <2>2, Starts
    <3> QED
      BY <1>1, <1>2, <1>4, <1>5, <3>1, SMT DEF Kinds
  <2>3. CASE job' = job /\ (WasteTicket \/ UNCHANGED vars)
    <3>1. maintenance' = maintenance
      BY <2>3 DEF WasteTicket, vars, ownerVars
    <3> QED
      BY <1>1, <1>2, <1>4, <2>1, <2>3, <3>1
  <2> QED
    BY <2>1, <2>2, <2>3
<1> QED
  BY <1>6, <1>7, <1>8, <1>9

\* The parts of Engine::poll that leave the job as it is.
Passing ==
    \/ PollEngine \/ TakeNoJob \/ TakeQueueFailed \/ TakeNothingYet \/ TakeRunnable
    \/ PipelinePoll \/ PipelineStep \/ PipelineReturned \/ UNCHANGED allVars

\* Polling the pipeline leaves the engine's lifecycle alone, and at most reports that the
\* queue has failed.
LEMMA PassEffect ==
    ASSUME Inv, QueueInv, JobInv, Passing
    PROVE  /\ UNCHANGED <<job, opened, used, attached, active, sealed, contents>>
           /\ maintenance' = maintenance
           /\ queue_failed => queue_failed'
           /\ control' # "none" => control # "none"
           /\ InFlight' \subseteq InFlight
           /\ WritesPending' => WritesPending
           /\ state' = state \/ (state' = "Failed" /\ queue_failed' /\ state # "Closed")
           /\ state = "New" => UNCHANGED <<state, phase>>
           /\ UNCHANGED <<phase, progress>> \/ phase # "act"
           /\ phase' = "step" => phase' = phase \/ (job # None /\ ~job.waiting)
           /\ phase' = "act" => \/ phase' = phase /\ progress' = progress
                                \/ /\ job # None /\ progress' = "err" /\ queue_failed'
                                   /\ job.kind # "Close" \/ job.waiting
<1>1. CASE PipelinePoll \/ PipelineStep
  <2>1. PollStep \/ Device \/ PollBegin
    BY <1>1 DEF PipelinePoll, PipelineStep
  <2>2. UNCHANGED <<job, opened, used, attached, active, sealed, contents, state, progress>>
    BY <1>1 DEF PipelinePoll, PipelineStep, engineVars, jobVars, lifeVars, historyVars
  <2>3. phase \in {"poll", "polling"} /\ phase' = "polling" /\ state # "New"
    BY <1>1 DEF PipelinePoll, PipelineStep, engineVars, jobVars, JobInv
  <2> QED
    BY <2>1, <2>2, <2>3, PollShrinks
<1>2. CASE \/ PollEngine \/ TakeNoJob \/ TakeQueueFailed \/ TakeNothingYet \/ TakeRunnable
           \/ PipelineReturned \/ UNCHANGED allVars
  <2>1. UNCHANGED <<slots, writes, flush, maintenance, control, queue_failed>>
    BY <1>2 DEF PollEngine, TakeNoJob, TakeQueueFailed, TakeNothingYet, TakeRunnable,
       PipelineReturned, allVars, vars, queueVars, ownerVars, failVars
  <2>2. UNCHANGED <<job, opened, used, attached, active, sealed, contents>>
    BY <1>2 DEF PollEngine, TakeNoJob, TakeQueueFailed, TakeNothingYet, TakeRunnable,
       PipelineReturned, allVars, engineVars, lifeVars, historyVars
  <2>3. InFlight' = InFlight /\ WritesPending' = WritesPending
    BY <2>1 DEF InFlight, Free, WritesPending
  <2>4. CASE PollEngine \/ TakeNoJob \/ TakeNothingYet
    <3>1. /\ state' = state /\ state # "New" /\ phase # "act" /\ phase' \in {"take", "poll", "idle"}
      BY <2>4 DEF PollEngine, TakeNoJob, TakeNothingYet, DriveReturn, Idle, JobInv, lifeVars
    <3> QED
      BY <2>1, <2>2, <2>3, <3>1
  <2>5. CASE TakeQueueFailed
    <3>1. /\ state' = state /\ state # "New" /\ phase = "take" /\ phase' = "act" /\ progress' = "err"
          /\ job # None /\ queue_failed /\ (job.kind # "Close" \/ job.waiting)
      BY <2>5 DEF TakeQueueFailed, Act, JobInv, lifeVars
    <3> QED
      BY <2>1, <2>2, <2>3, <3>1
  <2>6. CASE TakeRunnable
    <3>1. /\ state' = state /\ state # "New" /\ phase = "take" /\ phase' = "step"
          /\ job # None /\ ~job.waiting
      BY <2>6 DEF TakeRunnable, JobInv, lifeVars
    <3> QED
      BY <2>1, <2>2, <2>3, <3>1
  <2>7. CASE PipelineReturned
    <3>1. /\ state' = (IF queue_failed /\ state # "Closed" THEN "Failed" ELSE state)
          /\ state # "New" /\ phase = "polling" /\ phase' = "take"
      BY <2>7 DEF PipelineReturned, JobInv
    <3> QED
      BY <2>1, <2>2, <2>3, <3>1
  <2>8. CASE UNCHANGED allVars
    <3>1. UNCHANGED <<state, phase, progress>>
      BY <2>8 DEF allVars, engineVars, jobVars, lifeVars
    <3> QED
      BY <2>1, <2>2, <2>3, <3>1
  <2> QED
    BY <1>2, <2>4, <2>5, <2>6, <2>7, <2>8
<1> QED
  BY <1>1, <1>2 DEF Passing

\* The steps of a job touch neither the queue nor the control request.
LEMMA StepLeaves ==
    ASSUME StepJob
    PROVE  /\ UNCHANGED <<slots, writes, flush, maintenance, control, queue_failed>>
           /\ InFlight' = InFlight /\ WritesPending' = WritesPending
<1>1. UNCHANGED vars \/ TakeSegment \/ Attach \/ \E frame \in Frames : Restore(frame)
  BY DEF StepJob, StepStart, StepSuper, StepHeader, StepLoad, StepScan, StepTail, StepNotOpened,
     StepDrainWait, StepDrainSeal, StepDrainInactive, StepFooter, StepLastWrite, StepLastSync,
     StepAllocate, StepHeaderSync, StepAttach, StepClosed, LoadFrame
<1>2. UNCHANGED <<slots, writes, flush, maintenance, control, queue_failed>>
  BY <1>1 DEF vars, TakeSegment, Attach, Restore, queueVars, ownerVars, failVars
<1> QED
  BY <1>2 DEF InFlight, Free, WritesPending

\* The steps that take or return the control request, or end the job.
LEMMA ControlEffect ==
    ASSUME JobInv, TakeInput \/ ActIo
    PROVE  /\ UNCHANGED <<state, opened, used, attached, active, sealed, contents>>
           /\ UNCHANGED <<slots, writes, flush, maintenance, queue_failed>>
           /\ InFlight' = InFlight /\ WritesPending' = WritesPending
           /\ job # None /\ job' # None /\ JobWf(job')
           /\ job'.kind = job.kind /\ job'.stage = job.stage /\ job'.target = job.target
           /\ \/ /\ phase = "take" /\ job.waiting /\ ~job'.waiting /\ control' = "none"
                 /\ phase' = "step" \/ (phase' = "act" /\ progress' = "err")
              \/ /\ phase = "act" /\ progress = "io" /\ ~queue_failed
                 /\ job'.waiting /\ phase' \in {"poll", "idle"}
              \/ /\ phase = "act" /\ progress = "io" /\ queue_failed
                 /\ job' = job /\ phase' = "act" /\ progress' = "err" /\ control' = control
<1>1. job # None /\ JobWf(job) /\ job \in Job
  BY DEF TakeInput, ActIo, JobInv, JobWf
<1>2. ASSUME NEW b \in BOOLEAN, job' = [job EXCEPT !.waiting = b]
      PROVE  /\ job' # None /\ JobWf(job') /\ job'.waiting = b
             /\ job'.kind = job.kind /\ job'.stage = job.stage /\ job'.target = job.target
  <2>1. /\ job' \in Job /\ job'.waiting = b /\ job'.kind = job.kind /\ job'.stage = job.stage
        /\ job'.target = job.target /\ job'.left = job.left
    BY <1>1, <1>2 DEF Job
  <2> QED
    BY <1>1, <2>1, EngineAssumption DEF JobWf
<1>3. CASE TakeInput
  <2>1. /\ UNCHANGED <<state, opened, used, attached, active, sealed, contents>>
        /\ UNCHANGED <<slots, writes, flush, maintenance, queue_failed>>
        /\ phase = "take" /\ job.waiting /\ control' = "none"
    BY <1>3 DEF TakeInput, TakeControl, queueVars, failVars, historyVars
  <2>2. job' = [job EXCEPT !.waiting = FALSE]
        /\ (phase' = "step" \/ (phase' = "act" /\ progress' = "err"))
    BY <1>3 DEF TakeInput, Act
  <2> QED
    BY <1>1, <1>2, <2>1, <2>2 DEF InFlight, Free, WritesPending
<1>4. CASE ActIo
  <2>1. /\ UNCHANGED <<state, opened, used, attached, active, sealed, contents>>
        /\ UNCHANGED <<slots, writes, flush, maintenance, queue_failed>>
        /\ phase = "act" /\ progress = "io"
    BY <1>4 DEF ActIo, ControlIo, vars, ownerVars, queueVars, failVars, historyVars
  <2>2. CASE queue_failed
    <3>1. job' = job /\ phase' = "act" /\ progress' = "err" /\ control' = control
      BY <1>4, <2>2 DEF ActIo, Act, vars, ownerVars
    <3> QED
      BY <1>1, <2>1, <2>2, <3>1 DEF InFlight, Free, WritesPending
  <2>3. CASE ~queue_failed
    <3>1. job' = [job EXCEPT !.waiting = TRUE] /\ phase' \in {"poll", "idle"}
      BY <1>4, <2>3 DEF ActIo, DriveReturn
    <3> QED
      BY <1>1, <1>2, <2>1, <2>3, <3>1 DEF InFlight, Free, WritesPending
  <2> QED
    BY <2>2, <2>3
<1> QED
  BY <1>3, <1>4

\* The end of a job leaves the pipeline alone, and the engine in the state its result calls for.
LEMMA FinishEffect ==
    ASSUME JobInv, FinishJob
    PROVE  /\ UNCHANGED <<used, attached, active, sealed, contents>>
           /\ UNCHANGED <<slots, writes, flush, control, queue_failed>>
           /\ InFlight' = InFlight /\ WritesPending' = WritesPending
           /\ phase = "act" /\ job # None /\ job' = None /\ maintenance' = FALSE
           /\ phase' \in {"poll", "idle"} /\ (opened => opened')
           /\ state' = (IF job.kind = "Close" THEN "Closed"
                        ELSE IF progress = "err" THEN "Failed" ELSE "Ready")
<1>1. /\ UNCHANGED <<used, attached, active, sealed, contents>>
      /\ UNCHANGED <<slots, writes, flush, control, queue_failed>>
      /\ phase = "act" /\ job' = None /\ maintenance' = FALSE
  BY DEF FinishJob, EndMaintenance, queueVars, failVars
<1>2. phase' \in {"poll", "idle"} /\ (opened => opened') /\ state' = FinalState
  BY DEF FinishJob, DriveReturn
<1> QED
  BY <1>1, <1>2 DEF InFlight, Free, WritesPending, FinalState, JobInv

\* The cases of a step, as the lemmas below take them.
LEMMA EngineCases ==
    ASSUME [EngineNext]_allVars
    PROVE  \/ \E s \in Slots : \/ \E k \in Keys : EngineRead(k, s)
                               \/ \E frame \in Frames : EngineWrite(frame, s)
                               \/ EngineFlush(s)
           \/ \/ Open \/ Seal \/ Close \/ WriteStartsRollover \/ Rollover
              \/ \E number \in 0..SegmentCount : RolloverTo(number)
           \/ Passing
           \/ TakeInput \/ ActIo
           \/ StepJob
           \/ FinishJob
BY DEF EngineNext, EngineApi, EnginePoll, DriveJob, StepJob, Passing

\* A job is present exactly during maintenance and owns the control request (drive_job).
LEMMA NextJob ==
    ASSUME Inv, QueueInv, JobInv, [EngineNext]_allVars
    PROVE  JobInv'
<1>1. ASSUME NEW s \in Slots, \/ \E k \in Keys : EngineRead(k, s)
                              \/ \E frame \in Frames : EngineWrite(frame, s)
                              \/ EngineFlush(s)
      PROVE  JobInv'
  <2>1. UNCHANGED <<job, phase, progress, state, opened, maintenance, control, queue_failed>>
    BY <1>1, DataEffect
  <2> QED
    BY <2>1 DEF JobInv
<1>2. CASE \/ Open \/ Seal \/ Close \/ WriteStartsRollover \/ Rollover
           \/ \E number \in 0..SegmentCount : RolloverTo(number)
  <2>1. /\ job = None /\ phase = "idle" /\ state' # "New"
        /\ UNCHANGED <<phase, progress, opened, control, queue_failed>>
        /\ \/ job' = None /\ maintenance' = maintenance
           \/ maintenance' = TRUE /\ \E kind \in Kinds : Started(kind)
    BY <1>2, CallEffect
  <2>2. CASE job' = None /\ maintenance' = maintenance
    BY <2>1, <2>2 DEF JobInv
  <2>3. CASE maintenance' = TRUE /\ \E kind \in Kinds : Started(kind)
    <3>1. job' # None /\ JobWf(job') /\ ~job'.waiting
      BY <2>3 DEF Started
    <3> QED
      BY <2>1, <2>3, <3>1 DEF JobInv
  <2> QED
    BY <2>1, <2>2, <2>3
<1>3. CASE Passing
  <2>1. /\ UNCHANGED <<job, opened>> /\ maintenance' = maintenance
        /\ queue_failed => queue_failed'
        /\ control' # "none" => control # "none"
    BY <1>3, PassEffect
  <2>2. /\ state' = state \/ (state' = "Failed" /\ queue_failed' /\ state # "Closed")
        /\ state = "New" => UNCHANGED <<state, phase>>
    BY <1>3, PassEffect
  <2>3. phase' = "step" => phase' = phase \/ (job # None /\ ~job.waiting)
    BY <1>3, PassEffect
  <2>4. phase' = "act" => \/ phase' = phase /\ progress' = progress
                          \/ job # None /\ progress' = "err" /\ queue_failed'
    BY <1>3, PassEffect
  <2>5. /\ job' # None => JobWf(job')
        /\ maintenance' <=> job' # None
        /\ control' # "none" /\ ~queue_failed' => job' # None /\ job'.waiting
        /\ job' # None /\ job'.waiting => job'.stage # "Drain"
        /\ state' = "New" => job' = None /\ phase' = "idle" /\ ~opened'
    BY <2>1, <2>2 DEF JobInv
  <2>6. /\ phase' \in {"step", "act"} => job' # None
        /\ phase' = "step" => ~job'.waiting
    BY <2>1, <2>3, <2>4 DEF JobInv
  <2>7. /\ phase' = "act" => progress' \in {"io", "done", "err"}
        /\ phase' = "act" /\ job'.waiting => queue_failed'
        /\ phase' = "act" /\ progress' = "io" => job'.stage # "Drain"
    BY <2>1, <2>4 DEF JobInv
  <2> QED
    BY <2>5, <2>6, <2>7 DEF JobInv
<1>4. CASE TakeInput \/ ActIo
  <2>1. /\ UNCHANGED <<state, opened, maintenance, queue_failed>>
        /\ job # None /\ job' # None /\ JobWf(job') /\ job'.stage = job.stage
        /\ \/ /\ phase = "take" /\ job.waiting /\ ~job'.waiting /\ control' = "none"
              /\ phase' = "step" \/ (phase' = "act" /\ progress' = "err")
           \/ /\ phase = "act" /\ progress = "io" /\ ~queue_failed
              /\ job'.waiting /\ phase' \in {"poll", "idle"}
           \/ /\ phase = "act" /\ progress = "io" /\ queue_failed
              /\ job' = job /\ phase' = "act" /\ progress' = "err" /\ control' = control
    BY <1>4, ControlEffect
  <2> QED
    BY <2>1 DEF JobInv
<1>5. CASE StepJob
  <2>1. /\ phase = "step" /\ job # None /\ JobWf(job)
        /\ UNCHANGED <<state, opened>>
    BY <1>5, StepEffect
  <2>2. PICK stage \in JobStages, p \in Progress : Moved(stage, p) /\ Goes(stage, p)
    BY <1>5, StepEffect
  <2>3. UNCHANGED <<maintenance, control, queue_failed>>
    BY <1>5, StepLeaves
  <2>4. /\ job' # None /\ JobWf(job') /\ ~job'.waiting
        /\ phase' \in {"act", "poll", "idle"}
        /\ phase' = "act" => progress' \in {"io", "done", "err"}
        /\ phase' = "act" /\ progress' = "io" => job'.stage # "Drain"
    BY <2>1, <2>2 DEF Moved, Goes, JobInv
  <2> QED
    BY <2>1, <2>3, <2>4 DEF JobInv
<1>6. CASE FinishJob
  <2>1. /\ job # None /\ job' = None /\ maintenance' = FALSE /\ phase = "act"
        /\ phase' \in {"poll", "idle"} /\ UNCHANGED <<control, queue_failed>>
        /\ state' \in {"Closed", "Failed", "Ready"}
    BY <1>6, FinishEffect
  <2> QED
    BY <2>1 DEF JobInv
<1> QED
  BY <1>1, <1>2, <1>3, <1>4, <1>5, <1>6, EngineCases

\* A stage past the drain is reached only once nothing it must wait for is pending (drain).
LEMMA NextDrain ==
    ASSUME Inv, QueueInv, JobInv, DrainInv, [EngineNext]_allVars
    PROVE  DrainInv'
<1>1. ASSUME NEW s \in Slots, \/ \E k \in Keys : EngineRead(k, s)
                              \/ \E frame \in Frames : EngineWrite(frame, s)
                              \/ EngineFlush(s)
      PROVE  DrainInv'
  <2>1. /\ opened /\ state \notin {"Closing", "Closed"} /\ ~queue_failed
        /\ UNCHANGED <<job, state, opened>>
        /\ job = None \/ UNCHANGED <<writes, flush>>
    BY <1>1, DataEffect
  <2>2. job = None \/ WritesPending' = WritesPending
    BY <2>1 DEF WritesPending
  <2> QED
    BY <2>1, <2>2, SMT DEF DrainInv
<1>2. CASE \/ Open \/ Seal \/ Close \/ WriteStartsRollover \/ Rollover
           \/ \E number \in 0..SegmentCount : RolloverTo(number)
  <2>1. /\ job = None /\ phase' = "idle" /\ opened' = opened /\ state' # "Closed"
        /\ UNCHANGED <<slots, writes, flush>>
        /\ \/ job' = None
           \/ /\ \E kind \in Kinds : Started(kind)
              /\ job'.kind = "Open" => ~opened
              /\ job'.kind = "Close" => state' = "Closing"
    BY <1>2, CallEffect
  <2>2. InFlight' = InFlight /\ WritesPending' = WritesPending
    BY <2>1 DEF InFlight, Free, WritesPending
  <2>3. job' # None /\ job'.kind # "Open" => job'.stage = "Drain"
    BY <2>1 DEF Started
  <2> QED
    BY <2>1, <2>2, <2>3 DEF DrainInv
<1>3. CASE Passing
  <2>1. /\ UNCHANGED <<job, opened>> /\ (queue_failed => queue_failed')
        /\ InFlight' \subseteq InFlight /\ (WritesPending' => WritesPending)
    BY <1>3, PassEffect
  <2>2. state' = state \/ (state' = "Failed" /\ queue_failed' /\ state # "Closed")
    BY <1>3, PassEffect
  <2>3. phase' = "act" => \/ phase' = phase
                          \/ job # None /\ (job.kind # "Close" \/ job.waiting)
    BY <1>3, PassEffect
  <2>4. /\ ~opened' => ~WritesPending' /\ InFlight' = {}
        /\ job' # None /\ job'.kind = "Open" => ~opened'
        /\ job' # None /\ job'.stage # "Drain" => ~WritesPending'
        /\ job' # None /\ job'.kind = "Close" => state' = "Closing" \/ queue_failed'
        /\ state' = "Closed" => InFlight' = {} /\ job' = None
    BY <2>1, <2>2 DEF DrainInv
  <2>5. ASSUME job # None, job.kind = "Close", job.stage # "Drain" \/ phase' = "act"
        PROVE  InFlight' = {}
    BY <2>1, <2>3, <2>5 DEF DrainInv, JobInv
  <2> QED
    BY <2>1, <2>4, <2>5 DEF DrainInv
<1>4. CASE TakeInput \/ ActIo
  <2>1. /\ UNCHANGED <<state, opened, queue_failed>>
        /\ InFlight' = InFlight /\ WritesPending' = WritesPending
        /\ job # None /\ job'.kind = job.kind /\ job'.stage = job.stage
        /\ phase = "act" \/ job.waiting
    BY <1>4, ControlEffect
  <2> QED
    BY <2>1 DEF DrainInv, JobInv
<1>5. CASE StepJob
  <2>1. /\ phase = "step" /\ job # None
        /\ UNCHANGED <<state, opened>>
    BY <1>5, StepEffect
  <2>2. PICK stage \in JobStages, p \in Progress : Moved(stage, p) /\ Goes(stage, p)
    BY <1>5, StepEffect
  <2>3. queue_failed' = queue_failed /\ InFlight' = InFlight /\ WritesPending' = WritesPending
    BY <1>5, StepLeaves
  <2>4. ASSUME job'.stage # "Drain" \/ phase' = "act"
        PROVE  job.stage # "Drain" \/ ~opened \/ ~DrainBlocked
    BY <2>2, <2>4 DEF Moved, Goes
  <2>5. job'.stage # "Drain" => ~WritesPending
    BY <2>1, <2>4 DEF DrainInv, DrainBlocked
  <2>6. job.kind = "Close" /\ (job'.stage # "Drain" \/ phase' = "act") => InFlight = {}
    BY <2>1, <2>4 DEF DrainInv, DrainBlocked
  <2>7. job'.kind = job.kind
    BY <2>2 DEF Moved
  <2> QED
    BY <2>1, <2>3, <2>5, <2>6, <2>7 DEF DrainInv
<1>6. CASE FinishJob
  <2>1. /\ job # None /\ job' = None /\ phase = "act" /\ (opened => opened')
        /\ InFlight' = InFlight /\ WritesPending' = WritesPending
        /\ state' = (IF job.kind = "Close" THEN "Closed"
                     ELSE IF progress = "err" THEN "Failed" ELSE "Ready")
    BY <1>6, FinishEffect
  <2> QED
    BY <2>1 DEF DrainInv
<1> QED
  BY <1>1, <1>2, <1>3, <1>4, <1>5, <1>6, EngineCases

\* What the steps of a job do to the slots: recovery and the allocation mark one as used, the
\* drain seals the active one, the attachment makes a new one active.
LEMMA StepSlots ==
    ASSUME JobInv, StepJob
    PROVE  /\ contents' = contents
           /\ \/ UNCHANGED <<used, attached>> /\ (StepAllocate => job.target = None)
                 /\ \/ UNCHANGED <<active, sealed>>
                    \/ TakeSegment /\ active # None /\ active' = None /\ sealed' = sealed \cup {active}
              \/ /\ job.stage = "Tail" /\ used' = used \cup {job.target}
                 /\ attached' = attached \cup {job.target} /\ UNCHANGED <<active, sealed>>
              \/ /\ job.stage = "Allocate" /\ job'.stage = "HeaderSync"
                 /\ used' = used \cup {job.target} /\ UNCHANGED <<attached, active, sealed>>
              \/ /\ job.stage = "Attach" /\ phase' = "act" /\ progress' = "done"
                 /\ active' = job.target /\ attached' = attached \cup {job.target}
                 /\ UNCHANGED <<used, sealed>>
<1>1. phase = "step" /\ job # None /\ JobWf(job)
  BY StepEffect
<1>2. job \in Job
  BY <1>1 DEF JobWf
<1>3. CASE \/ StepStart \/ (\E ok \in BOOLEAN : StepSuper(ok)) \/ StepHeader \/ StepLoad \/ StepScan
           \/ StepNotOpened \/ StepDrainWait \/ StepDrainInactive \/ StepFooter \/ StepLastWrite
           \/ StepLastSync \/ StepHeaderSync \/ StepClosed
  <2>1. UNCHANGED <<used, attached, active, sealed, contents>>
    BY <1>3
       DEF StepStart, StepSuper, StepHeader, StepLoad, StepScan, StepNotOpened, StepDrainWait,
       StepDrainInactive, StepFooter, StepLastWrite, StepLastSync, StepHeaderSync, StepClosed,
       historyVars
  <2>2. CASE job.stage = "Allocate"
    <3>1. CASE StepNotOpened
      <4>1. job'.stage = job.stage
        BY <1>2, <3>1 DEF StepNotOpened, To, Job
      <4>2. StepAllocate => job.target = None
        BY <1>2, <2>2, <4>1 DEF StepAllocate, To, Job
      <4> QED
        BY <2>1, <4>2
    <3> QED
      BY <1>3, <2>2, <3>1 DEF StepStart, StepSuper, StepHeader, StepLoad, StepScan, StepDrainWait,
         StepDrainInactive, StepFooter, StepLastWrite, StepLastSync, StepHeaderSync, StepClosed, Step
  <2>3. CASE job.stage # "Allocate"
    BY <2>1, <2>3 DEF StepAllocate, Step
  <2> QED
    BY <2>2, <2>3
<1>4. ASSUME NEW found \in {"unused", "allocated", "corrupt"}, NEW frames \in 0..SegmentFrames,
             StepTail(found, frames)
      PROVE  /\ job.stage = "Tail" /\ UNCHANGED <<active, sealed, contents>>
             /\ \/ UNCHANGED <<used, attached>>
                \/ used' = used \cup {job.target} /\ attached' = attached \cup {job.target}
  BY <1>4 DEF StepTail, Step, MarkUsed
<1>5. ASSUME NEW chunks \in 0..FooterChunks, StepDrainSeal(chunks)
      PROVE  /\ job.stage = "Drain" /\ UNCHANGED <<used, attached, contents>>
             /\ \/ UNCHANGED <<active, sealed>>
                \/ TakeSegment /\ active # None /\ active' = None /\ sealed' = sealed \cup {active}
  BY <1>5 DEF StepDrainSeal, Step
<1>6. CASE StepAllocate
  <2>1. job.stage = "Allocate" /\ UNCHANGED <<attached, active, sealed, contents>>
    BY <1>6 DEF StepAllocate, Step, historyVars
  <2>2. CASE job.target = None
    BY <1>6, <2>1, <2>2 DEF StepAllocate
  <2>3. CASE job.target # None
    <3>1. used' = used \cup {job.target} /\ To([job EXCEPT !.stage = "HeaderSync"], "io")
      BY <1>6, <2>3 DEF StepAllocate, MarkUsed
    <3>2. job'.stage = "HeaderSync"
      BY <1>2, <3>1 DEF To, Job
    <3> QED
      BY <2>1, <3>1, <3>2
  <2> QED
    BY <2>2, <2>3
<1>7. CASE StepAttach
  <2>1. job.stage = "Attach" /\ UNCHANGED <<used, sealed, contents>>
    BY <1>7 DEF StepAttach, Step
  <2>2. CASE UNCHANGED <<active, attached>>
    BY <2>1, <2>2 DEF StepAllocate, Step
  <2>3. CASE To(job, "done") /\ active' = job.target /\ attached' = attached \cup {job.target}
    BY <2>1, <2>3 DEF To, Act
  <2> QED
    BY <1>7, <2>2, <2>3 DEF StepAttach
<1>8. job.stage # "Allocate" => ~StepAllocate
  BY DEF StepAllocate, Step
<1> QED
  BY <1>3, <1>4, <1>5, <1>6, <1>7, <1>8 DEF StepJob

\* A rollover's slot is unused until its allocation and unattached until its end (start_rollover).
LEMMA NextSlot ==
    ASSUME Inv, QueueInv, JobInv, SlotInv, [EngineNext]_allVars
    PROVE  SlotInv'
<1>1. ASSUME NEW s \in Slots, \/ \E k \in Keys : EngineRead(k, s)
                              \/ \E frame \in Frames : EngineWrite(frame, s)
                              \/ EngineFlush(s)
      PROVE  SlotInv'
  <2>1. UNCHANGED <<job, phase, progress, used, attached>>
    BY <1>1, DataEffect
  <2> QED
    BY <2>1 DEF SlotInv
<1>2. CASE \/ Open \/ Seal \/ Close \/ WriteStartsRollover \/ Rollover
           \/ \E number \in 0..SegmentCount : RolloverTo(number)
  <2>1. /\ UNCHANGED <<used, attached>>
        /\ \/ job' = None
           \/ /\ \E kind \in Kinds : Started(kind)
              /\ job'.kind = "Rollover" => job'.target \notin used
    BY <1>2, CallEffect
  <2>2. job' # None => job'.stage \notin Allocated
    BY <2>1 DEF Started, Allocated
  <2> QED
    BY <2>1, <2>2 DEF SlotInv
<1>3. CASE Passing
  <2>1. /\ UNCHANGED <<job, used, attached>>
        /\ UNCHANGED <<phase, progress>> \/ phase # "act"
    BY <1>3, PassEffect
  <2> QED
    BY <2>1 DEF SlotInv
<1>4. CASE TakeInput \/ ActIo
  <2>1. /\ UNCHANGED <<used, attached>> /\ job # None /\ (phase = "act" => progress = "io")
        /\ job'.kind = job.kind /\ job'.stage = job.stage /\ job'.target = job.target
    BY <1>4, ControlEffect
  <2> QED
    BY <2>1 DEF SlotInv
<1>5. CASE StepJob
  <2>1. phase = "step" /\ job # None /\ JobWf(job)
    BY <1>5, StepEffect
  <2>2. PICK stage \in JobStages, p \in Progress : Moved(stage, p) /\ Goes(stage, p)
    BY <1>5, StepEffect
  <2>3. /\ job' # None /\ JobWf(job') /\ job'.kind = job.kind /\ job'.stage = stage
        /\ job.kind # "Open" => job'.target = job.target
    BY <2>2 DEF Moved
  <2>4. job.stage \in JobStages /\ job.kind \in Kinds /\ None \notin Segments
    BY <2>1, PipelineAssumption, EngineAssumption, SMT DEF JobWf, Job, Segments
  <2>5. job'.kind = "Rollover" /\ job'.stage \in Unallocated => job.stage \in Unallocated
    BY <2>1, <2>2, <2>3, <2>4 DEF Goes, JobWf, JobStages, Unallocated, OpenStages, Allocated
  <2>6. job'.stage \in Allocated =>
            /\ job.kind = "Rollover" /\ job.target \in Segments
            /\ job.stage \in Allocated \/ StepAllocate
    BY <2>1, <2>2, <2>3 DEF Goes, JobWf
  <2>7. job.stage \in Allocated => job.target \in used /\ job.target \notin attached
    BY <2>1 DEF SlotInv
  <2>8. CASE UNCHANGED <<used, attached>> /\ (StepAllocate => job.target = None)
    BY <2>1, <2>3, <2>4, <2>5, <2>6, <2>7, <2>8 DEF SlotInv
  <2>9. CASE job.stage = "Tail" /\ used' = used \cup {job.target} /\ attached' = attached \cup {job.target}
    <3>1. job.kind = "Open" /\ job.target \in Segments
      BY <2>1, <2>9 DEF JobWf, OpenStages
    <3> QED
      BY <2>3, <2>6, <2>9, <3>1 DEF SlotInv
  <2>10. CASE /\ job.stage = "Allocate" /\ job'.stage = "HeaderSync"
              /\ used' = used \cup {job.target} /\ UNCHANGED attached
    <3>1. job.kind = "Rollover" /\ job.target \in Segments /\ job'.target = job.target
      BY <2>3, <2>6, <2>10 DEF Allocated
    <3>2. job.target \notin used
      BY <2>1, <2>10, <3>1 DEF SlotInv, Unallocated
    <3> QED
      BY <2>10, <3>1, <3>2 DEF SlotInv, Unallocated
  <2>11. CASE /\ job.stage = "Attach" /\ phase' = "act" /\ progress' = "done"
              /\ attached' = attached \cup {job.target} /\ UNCHANGED used
    <3>1. job.target \in used /\ job'.stage \in Allocated
      BY <2>2, <2>3, <2>7, <2>11 DEF Goes, Allocated
    <3>2. job.kind = "Rollover" /\ job'.target = job.target
      BY <2>3, <2>6, <3>1
    <3> QED
      BY <2>11, <3>1, <3>2 DEF SlotInv, Allocated, Unallocated
  <2> QED
    BY <1>5, <2>8, <2>9, <2>10, <2>11, StepSlots
<1>6. CASE FinishJob
  <2>1. job' = None /\ UNCHANGED <<used, attached>>
    BY <1>6, FinishEffect
  <2> QED
    BY <2>1 DEF SlotInv
<1> QED
  BY <1>1, <1>2, <1>3, <1>4, <1>5, <1>6, EngineCases

\* The frames of a sealed segment are published, and nothing is added to it (drain, take_segment).
LEMMA NextSeal ==
    ASSUME Inv, QueueInv, JobInv, DrainInv, SlotInv, SealInv, [EngineNext]_allVars
    PROVE  SealInv'
<1>1. WriteTickets \subseteq WriteTickets' /\ Published \subseteq Published'
  BY EngineStep, PublishedGrow
<1>2. None \notin Segments /\ Segments \subseteq Nat
  BY PipelineAssumption, EngineAssumption, SMT DEF Segments
<1>3. attached \subseteq Segments
  BY DEF SlotInv
<1>4. ASSUME UNCHANGED <<attached, active, sealed, contents>> PROVE SealInv'
  BY <1>1, <1>4 DEF SealInv
<1>5. ASSUME NEW s \in Slots, \/ \E k \in Keys : EngineRead(k, s)
                              \/ \E frame \in Frames : EngineWrite(frame, s)
                              \/ EngineFlush(s)
      PROVE  SealInv'
  <2>1. UNCHANGED <<attached, active, sealed>>
    BY <1>5, DataEffect
  <2>2. CASE ~\E frame \in Frames : EngineWrite(frame, s)
    <3>1. contents' = contents
      BY <1>5, <2>2 DEF EngineRead, EngineFlush, engineVars, historyVars
    <3> QED
      BY <1>4, <2>1, <3>1
  <2>3. ASSUME NEW frame \in Frames, EngineWrite(frame, s) PROVE SealInv'
    <3>1. /\ active # None /\ contents' = [contents EXCEPT ![active] = @ \cup {next_ticket}]
          /\ outcome' = Append(outcome, [op |-> "write", entries |-> frame, result |-> "pending"])
      BY <2>3 DEF EngineWrite, Write, TakeSlot
    <3>2. outcome \in Seq(Issued) /\ next_ticket = Len(outcome) + 1
      BY DEF Inv, TypeOK, TicketType, TicketAccounting
    <3>3. DOMAIN outcome' = 1..Len(outcome) + 1 /\ outcome'[Len(outcome) + 1].op = "write"
      <4>1. [op |-> "write", entries |-> frame, result |-> "pending"] \in Issued
        BY PipelineAssumption DEF Issued, Results, Ops
      <4> QED
        BY <3>1, <3>2, <4>1, SMT
    <3>4. next_ticket \in WriteTickets'
      <4>1. Len(outcome) \in Nat
        BY <3>2, SMT
      <4>2. next_ticket \in DOMAIN outcome'
        BY <3>2, <3>3, <4>1, SMT
      <4> QED
        BY <3>2, <3>3, <4>2 DEF WriteTickets
    <3>5. active \in attached /\ active \notin sealed /\ active \in Segments
      BY <1>3, <3>1 DEF SealInv
    <3>6. DOMAIN contents' = Segments
      BY <3>1 DEF SealInv
    <3>7. \A n \in Segments : contents'[n] \subseteq contents[n] \cup {next_ticket}
      BY <3>1 DEF SealInv
    <3>8. \A n \in Segments : n # active => contents'[n] = contents[n]
      BY <3>1 DEF SealInv
    <3>9. \A n \in Segments : contents'[n] \subseteq WriteTickets'
      BY <1>1, <3>4, <3>7 DEF SealInv
    <3>10. \A n \in sealed : contents'[n] \subseteq Published'
      BY <1>1, <1>3, <3>5, <3>8 DEF SealInv
    <3> QED
      BY <2>1, <3>6, <3>9, <3>10 DEF SealInv
  <2> QED
    BY <2>2, <2>3
<1>6. CASE \/ Open \/ Seal \/ Close \/ WriteStartsRollover \/ Rollover
           \/ \E number \in 0..SegmentCount : RolloverTo(number)
  BY <1>4, <1>6, CallEffect
<1>7. CASE Passing
  BY <1>4, <1>7, PassEffect
<1>8. CASE TakeInput \/ ActIo
  BY <1>4, <1>8, ControlEffect
<1>9. CASE StepJob
  <2>1. phase = "step" /\ job # None /\ JobWf(job)
    BY <1>9, StepEffect
  <2>2. contents' = contents
    BY <1>9, StepSlots
  <2>3. CASE UNCHANGED <<active, sealed>> /\ attached \subseteq attached'
    BY <1>1, <2>2, <2>3 DEF SealInv
  <2>4. CASE /\ TakeSegment /\ active # None /\ active' = None /\ sealed' = sealed \cup {active}
             /\ attached' = attached
    <3>1. WriteTickets \subseteq Published
      BY <2>4, AllPublished DEF TakeSegment, WritesPending
    <3>2. active \in attached /\ active \in Segments
      BY <1>3, <2>4 DEF SealInv
    <3>3. contents[active] \subseteq Published
      BY <3>1, <3>2 DEF SealInv
    <3> QED
      BY <1>1, <2>2, <2>4, <3>2, <3>3 DEF SealInv
  <2>5. CASE /\ job.stage = "Attach" /\ active' = job.target
             /\ attached' = attached \cup {job.target} /\ sealed' = sealed
    <3>1. job.target \notin attached
      BY <2>1, <2>5 DEF SlotInv, Allocated
    <3> QED
      BY <1>1, <2>2, <2>5, <3>1 DEF SealInv
  <2> QED
    BY <1>9, <2>3, <2>4, <2>5, StepSlots
<1>10. CASE FinishJob
  BY <1>4, <1>10, FinishEffect
<1> QED
  BY <1>5, <1>6, <1>7, <1>8, <1>9, <1>10, EngineCases

(***************************************************************************)
(* Theorems                                                                *)
(***************************************************************************)
\* The engine starts with no job, nothing accepted and no slot in use (Engine::new).
LEMMA InitEngine == EngineInit => EngineInv
<1> SUFFICES ASSUME EngineInit PROVE EngineInv
  OBVIOUS
<1>1. JobInv
  BY DEF EngineInit, Init, JobInv
<1>2. DrainInv
  BY DEF EngineInit, Init, DrainInv, WritesPending, InFlight, Free
<1>3. SlotInv
  BY DEF EngineInit, SlotInv
<1>4. SealInv
  BY DEF EngineInit, SealInv
<1> QED
  BY <1>1, <1>2, <1>3, <1>4 DEF EngineInv

\* The invariants of the pipeline and of the engine hold together in every state of the engine.
LEMMA EngineKeeps == EngineSpec => [](Inv /\ QueueInv /\ EngineInv)
<1>1. EngineInit => Inv /\ QueueInv /\ EngineInv
  BY InitInv, InitQueue, InitEngine DEF EngineInit
<1>2. Inv /\ QueueInv /\ EngineInv /\ [EngineNext]_allVars => (Inv /\ QueueInv /\ EngineInv)'
  <2> SUFFICES ASSUME Inv, QueueInv, EngineInv, [EngineNext]_allVars
               PROVE  Inv' /\ QueueInv' /\ EngineInv'
    OBVIOUS
  <2>1. JobInv /\ DrainInv /\ SlotInv /\ SealInv
    BY DEF EngineInv
  <2>2. [Next]_vars
    BY <2>1, EngineStep
  <2>3. Inv' /\ QueueInv'
    BY <2>2, NextInv, NextQueue
  <2>4. JobInv' /\ DrainInv' /\ SlotInv' /\ SealInv'
    BY <2>1, NextJob, NextDrain, NextSlot, NextSeal
  <2> QED
    BY <2>3, <2>4 DEF EngineInv
<1> QED
  BY <1>1, <1>2, PTL DEF EngineSpec

\* Engine implements Pipeline: the lifecycle jobs, at every stage and on every error path, call
\* the pipeline only as its contract allows (drive_job, Engine::poll and the API calls).
THEOREM EngineImplementsPipeline == EngineSpec => ImplementsPipeline
<1>1. EngineInit => Init
  BY DEF EngineInit
<1>2. Inv /\ QueueInv /\ EngineInv /\ [EngineNext]_allVars => [Next]_vars
  BY EngineStep DEF EngineInv
<1> QED
  BY <1>1, <1>2, EngineKeeps, PTL DEF EngineSpec, Spec, ImplementsPipeline

\* A rollover never makes writable a segment that an earlier rollover or recovery attached,
\* for every number of segments and any interleaving of jobs, failures and completions.
THEOREM AttachIsFresh == EngineSpec => FreshAttach
<1>1. Inv /\ QueueInv /\ EngineInv /\ [EngineNext]_allVars
        => [active' # active /\ active' # None => active' \notin attached]_allVars
  <2> SUFFICES ASSUME Inv, QueueInv, JobInv, DrainInv, SlotInv, [EngineNext]_allVars,
                      active' # active, active' # None
               PROVE  active' \notin attached
    BY DEF EngineInv
  <2>1. StepJob
    BY EngineCases, DataEffect, CallEffect, PassEffect, ControlEffect, FinishEffect
  <2>2. phase = "step" /\ job # None
    BY <2>1, StepEffect
  <2>3. job.stage = "Attach" /\ active' = job.target
    BY <2>1, StepSlots
  <2> QED
    BY <2>2, <2>3 DEF SlotInv, Allocated
<1> QED
  BY <1>1, EngineKeeps, PTL DEF EngineSpec, FreshAttach

\* A sealed segment holds published frames only (drain, take_segment).
THEOREM SealsArePublished == EngineSpec => []SealedArePublished
<1>1. EngineInv => SealedArePublished
  BY DEF EngineInv, SealInv, SealedArePublished
<1> QED
  BY <1>1, EngineKeeps, PTL

\* A closed engine has nothing in flight, also when the queue failed while it was closing
\* (the drain of close).
THEOREM CloseDrains == EngineSpec => []ClosedIsDrained
<1>1. EngineInv => ClosedIsDrained
  BY DEF EngineInv, DrainInv, ClosedIsDrained
<1> QED
  BY <1>1, EngineKeeps, PTL

\* The queue stays sound under every lifecycle job (the engine's own control requests).
THEOREM EngineQueueSound == EngineSpec => []QueueSound
BY EngineImplementsPipeline, QueueIsSound, PTL DEF ImplementsPipeline

\* The places reserved for lifecycle I/O are kept under every mix of reads and jobs.
THEOREM EngineControlNotStarved == EngineSpec => ControlNotStarved
BY EngineImplementsPipeline, ControlGetsItsPlace, PTL DEF ImplementsPipeline
=============================================================================
