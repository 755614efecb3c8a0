------------------------------ MODULE ReadWave ------------------------------
(***************************************************************************)
(* One parallel wave of the tool scheduler: _run_read_wave in              *)
(* sliceagent_core/scheduler.py.  The scheduler thread and one daemon      *)
(* worker per job share a condition; the scheduler owns it except while it *)
(* waits.  A wave is cut as a whole by its deadline, by the turn's         *)
(* cancellation, by a queued steer or by an interrupt; a child is reaped   *)
(* alone by its inactivity window or by the absolute guard.                *)
(*                                                                         *)
(* Clocks are one bit each: a timer that has run out.  A handler may run   *)
(* for ever and the start journal may block for ever.                      *)
(***************************************************************************)
EXTENDS Naturals, FiniteSets

CONSTANTS
  Waves,       \* the waves of interest: [kind, timeout, journal, size, limit]
  Capacity,    \* permits of the global semaphore (_MAX_..._READERS)
  ForeignMax,  \* bound: permits other turns' waves may hold at once
  Burst        \* _LIFECYCLE_INITIAL_BURST

\* "reads": timeout-safe pure reads.  "children": read-only lifecycle tasks.
\* "writer": one writable lifecycle task, alone in its wave.
Kinds == {"reads", "children", "writer"}

ASSUME WavesAssumption ==
  /\ Waves \subseteq [kind : Kinds, timeout : BOOLEAN, journal : BOOLEAN,
                      size : Nat \ {0}, limit : Nat \ {0}]
  /\ \A w \in Waves : w.kind = "writer" => w.size = 1
ASSUME BoundsAssumption ==
  /\ Capacity \in Nat \ {0}
  /\ ForeignMax \in 0..Capacity
  /\ Burst \in Nat \ {0}

VARIABLES
  wave,       \* the wave being run; never changes
  job,        \* one _DaemonReadJob and its worker thread per task
  next,       \* next_index: the first task never launched
  sched,      \* where the scheduler thread is
  cutoff,     \* cutoff_kind; "none" until establish_cutoff
  cancelled,  \* should_cancel()
  expired,    \* the wave's deadline has passed
  guard,      \* the absolute delegation guard has passed
  graceOver,  \* the closing grace has passed
  slotWait,   \* slot_wait_started: "no", "waiting", or "over"
  ramped,     \* the launch stagger has passed
  free,       \* permits left in the semaphore
  foreign     \* permits other waves hold

clocks == <<expired, guard, graceOver, slotWait, ramped>>
permits == <<free, foreign>>
vars == <<wave, job, next, sched, cutoff, cancelled, clocks, permits>>

Jobs == 1..wave.size
Lifecycle == wave.kind # "reads"
HasDeadline == ~Lifecycle /\ wave.timeout
PerJobLiveness == Lifecycle /\ wave.timeout
PerJobCutoffs == Lifecycle

\* "committed" is a success that carries the child_artifact effect: the
\* report is sealed and referenced by the parent.
Returns == {"succeeded", "failed", "indeterminate", "committed"}
\* "notrun" is _cancelled ("Not run: ..."), "withdrawn" the CANCELLED of
\* _closed_lifecycle_cancel ("Not run to completion: ...").
Results == Returns \cup {"notrun", "withdrawn"}

\* "finish" is the worker's finally clause.
Steps == {"queued", "begin", "announce", "publishing", "crossing", "broken",
          "handler", "settle", "finish", "gone"}
Open == {"poll", "admit", "return", "grace"}

Fresh == [pc |-> "queued", abandoned |-> FALSE, entered |-> FALSE,
          done |-> FALSE, error |-> FALSE, tardy |-> FALSE, ret |-> "none",
          outcome |-> "none", released |-> FALSE, late |-> FALSE,
          unstarted |-> FALSE, reaped |-> FALSE, over |-> FALSE,
          published |-> FALSE, res |-> "none"]

JobType == [pc : Steps, abandoned : BOOLEAN, entered : BOOLEAN,
            done : BOOLEAN, error : BOOLEAN, tardy : BOOLEAN,
            ret : Returns \cup {"none"}, outcome : Results \cup {"none"},
            released : BOOLEAN, late : BOOLEAN, unstarted : BOOLEAN,
            reaped : BOOLEAN, over : BOOLEAN,
            published : BOOLEAN, res : Results \cup {"none"}]

Init ==
  /\ wave \in Waves
  /\ job = [j \in Jobs |-> Fresh]
  /\ next = 1
  /\ sched = "poll"
  /\ cutoff = "none"
  /\ cancelled = FALSE
  /\ expired = FALSE /\ guard = FALSE /\ graceOver = FALSE
  /\ slotWait = "no" /\ ramped = FALSE
  /\ free = Capacity /\ foreign = 0

-----------------------------------------------------------------------------
(* What the scheduler reads of a job.                                      *)

\* job.launched
Launched(r) == r.pc # "queued"
\* job.announcing: the start publication is reserved or under way
Announcing(r) == r.pc \in {"announce", "publishing", "crossing", "broken"}
Begun(r) == r.entered \/ Announcing(r)
Holding(r) == Launched(r) /\ ~r.released
Quiet(r) == r.done /\ ~Holding(r)

Active == Cardinality({j \in Jobs : Holding(job[j])})

\* job_logically_settled
LogicallySettled(r) ==
  \/ r.unstarted
  \/ r.late /\ ((r.done /\ r.released) \/ r.over)
  \/ ~r.late /\ Quiet(r)

\* The scheduler holds the condition while it admits and while it returns.
LockFree == sched \notin {"admit", "return"}

-----------------------------------------------------------------------------
(* The worker thread of job j.                                             *)

Become(j, r) ==
  /\ job' = [job EXCEPT ![j] = r]
  /\ UNCHANGED <<wave, next, sched, cutoff, cancelled, clocks, permits>>

\* A slip: the worker asks the signals but not its own abandonment.
ClosingBySignals(j) == cancelled \/ expired

\* A worker may not cross the start boundary any more.
Closing(j) == job[j].abandoned \/ cancelled \/ expired

BeginRefused(j) ==
  /\ LockFree /\ job[j].pc = "begin" /\ Closing(j)
  /\ Become(j, [job[j] EXCEPT !.abandoned = TRUE, !.done = TRUE,
                              !.tardy = expired, !.pc = "finish"])

\* announcing = True: the start publication is reserved under the lock.
BeginAnnounce(j) ==
  /\ LockFree /\ job[j].pc = "begin" /\ ~Closing(j) /\ wave.journal
  /\ Become(j, [job[j] EXCEPT !.pc = "announce"])

BeginHandler(j) ==
  /\ LockFree /\ job[j].pc = "begin" /\ ~Closing(j) /\ ~wave.journal
  /\ Become(j, [job[j] EXCEPT !.entered = TRUE, !.pc = "handler"])

\* run_tool_batch's announce: is_abandoned() is read without the lock, and
\* the start row is dispatched after it.
Announce(j) ==
  /\ job[j].pc = "announce"
  /\ Become(j, [job[j] EXCEPT !.pc = IF job[j].abandoned THEN "crossing"
                                     ELSE "publishing"])

Publish(j) ==
  /\ job[j].pc = "publishing"
  /\ \E last \in {"crossing", "broken"} :
       Become(j, [job[j] EXCEPT !.published = TRUE, !.pc = last])

\* A required start journal raised: the exception is kept for the caller.
AnnounceFailed(j) ==
  /\ LockFree /\ job[j].pc = "broken"
  /\ Become(j, [job[j] EXCEPT !.error = TRUE, !.done = TRUE,
                              !.tardy = expired, !.pc = "finish"])

CrossRefused(j) ==
  /\ LockFree /\ job[j].pc = "crossing" /\ Closing(j)
  /\ Become(j, [job[j] EXCEPT !.abandoned = TRUE, !.done = TRUE,
                              !.outcome = "indeterminate",
                              !.tardy = expired, !.pc = "finish"])

Cross(j) ==
  /\ LockFree /\ job[j].pc = "crossing" /\ ~Closing(j)
  /\ Become(j, [job[j] EXCEPT !.entered = TRUE, !.pc = "handler"])

\* What a handler may return; nobody reads the answer of a wave that ended.
Answers ==
  IF sched \notin Open THEN {"failed"}
  ELSE IF Lifecycle THEN Returns ELSE Returns \ {"committed"}

\* The handler returns; its end is stamped before the lock is taken.
HandlerEnds(j) ==
  /\ job[j].pc = "handler"
  /\ \E r \in Answers :
       Become(j, [job[j] EXCEPT !.ret = r, !.tardy = expired,
                                !.pc = "settle"])

Settle(j) ==
  /\ LockFree /\ job[j].pc = "settle"
  /\ Become(j, [job[j] EXCEPT !.outcome = job[j].ret, !.done = TRUE,
                              !.ret = "none", !.pc = "finish"])

\* A slip: the worker's finally gives the permit back a second time.
FinishTwice(j) ==
  /\ LockFree /\ job[j].pc = "finish"
  /\ job' = [job EXCEPT ![j] = [@ EXCEPT !.released = TRUE, !.pc = "gone"]]
  /\ free' = free + 1
  /\ UNCHANGED <<wave, next, sched, cutoff, cancelled, clocks, foreign>>

\* The finally clause: idempotent against the wave's early release.
Finish(j) ==
  /\ LockFree /\ job[j].pc = "finish"
  /\ job' = [job EXCEPT ![j] = [@ EXCEPT !.released = TRUE, !.pc = "gone"]]
  /\ free' = IF job[j].released THEN free ELSE free + 1
  /\ UNCHANGED <<wave, next, sched, cutoff, cancelled, clocks, foreign>>

WorkerLockStep(j) ==
  \/ BeginRefused(j) \/ BeginAnnounce(j) \/ BeginHandler(j)
  \/ AnnounceFailed(j) \/ CrossRefused(j) \/ Cross(j)
  \/ Settle(j) \/ Finish(j)

-----------------------------------------------------------------------------
(* Cut-offs.                                                               *)

\* establish_cutoff: who is late, who never started, who is abandoned.  A
\* strict cut is made at the deadline that has passed, any other one now.
Cut(f, strict) ==
  [j \in Jobs |->
     LET r == f[j]
         late == Begun(r) /\ (r.reaped \/ ~r.done \/ (strict /\ r.tardy))
         never == \/ r.abandoned /\ r.outcome = "none"
                  \/ ~Begun(r) /\ ~r.done
     IN [r EXCEPT !.late = late, !.unstarted = never,
                  !.abandoned = @ \/ never \/ (late /\ Announcing(r))]]

\* Children whose inactivity window may have run out when the scheduler
\* reads activity.last: any that was launched and is not done.
Silent == {j \in Jobs : PerJobLiveness /\ Launched(job[j]) /\ ~job[j].done}

\* process_job_timeouts: the jobs whose own clocks have run out, when those
\* in idle show no activity.
Reapable(idle) ==
  {j \in Jobs : /\ PerJobCutoffs /\ ~job[j].reaped /\ ~job[j].done
                /\ guard \/ j \in idle}

\* establish_job_timeout
Reap(r) ==
  IF Begun(r)
  THEN [r EXCEPT !.reaped = TRUE, !.late = TRUE,
                 !.abandoned = @ \/ Announcing(r)]
  ELSE [r EXCEPT !.reaped = TRUE, !.unstarted = TRUE,
                 !.abandoned = TRUE, !.done = TRUE]

TimedOut(idle) ==
  [j \in Jobs |-> IF j \in Reapable(idle) THEN Reap(job[j]) ELSE job[j]]

\* A slip: the harvest before a launch is left out.
UnresolvedIgnored(f) == FALSE

\* cancel_queued_after_indeterminate: is a launched job's outcome unresolved?
Unresolved(f) ==
  \E j \in Jobs : /\ j < next /\ f[j].done /\ ~f[j].error
                  /\ f[j].outcome = "indeterminate"

\* The tail never launched settles as "Not run".
TailClosed(f) ==
  [j \in Jobs |->
     IF j < next THEN f[j]
     ELSE [f[j] EXCEPT !.abandoned = TRUE, !.done = TRUE,
                       !.outcome = "notrun"]]

-----------------------------------------------------------------------------
(* The scheduler thread.                                                   *)

Kind == IF cancelled THEN "cancel" ELSE IF expired THEN "deadline" ELSE "steer"

\* The top of the loop: a pending cut ends the wave.  The steer probe is
\* read here only, and the user may have queued a steer at any time.
PollCut ==
  /\ sched = "poll"
  /\ \E idle \in SUBSET Silent, steered \in BOOLEAN :
       /\ cancelled \/ expired \/ steered
       /\ job' = Cut(IF cancelled THEN job ELSE TimedOut(idle),
                     ~cancelled /\ ~steered)
  /\ cutoff' = Kind
  /\ sched' = "grace"
  /\ UNCHANGED <<wave, next, cancelled, clocks, permits>>

\* No cut: typed uncertainty is harvested before a slot is used again.
PollPass ==
  /\ sched = "poll"
  /\ ~cancelled /\ ~expired
  /\ \E idle \in SUBSET Silent :
       IF Unresolved(TimedOut(idle))
       THEN job' = TailClosed(TimedOut(idle)) /\ next' = wave.size + 1
       ELSE job' = TimedOut(idle) /\ UNCHANGED next
  /\ sched' = "admit"
  /\ UNCHANGED <<wave, cutoff, cancelled, clocks, permits>>

Room == next <= wave.size /\ Active < wave.limit

\* Both sources of a cut are read again before each launch.
AdmitCut ==
  /\ sched = "admit" /\ Room
  /\ cancelled \/ expired
  /\ job' = Cut(job, ~cancelled)
  /\ cutoff' = Kind
  /\ sched' = "grace"
  /\ UNCHANGED <<wave, next, cancelled, clocks, permits>>

\* The first Burst children start at once; each later one waits its turn.
Staggered == Lifecycle /\ next > Burst /\ ~ramped

Admit == sched = "admit" /\ Room /\ ~cancelled /\ ~expired /\ ~Staggered

AdmitLaunch ==
  /\ Admit /\ free > 0
  /\ job' = [job EXCEPT ![next] = [@ EXCEPT !.pc = "begin"]]
  /\ free' = free - 1
  /\ next' = next + 1
  /\ slotWait' = "no"
  /\ ramped' = FALSE
  /\ UNCHANGED <<wave, sched, cutoff, cancelled, expired, guard, graceOver,
                 foreign>>

\* A slip: only the launch pointer ends the wave (the comment at
\* scheduler.py:700 tells of this one).
PassEndByPointer(f, n) ==
  IF n > wave.size /\ \A j \in Jobs : Quiet(f[j])
  THEN IF PerJobCutoffs /\ \E j \in Jobs : f[j].reaped THEN "grace"
       ELSE "return"
  ELSE IF n > wave.size /\ PerJobCutoffs /\ \A j \in Jobs : LogicallySettled(f[j])
       THEN "grace"
       ELSE "poll"

\* How a pass ends: the wave is finished, or settled up to its stragglers,
\* or the scheduler waits on the condition.
PassEnd(f, n) ==
  IF n > wave.size /\ \A j \in Jobs : Quiet(f[j])
  THEN IF PerJobCutoffs /\ \E j \in Jobs : f[j].reaped THEN "grace"
       ELSE "return"
  ELSE IF PerJobCutoffs /\ \A j \in Jobs : LogicallySettled(f[j])
       THEN "grace"
       ELSE "poll"

\* No free permit: start the slot-wait clock, or give the tail up.
AdmitStarved ==
  /\ Admit /\ free = 0 /\ slotWait # "over"
  /\ slotWait' = "waiting"
  /\ sched' = PassEnd(job, next)
  /\ UNCHANGED <<wave, job, next, cutoff, cancelled, expired, guard, graceOver,
                 ramped, permits>>

AdmitExhausted ==
  /\ Admit /\ free = 0 /\ slotWait = "over"
  /\ job' = TailClosed(job)
  /\ next' = wave.size + 1
  /\ sched' = PassEnd(job', next')
  /\ UNCHANGED <<wave, cutoff, cancelled, clocks, permits>>

AdmitNone ==
  /\ sched = "admit"
  /\ ~Room \/ (~cancelled /\ ~expired /\ Staggered)
  /\ sched' = PassEnd(job, next)
  /\ UNCHANGED <<wave, job, next, cutoff, cancelled, clocks, permits>>

-----------------------------------------------------------------------------
(* The end of the wave.                                                    *)

Straggling(r) == r.late /\ ~(r.done /\ r.released)

\* Slips: the late result is relabelled before its own word is heard.
LateResultFailed(r) ==
  IF r.outcome = "committed" THEN "committed" ELSE "failed"
LateResultUncommitted(r) ==
  IF r.outcome = "indeterminate" THEN "indeterminate"
  ELSE IF cutoff = "steer" THEN r.outcome
  ELSE "failed"

\* A result that crossed its cut-off, settled within the grace.
LateResult(r) ==
  IF r.outcome \in {"indeterminate", "committed"} THEN r.outcome
  ELSE IF ~Lifecycle THEN "failed"
  ELSE IF cutoff = "steer" THEN r.outcome
  ELSE IF wave.kind = "writer" THEN "indeterminate"
  ELSE IF cutoff \in {"none", "deadline"} \/ r.reaped THEN "failed"
  ELSE "withdrawn"

Assembled(r) ==
  IF r.unstarted THEN "notrun"
  ELSE IF Straggling(r) THEN "indeterminate"
  ELSE IF r.late THEN LateResult(r)
  ELSE r.outcome

\* _job_result raises for a job with an error, or with no outcome at all.
Raises(r) ==
  /\ ~r.unstarted /\ ~Straggling(r)
  /\ r.error \/ r.outcome = "none"

\* The plain end: every job settled and no cut was made.
ReturnRaw ==
  /\ sched = "return"
  /\ IF \E j \in Jobs : job[j].error \/ job[j].outcome = "none"
     THEN sched' = "raised" /\ UNCHANGED job
     ELSE /\ sched' = "closed"
          /\ job' = [j \in Jobs |-> [job[j] EXCEPT !.res = job[j].outcome]]
  /\ UNCHANGED <<wave, next, cutoff, cancelled, clocks, permits>>

\* Is there no grace to wait for?  A per-job wave has given it already; a
\* cancelled or steered read gets none.
NoGrace ==
  \/ PerJobLiveness /\ cutoff = "none"
  \/ /\ cutoff \in {"cancel", "steer"}
     /\ ~(Lifecycle /\ \E j \in Jobs : job[j].late)

Stragglers == {j \in Jobs : Straggling(job[j])}

\* A slip: a wedged reader keeps its permit.
KeepStragglers == job

\* Stragglers lose their slot here, so that it bounds active work only.
ReleaseStragglers ==
  [j \in Jobs |-> [job[j] EXCEPT
                     !.released = @ \/ (j \in Stragglers /\ Launched(job[j]))]]

Close ==
  /\ sched = "grace"
  /\ NoGrace \/ graceOver \/ Stragglers = {}
  /\ LET freed == ReleaseStragglers
         raises == \E j \in Jobs : Raises(job[j])
     IN /\ sched' = IF raises THEN "raised" ELSE "closed"
        /\ free' = free + Cardinality({j \in Jobs :
                                         freed[j].released /\ ~job[j].released})
        /\ job' = [j \in Jobs |->
                     [freed[j] EXCEPT !.res = IF raises THEN @
                                              ELSE Assembled(job[j])]]
  /\ UNCHANGED <<wave, next, cutoff, cancelled, clocks, foreign>>

\* KeyboardInterrupt in the scheduler thread: freeze the start boundary,
\* hand over what has settled (on_partial), raise.
Interrupt ==
  /\ sched \in {"poll", "admit", "grace"}
  /\ cutoff' = "interrupt"
  /\ sched' = "raised"
  /\ job' = [j \in Jobs |->
               LET r == Cut(job, FALSE)[j]
               IN [r EXCEPT !.res = IF r.done /\ ~r.error THEN r.outcome
                                    ELSE "none"]]
  /\ UNCHANGED <<wave, next, cancelled, clocks, permits>>

Scheduler ==
  \/ PollCut \/ PollPass
  \/ AdmitCut \/ AdmitLaunch \/ AdmitStarved \/ AdmitExhausted \/ AdmitNone
  \/ ReturnRaw \/ Close

-----------------------------------------------------------------------------
(* The user, the clocks and the other waves.  Each moves only while the    *)
(* wave can still see it: cancelled and deadlines until the cut, permits     *)
(* while a task is queued.                                                 *)

Still == UNCHANGED <<wave, next, cutoff, sched>>

Uncut == sched \in {"poll", "admit"}

CancelTurn ==
  /\ Uncut /\ ~cancelled /\ cancelled' = TRUE
  /\ Still /\ UNCHANGED <<job, clocks, permits>>

DeadlinePasses ==
  /\ Uncut /\ HasDeadline /\ ~expired /\ expired' = TRUE
  /\ Still /\ UNCHANGED <<job, cancelled, guard, graceOver, slotWait, ramped,
                          permits>>

GuardPasses ==
  /\ Uncut /\ Lifecycle /\ ~guard /\ guard' = TRUE
  /\ Still /\ UNCHANGED <<job, cancelled, expired, graceOver, slotWait, ramped,
                          permits>>

GracePasses ==
  /\ sched = "grace" /\ ~graceOver /\ graceOver' = TRUE
  /\ Still /\ UNCHANGED <<job, cancelled, expired, guard, slotWait, ramped,
                          permits>>

SlotWaitPasses ==
  /\ Uncut /\ next <= wave.size
  /\ slotWait = "waiting" /\ slotWait' = "over"
  /\ Still /\ UNCHANGED <<job, cancelled, expired, guard, graceOver, ramped,
                          permits>>

StaggerPasses ==
  /\ Uncut /\ Staggered /\ ramped' = TRUE
  /\ Still /\ UNCHANGED <<job, cancelled, expired, guard, graceOver, slotWait,
                          permits>>

JobGracePasses(j) ==
  /\ Uncut /\ job[j].reaped /\ Straggling(job[j]) /\ ~job[j].over
  /\ job' = [job EXCEPT ![j] = [@ EXCEPT !.over = TRUE]]
  /\ Still /\ UNCHANGED <<cancelled, clocks, permits>>

ForeignTakes ==
  /\ Uncut /\ next <= wave.size /\ free > 0 /\ foreign < ForeignMax
  /\ free' = free - 1 /\ foreign' = foreign + 1
  /\ Still /\ UNCHANGED <<job, cancelled, clocks>>

ForeignFrees ==
  /\ Uncut /\ next <= wave.size /\ foreign > 0
  /\ free' = free + 1 /\ foreign' = foreign - 1
  /\ Still /\ UNCHANGED <<job, cancelled, clocks>>

Next ==
  \/ Scheduler \/ Interrupt
  \/ \E j \in Jobs : \/ WorkerLockStep(j)
                     \/ Announce(j) \/ Publish(j) \/ HandlerEnds(j)
                     \/ JobGracePasses(j)
  \/ CancelTurn
  \/ DeadlinePasses \/ GuardPasses \/ GracePasses
  \/ SlotWaitPasses \/ StaggerPasses
  \/ ForeignTakes \/ ForeignFrees

Spec == Init /\ [][Next]_vars

-----------------------------------------------------------------------------
(* Type.                                                                   *)

\* Every variable stays in its set; in particular a permit is never given
\* back twice.
TypeOK ==
  /\ wave \in Waves
  /\ job \in [Jobs -> JobType]
  /\ next \in 1..(wave.size + 1)
  /\ sched \in Open \cup {"closed", "raised"}
  /\ cutoff \in {"none", "deadline", "cancel", "steer", "interrupt"}
  /\ {cancelled, expired, guard, graceOver, ramped} \subseteq BOOLEAN
  /\ slotWait \in {"no", "waiting", "over"}
  /\ free \in 0..Capacity /\ foreign \in 0..ForeignMax
-----------------------------------------------------------------------------
(* Safety.                                                                 *)

Contract == INSTANCE WaveContract WITH
  phase <- IF sched \in Open THEN "open" ELSE sched,
  started <- {j \in Jobs : job[j].entered},
  res <- [j \in Jobs |-> job[j].res]

\* A wave keeps its contract however its cut-offs race with its workers: a
\* call answered "Not run" never runs, not even after the wave is over, and
\* no worker thread that wakes late crosses the start boundary.
KeepsContract == Contract!Spec

\* The state is well typed, and every permit is free, with another wave, or held by one job of this one
\* whose slot was not released: neither the early release of a wedged
\* reader nor the worker's own finally gives one back twice.
SlotBooks ==
  /\ TypeOK
  /\ free + foreign + Cardinality({j \in Jobs : Holding(job[j])}) = Capacity

\* Uncertainty is never talked away: a handler that reported it, or that
\* was still running when the wave returned, is answered "indeterminate".
\* A wave raises only for an interrupt or for a start journal that failed: no
\* worker settles "without an outcome" (_job_result) in one that returns.
UncertaintyKept ==
  /\ sched = "closed" =>
       \A j \in Jobs :
         \/ job[j].outcome = "indeterminate" /\ ~job[j].unstarted
         \/ job[j].entered /\ ~job[j].done
         => job[j].res = "indeterminate"
  /\ sched = "raised" => cutoff = "interrupt" \/ \E j \in Jobs : job[j].error

\* The child's own commit wins against every cut-off: a report that was
\* sealed and published before the wave closed is answered as such.
CommitWins ==
  [][\A j \in Jobs :
       (/\ sched' = "closed" /\ sched # "closed"
        /\ job[j].outcome = "committed" /\ job[j].released)
       => job'[j].res = "committed"]_vars

\* No job is launched while an outcome of the wave is unresolved: its
\* provider call may still be live, so the slot is not really free.
NoLaunchOverUncertainty ==
  [][\A j \in Jobs :
       (job[j].pc = "queued" /\ job'[j].pc = "begin")
       => \A k \in Jobs : ~(job[k].done /\ job[k].outcome = "indeterminate")]_vars

\* A wave that returned leaves no permit with a thread that may hang: one
\* it still holds is with a worker whose next steps need only the lock.
NoWedgedPermit ==
  sched = "closed" =>
    \A j \in Jobs : Holding(job[j]) => job[j].pc \in {"begin", "finish"}

-----------------------------------------------------------------------------
(* Liveness.  The scheduler leaves the lock at every wait, so a worker     *)
(* that wants it gets it in the end; clocks run.  Handlers and journals    *)
(* owe nothing, and neither do the other waves.                            *)

\* No wave of interest is larger.
MaxSize == CHOOSE n \in {w.size : w \in Waves} : \A w \in Waves : w.size <= n

Fairness ==
  /\ WF_vars(Scheduler)
  /\ \A j \in 1..MaxSize : SF_vars(j \in Jobs /\ WorkerLockStep(j))
  /\ \A j \in 1..MaxSize : WF_vars(j \in Jobs /\ JobGracePasses(j))
  /\ WF_vars(DeadlinePasses) /\ WF_vars(GuardPasses)
  /\ WF_vars(GracePasses) /\ WF_vars(SlotWaitPasses)
  /\ WF_vars(StaggerPasses)

FairSpec == Spec /\ Fairness

\* Every bounded wave ends, even when every handler hangs, the journal
\* blocks, and other turns keep all the permits: no child can freeze the
\* parent turn.
WaveEnds ==
  (Lifecycle \/ wave.timeout) => <>(sched \in {"closed", "raised"})
=============================================================================
